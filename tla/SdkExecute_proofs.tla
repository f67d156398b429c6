----------------------------- MODULE SdkExecute_proofs -----------------------------
(* Proofs about messages from the call of sdk.execute to the wallet, for any     *)
(* number of messages, loops, crashes, failing calls and foreign executions.     *)
(* First the relayer's queue: its steps are those of MessageQueue with one       *)
(* generalisation, the row that is queued may hold any signatures, so that the   *)
(* relayer as a whole can use the results too.  Then the relayer as a whole: of  *)
(* the messages that compete for a nonce one wins, and the two components        *)
(* together go through the life that MessageLifecycle promises.  Last what the   *)
(* callers of sdk.execute are told: a success has used up its nonce, of two      *)
(* calls for one nonce one is told success, and what was told stays true.        *)
EXTENDS SdkExecute, WalletOps_proofs

(* THE QUEUE                                                                    *)

(* The part of an iteration in which a loop has a row, and a transaction.        *)
Busy(l) == loop[l].pc \in {"validate", "send", "wait", "hooks", "setHash", "markSuccess", "markError"}
HasSent(l) == loop[l].pc \in {"wait", "hooks", "setHash", "markSuccess"}

(* What the loops know of the tables is there.                                   *)
LoopsOK ==
    \A l \in Loops :
        /\ Busy(l) => loop[l].row \in DOMAIN finalMessages
        /\ HasSent(l) => loop[l].tx \in DOMAIN txs /\ txs[loop[l].tx].message = Current(l).message

(* A message is queued once, and every row before that of a loop is resolved.    *)
RowsDistinct ==
    \A i, j \in DOMAIN finalMessages : finalMessages[i].message = finalMessages[j].message => i = j
NoneOvertaken ==
    \A l \in Loops : Busy(l) => \A i \in 1..(loop[l].row - 1) : Resolved(finalMessages[i])

(* The hash is stored before success is.                                         *)
HashComesFirst ==
    \A l \in Loops : At(l, "markSuccess") => Current(l).message \in transactionHash

(* Every executed message has used up its nonce, and no two have used up one.    *)
Ok(t) == txs[t].status = "ok"
NonceOfTx(t) == NonceOf[txs[t].message]
NoncesSpent ==
    /\ \A t \in DOMAIN txs : Ok(t) => NonceOfTx(t) < wallet.lastNonce
    /\ \A t, u \in DOMAIN txs : Ok(t) /\ Ok(u) /\ NonceOfTx(t) = NonceOfTx(u) => t = u

(* While one loop runs and the tables answer, the loop works at an open row.     *)
RowIsOpen ==
    faults = 0 /\ OneLoop => \A l \in Loops : Busy(l) => ~Resolved(Current(l))

(* The inductive invariant of the queue.                                         *)
QueueInv ==
    /\ TypeOK /\ LoopsOK /\ RowsDistinct
    /\ NoneOvertaken /\ ResolvedInOrder
    /\ HashComesFirst /\ SuccessHasHash
    /\ NoncesSpent /\ RowIsOpen

--------------------------------------------------------------------------------
(* What the outcomes rest on, while nothing fails and one loop runs for good.    *)
Quiet == faults = 0 /\ foreign = 0 /\ NeverRestarted

(* A nonce that is taken was taken by a message of this queue.                   *)
NonceTaken(m) == \E t \in DOMAIN txs : Ok(t) /\ NonceOfTx(t) = NonceOf[m]
Fits(m, sigs) == ExecuteSignedAllowed(wallet, NonceOf[m], sigs)

(* What was found executable stays so until its nonce is taken.                  *)
SentIsSound ==
    /\ \A t \in DOMAIN txs :
          \/ NonceTaken(txs[t].message)
          \/ txs[t].status = "pending" /\ Fits(txs[t].message, txs[t].sigs)
    /\ \A l \in Loops : At(l, "send") =>
          NonceTaken(Current(l).message) \/ Fits(Current(l).message, Current(l).sigs)
    /\ \A l \in Loops : loop[l].pc \in {"hooks", "setHash", "markSuccess"} =>
          NonceTaken(Current(l).message)

(* When a message is sent, those before it that want its nonce have failed.      *)
RivalsFailed(i) ==
    \A k \in 1..(i - 1) :
        NonceOf[finalMessages[k].message] = NonceOf[finalMessages[i].message] => finalMessages[k].error
EarlierFailed ==
    /\ \A t \in DOMAIN txs : \E i \in DOMAIN finalMessages :
          finalMessages[i].message = txs[t].message /\ RivalsFailed(i)
    /\ \A l \in Loops : At(l, "send") => RivalsFailed(loop[l].row)

(* A success has a transaction of its message, and is no error.                  *)
SuccessIsSound ==
    \A i \in DOMAIN finalMessages :
        LET row == finalMessages[i]
        IN  row.tx # 0 => /\ ~row.error /\ NonceTaken(row.message)
                          /\ row.tx \in DOMAIN txs /\ txs[row.tx].message = row.message

(* Unless the process dies, the transactions are those the rows and the loop     *)
(* know of, and the only one that may be pending is the one the loop waits for.  *)
KnownTransactions ==
    crashes = 0 =>
        /\ \A t \in DOMAIN txs :
              \/ \E i \in DOMAIN finalMessages :
                    finalMessages[i].tx = t /\ txs[t].message = finalMessages[i].message
              \/ \E l \in Loops : HasSent(l) /\ loop[l].tx = t
        /\ \A t \in DOMAIN txs :
              \/ Ok(t)
              \/ txs[t].status = "pending" /\ \E l \in Loops : At(l, "wait") /\ loop[l].tx = t
        /\ \A l \in Loops : At(l, "send") => Fits(Current(l).message, Current(l).sigs)
        /\ \A t \in DOMAIN txs : txs[t].status = "pending" => Fits(txs[t].message, txs[t].sigs)

OutcomeInv ==
    Quiet => SentIsSound /\ EarlierFailed /\ SuccessIsSound /\ KnownTransactions

--------------------------------------------------------------------------------
(* A message is queued, with any signatures.                                     *)
QueueRow(m, sigs) ==
    /\ m \notin Queued
    /\ finalMessages' = Append(finalMessages, [message |-> m, sigs |-> sigs, tx |-> 0, error |-> FALSE])
    /\ UNCHANGED <<transactionHash, service, chain, bounded>>

QueueNext ==
    \/ \E m \in Messages, sigs \in Seq(Nat) : QueueRow(m, sigs)
    \/ \E l \in Loops : Start(l) \/ Step(l) \/ Throws(l)
    \/ Stop \/ StopLater \/ StopLaterReturns
    \/ Crash \/ Mine \/ ForeignExecution

LEMMA NextIsQueueNext == Next => QueueNext
<1>1. ASSUME NEW m \in Messages, Enqueue(m) PROVE QueueRow(m, SigsOf[m]) /\ SigsOf[m] \in Seq(Nat)
  BY <1>1, MessagesAssumption DEF Enqueue, QueueRow, NewRow
<1>2. QED
  BY <1>1 DEF Next, QueueNext

(* The least of a set of numbers.                                                *)
LEMMA MinIsLeast ==
    ASSUME NEW S \in SUBSET Nat, S # {}
    PROVE  Min(S) \in S /\ \A i \in S : Min(S) <= i
<1>1. \E i \in S : \A j \in S : i <= j
  <2> DEFINE R == OpToRel(<, Nat)
  <2>1. IsWellFoundedOn(R, Nat)
    BY NatLessThanWellFounded
  <2> HIDE DEF R
  <2>2. \E i \in S : \A j \in S : ~(<<j, i>> \in R)
    BY <2>1, WFMin
  <2>3. \A i, j \in S : i < j => <<i, j>> \in R
    BY DEF R, OpToRel
  <2>4. \A i, j \in S : i < j \/ j <= i
    OBVIOUS
  <2>5. QED
    BY <2>2, <2>3, <2>4
<1>2. QED
  BY <1>1 DEF Min

(* An execution takes one nonce of the wallet.                                   *)
LEMMA ExecutionsAreSound ==
    ASSUME NEW s \in Storage, NEW c \in Call \cup {External}, NEW t \in Executions(s, c)
    PROVE  t \in Storage /\ t.lastNonce = s.lastNonce + 1
<1> DEFINE called == IncrementNonce(s)
           event(ok) == [nonce |-> s.lastNonce, success |-> ok]
<1>1. called \in Storage /\ called.lastNonce = s.lastNonce + 1 /\ s.lastNonce \in Nat
  BY DEF IncrementNonce, Storage
<1>2. ASSUME NEW u \in Storage, NEW ok \in BOOLEAN
      PROVE  /\ EmitExecutedSigned(u, event(ok)) \in Storage
             /\ EmitExecutedSigned(u, event(ok)).lastNonce = u.lastNonce
  <2>1. event(ok) \in [nonce: Nat, success: BOOLEAN]
    BY <1>1
  <2> HIDE DEF event
  <2>2. QED
    BY <2>1 DEF EmitExecutedSigned, Storage
<1>3. \/ \E ok \in BOOLEAN : t = EmitExecutedSigned(called, event(ok))
      \/ /\ c # External /\ Allowed(called, This, c)
         /\ t = EmitExecutedSigned(Effect(called, c), event(TRUE))
  BY DEF Executions
<1> HIDE DEF called, event
<1>4. CASE \E ok \in BOOLEAN : t = EmitExecutedSigned(called, event(ok))
  BY <1>1, <1>2, <1>4
<1>5. CASE /\ c # External /\ Allowed(called, This, c)
           /\ t = EmitExecutedSigned(Effect(called, c), event(TRUE))
  <2>1. Effect(called, c) \in Storage /\ Effect(called, c).lastNonce = called.lastNonce
    BY <1>1, <1>5, EffectIsSound
  <2>2. QED
    BY <1>1, <1>2, <1>5, <2>1
<1>6. QED
  BY <1>3, <1>4, <1>5

--------------------------------------------------------------------------------
(* What the updates do, entry by entry.                                          *)
LEMMA LoopGoes ==
    ASSUME loop \in [Loops -> Loop], NEW l \in Loops, NEW pc \in Pcs, GoTo(l, pc)
    PROVE  /\ loop' \in [Loops -> Loop]
           /\ loop'[l].pc = pc /\ loop'[l].row = loop[l].row /\ loop'[l].tx = loop[l].tx
           /\ \A k \in Loops : k # l => loop'[k] = loop[k]
BY DEF GoTo, Loop

LEMMA LoopTakesRow ==
    ASSUME loop \in [Loops -> Loop], NEW l \in Loops, NEW i \in Nat,
           loop' = [loop EXCEPT ![l].pc = "validate", ![l].row = i]
    PROVE  /\ loop' \in [Loops -> Loop]
           /\ loop'[l].pc = "validate" /\ loop'[l].row = i /\ loop'[l].tx = loop[l].tx
           /\ \A k \in Loops : k # l => loop'[k] = loop[k]
BY DEF Loop, Pcs

LEMMA LoopSends ==
    ASSUME loop \in [Loops -> Loop], NEW l \in Loops, NEW t \in Nat,
           loop' = [loop EXCEPT ![l].pc = "wait", ![l].tx = t]
    PROVE  /\ loop' \in [Loops -> Loop]
           /\ loop'[l].pc = "wait" /\ loop'[l].row = loop[l].row /\ loop'[l].tx = t
           /\ \A k \in Loops : k # l => loop'[k] = loop[k]
BY DEF Loop, Pcs

LEMMA UnresolvedRow ==
    ASSUME finalMessages \in Seq(Row), Unresolved # {}
    PROVE  /\ Min(Unresolved) \in Nat /\ Min(Unresolved) \in DOMAIN finalMessages
           /\ ~Resolved(finalMessages[Min(Unresolved)])
           /\ \A i \in 1..(Min(Unresolved) - 1) : Resolved(finalMessages[i])
<1>1. Unresolved \in SUBSET Nat /\ DOMAIN finalMessages = 1..Len(finalMessages)
      /\ Len(finalMessages) \in Nat
  BY LenProperties DEF Unresolved
<1>2. Min(Unresolved) \in Unresolved /\ \A i \in Unresolved : Min(Unresolved) <= i
  BY <1>1, MinIsLeast
<1>3. Min(Unresolved) \in 1..Len(finalMessages) /\ ~Resolved(finalMessages[Min(Unresolved)])
  BY <1>1, <1>2 DEF Unresolved
<1>4. ASSUME NEW i \in 1..(Min(Unresolved) - 1) PROVE Resolved(finalMessages[i])
  <2>1. i \in DOMAIN finalMessages /\ i < Min(Unresolved)
    BY <1>1, <1>3
  <2>2. i \notin Unresolved
    BY <1>2, <1>3, <2>1
  <2>3. QED
    BY <2>1, <2>2 DEF Unresolved
<1>5. QED
  BY <1>1, <1>3, <1>4

LEMMA RowSucceeds ==
    ASSUME finalMessages \in Seq(Row), NEW i \in DOMAIN finalMessages, NEW t \in Nat,
           finalMessages' = [finalMessages EXCEPT ![i].tx = t]
    PROVE  /\ finalMessages' \in Seq(Row) /\ DOMAIN finalMessages' = DOMAIN finalMessages
           /\ finalMessages'[i].message = finalMessages[i].message
           /\ finalMessages'[i].sigs = finalMessages[i].sigs
           /\ finalMessages'[i].error = finalMessages[i].error
           /\ finalMessages'[i].tx = t
           /\ \A k \in DOMAIN finalMessages : k # i => finalMessages'[k] = finalMessages[k]
<1>1. i \in 1..Len(finalMessages) /\ finalMessages[i] \in Row
  OBVIOUS
<1> DEFINE row == [finalMessages[i] EXCEPT !.tx = t]
<1>2. row \in Row
  BY <1>1 DEF Row
<1>3. finalMessages' = [finalMessages EXCEPT ![i] = row]
  OBVIOUS
<1>4. /\ row.message = finalMessages[i].message /\ row.sigs = finalMessages[i].sigs
      /\ row.error = finalMessages[i].error /\ row.tx = t
  BY <1>1 DEF Row
<1> HIDE DEF row
<1>5. /\ finalMessages' \in Seq(Row) /\ Len(finalMessages') = Len(finalMessages)
      /\ \A k \in 1..Len(finalMessages) : finalMessages'[k] = IF k = i THEN row ELSE finalMessages[k]
  BY <1>1, <1>2, <1>3, ExceptSeq
<1>6. QED
  BY <1>1, <1>4, <1>5, LenProperties

LEMMA RowFails ==
    ASSUME finalMessages \in Seq(Row), NEW i \in DOMAIN finalMessages,
           finalMessages' = [finalMessages EXCEPT ![i].error = TRUE]
    PROVE  /\ finalMessages' \in Seq(Row) /\ DOMAIN finalMessages' = DOMAIN finalMessages
           /\ finalMessages'[i].message = finalMessages[i].message
           /\ finalMessages'[i].sigs = finalMessages[i].sigs
           /\ finalMessages'[i].tx = finalMessages[i].tx
           /\ finalMessages'[i].error = TRUE
           /\ \A k \in DOMAIN finalMessages : k # i => finalMessages'[k] = finalMessages[k]
<1>1. i \in 1..Len(finalMessages) /\ finalMessages[i] \in Row
  OBVIOUS
<1> DEFINE row == [finalMessages[i] EXCEPT !.error = TRUE]
<1>2. row \in Row
  BY <1>1 DEF Row
<1>3. finalMessages' = [finalMessages EXCEPT ![i] = row]
  OBVIOUS
<1>4. /\ row.message = finalMessages[i].message /\ row.sigs = finalMessages[i].sigs
      /\ row.tx = finalMessages[i].tx /\ row.error = TRUE
  BY <1>1 DEF Row
<1> HIDE DEF row
<1>5. /\ finalMessages' \in Seq(Row) /\ Len(finalMessages') = Len(finalMessages)
      /\ \A k \in 1..Len(finalMessages) : finalMessages'[k] = IF k = i THEN row ELSE finalMessages[k]
  BY ONLY finalMessages \in Seq(Row), <1>1, <1>2, <1>3, ExceptSeq
<1>6. DOMAIN finalMessages' = DOMAIN finalMessages
  BY ONLY finalMessages \in Seq(Row), <1>5, LenProperties
<1>7. finalMessages'[i] = row /\ \A k \in DOMAIN finalMessages : k # i => finalMessages'[k] = finalMessages[k]
  BY ONLY <1>1, <1>5, LenProperties, finalMessages \in Seq(Row)
<1>8. QED
  BY <1>4, <1>5, <1>6, <1>7, Zenon

LEMMA RowIsAdded ==
    ASSUME finalMessages \in Seq(Row), NEW m \in Messages, NEW sigs \in Seq(Nat), QueueRow(m, sigs)
    PROVE  LET n == Len(finalMessages) + 1
           IN  /\ finalMessages' \in Seq(Row) /\ n \in Nat
               /\ DOMAIN finalMessages = 1..Len(finalMessages) /\ n \notin DOMAIN finalMessages
               /\ DOMAIN finalMessages' = DOMAIN finalMessages \cup {n}
               /\ \A k \in DOMAIN finalMessages : finalMessages'[k] = finalMessages[k] /\ k < n
               /\ finalMessages'[n].message = m /\ finalMessages'[n].tx = 0
               /\ finalMessages'[n].error = FALSE
<1> DEFINE row == [message |-> m, sigs |-> sigs, tx |-> 0, error |-> FALSE]
<1>1. row \in Row /\ row.message = m /\ row.tx = 0 /\ row.error = FALSE
  BY DEF Row
<1>2. finalMessages' = Append(finalMessages, row)
  BY DEF QueueRow
<1> HIDE DEF row
<1>3. /\ finalMessages' \in Seq(Row) /\ Len(finalMessages') = Len(finalMessages) + 1
      /\ \A k \in 1..Len(finalMessages) : finalMessages'[k] = finalMessages[k]
      /\ finalMessages'[Len(finalMessages) + 1] = row
  BY <1>1, <1>2, AppendProperties
<1>4. QED
  BY <1>1, <1>3, LenProperties

LEMMA TransactionIsSent ==
    ASSUME txs \in Seq(Tx), NEW row \in Row, txs' = Append(txs, NewTx(row))
    PROVE  LET n == Len(txs) + 1
           IN  /\ txs' \in Seq(Tx) /\ n \in Nat /\ n # 0
               /\ n \notin DOMAIN txs /\ DOMAIN txs' = DOMAIN txs \cup {n}
               /\ \A t \in DOMAIN txs : txs'[t] = txs[t]
               /\ txs'[n].message = row.message /\ txs'[n].sigs = row.sigs
               /\ txs'[n].status = "pending"
<1> DEFINE tx == NewTx(row)
<1>1. /\ tx \in Tx /\ tx.message = row.message /\ tx.sigs = row.sigs /\ tx.status = "pending"
  BY DEF Row, NewTx, Tx
<1> HIDE DEF tx
<1>2. /\ txs' \in Seq(Tx) /\ Len(txs') = Len(txs) + 1
      /\ \A k \in 1..Len(txs) : txs'[k] = txs[k]
      /\ txs'[Len(txs) + 1] = tx
  <2>1. txs' = Append(txs, tx)
    BY DEF tx
  <2>2. QED
    BY <1>1, <2>1, AppendProperties
<1>3. QED
  BY <1>1, <1>2, LenProperties

LEMMA TransactionIsMined ==
    ASSUME txs \in Seq(Tx), NEW t \in DOMAIN txs, NEW status \in {"ok", "reverted"},
           txs' = [txs EXCEPT ![t].status = status]
    PROVE  /\ txs' \in Seq(Tx) /\ DOMAIN txs' = DOMAIN txs
           /\ \A u \in DOMAIN txs :
                 /\ txs'[u].message = txs[u].message /\ txs'[u].sigs = txs[u].sigs
                 /\ txs'[u].status = IF u = t THEN status ELSE txs[u].status
<1>1. t \in 1..Len(txs) /\ txs[t] \in Tx
  OBVIOUS
<1> DEFINE tx == [txs[t] EXCEPT !.status = status]
<1>2. tx \in Tx
  BY <1>1 DEF Tx
<1>3. txs' = [txs EXCEPT ![t] = tx]
  OBVIOUS
<1>4. tx.message = txs[t].message /\ tx.sigs = txs[t].sigs /\ tx.status = status
  BY <1>1 DEF Tx
<1> HIDE DEF tx
<1>5. /\ txs' \in Seq(Tx) /\ Len(txs') = Len(txs)
      /\ \A k \in 1..Len(txs) : txs'[k] = IF k = t THEN tx ELSE txs[k]
  BY <1>1, <1>2, <1>3, ExceptSeq
<1>6. QED
  BY <1>1, <1>4, <1>5, LenProperties

--------------------------------------------------------------------------------
(* Every step keeps the types, and what the loops know.                          *)
LEMMA RowOfLoop ==
    ASSUME TypeOK, LoopsOK, NEW l \in Loops, Busy(l)
    PROVE  /\ loop[l].row \in DOMAIN finalMessages /\ Current(l) \in Row
           /\ DOMAIN finalMessages = 1..Len(finalMessages) /\ Len(finalMessages) \in Nat
BY LenProperties, ElementOfSeq DEF TypeOK, LoopsOK, Current

(* LoopsOK is kept if the tables keep what they hold and the loop that moves is right.*)
LEMMA OneLoopMoves ==
    ASSUME LoopsOK, NEW l \in Loops,
           DOMAIN finalMessages \subseteq DOMAIN finalMessages',
           \A i \in DOMAIN finalMessages : finalMessages'[i].message = finalMessages[i].message,
           DOMAIN txs \subseteq DOMAIN txs',
           \A t \in DOMAIN txs : txs'[t].message = txs[t].message,
           \A k \in Loops : k # l => loop'[k] = loop[k],
           Busy(l)' => loop'[l].row \in DOMAIN finalMessages',
           HasSent(l)' => loop'[l].tx \in DOMAIN txs' /\ txs'[loop'[l].tx].message = Current(l)'.message
    PROVE  LoopsOK'
<1>1. ASSUME NEW k \in Loops, k # l
      PROVE  /\ Busy(k)' => loop'[k].row \in DOMAIN finalMessages'
             /\ HasSent(k)' => /\ loop'[k].tx \in DOMAIN txs'
                               /\ txs'[loop'[k].tx].message = Current(k)'.message
  <2>1. loop'[k] = loop[k] /\ (HasSent(k) => Busy(k))
    BY <1>1 DEF HasSent, Busy
  <2>2. /\ Busy(k) => loop[k].row \in DOMAIN finalMessages
        /\ HasSent(k) => loop[k].tx \in DOMAIN txs /\ txs[loop[k].tx].message = finalMessages[loop[k].row].message
    BY DEF LoopsOK, Current
  <2>3. QED
    BY <2>1, <2>2 DEF HasSent, Busy, Current
<1>2. QED
  BY <1>1 DEF LoopsOK

LEMMA TypesAreKept ==
    ASSUME TypeOK, LoopsOK, QueueNext
    PROVE  TypeOK' /\ LoopsOK'
<1> USE DEF vars, service, chain, bounded
<1>1. ASSUME NEW m \in Messages, NEW sigs \in Seq(Nat), QueueRow(m, sigs) PROVE TypeOK' /\ LoopsOK'
  <2>1. /\ finalMessages' \in Seq(Row) /\ DOMAIN finalMessages \subseteq DOMAIN finalMessages'
        /\ \A k \in DOMAIN finalMessages : finalMessages'[k] = finalMessages[k]
    BY <1>1, RowIsAdded DEF TypeOK
  <2>2. QED
    BY <1>1, <2>1 DEF TypeOK, LoopsOK, QueueRow, Busy, HasSent, Current
<1>2. ASSUME NEW l \in Loops, Start(l) \/ NoNext(l) \/ Wake(l) \/ Validate(l) PROVE TypeOK' /\ LoopsOK'
  <2>1. PICK pc \in Pcs : GoTo(l, pc) /\ (Busy(l) \/ pc \notin {"validate", "send", "markError"})
                          /\ pc \notin {"wait", "hooks", "setHash", "markSuccess"}
    BY <1>2 DEF Start, NoNext, Wake, Validate, GoTo, NextIteration, Pcs, Busy, At
  <2>2. QED
    BY <1>2, <2>1, LoopGoes DEF TypeOK, LoopsOK, Start, NoNext, Wake, Validate, Busy, HasSent, Current
<1>3. ASSUME NEW l \in Loops, GetNext(l) PROVE TypeOK' /\ LoopsOK'
  <2>1. CASE Unresolved # {}
    <3>1. Min(Unresolved) \in Nat /\ Min(Unresolved) \in DOMAIN finalMessages
      BY <2>1, UnresolvedRow DEF TypeOK
    <3>2. /\ loop' \in [Loops -> Loop] /\ loop'[l].pc = "validate" /\ loop'[l].row = Min(Unresolved)
          /\ \A k \in Loops : k # l => loop'[k] = loop[k]
      BY <1>3, <2>1, <3>1, LoopTakesRow DEF TypeOK, GetNext
    <3>3. LoopsOK'
      BY <1>3, <3>1, <3>2, OneLoopMoves DEF GetNext, HasSent
    <3>4. QED
      BY <1>3, <3>2, <3>3 DEF TypeOK, GetNext
  <2>2. CASE Unresolved = {}
    <3>1. GoTo(l, "noNext") /\ "noNext" \in Pcs
      BY <1>3, <2>2 DEF GetNext, Pcs
    <3>2. QED
      BY <1>3, <3>1, LoopGoes DEF TypeOK, LoopsOK, GetNext, Busy, HasSent, Current
  <2>3. QED
    BY <2>1, <2>2
<1>4. ASSUME NEW l \in Loops, Send(l) PROVE TypeOK' /\ LoopsOK'
  <2>1. Current(l) \in Row
    BY <1>4, RowOfLoop DEF Send, At, Busy
  <2>2. /\ txs' \in Seq(Tx) /\ Len(txs) + 1 \in Nat /\ DOMAIN txs' = DOMAIN txs \cup {Len(txs) + 1}
        /\ \A t \in DOMAIN txs : txs'[t] = txs[t]
        /\ txs'[Len(txs) + 1].message = Current(l).message
    BY <1>4, <2>1, TransactionIsSent DEF TypeOK, Send
  <2>3. /\ loop' \in [Loops -> Loop] /\ loop'[l].row = loop[l].row /\ loop'[l].tx = Len(txs) + 1
        /\ \A k \in Loops : k # l => loop'[k] = loop[k]
    BY <1>4, <2>2, LoopSends DEF TypeOK, Send
  <2>4. LoopsOK'
    <3>1. finalMessages' = finalMessages /\ Current(l)' = Current(l) /\ loop[l].row \in DOMAIN finalMessages
      BY <1>4, <2>3, RowOfLoop DEF Send, Current, At, Busy
    <3>2. QED
      BY <2>2, <2>3, <3>1, OneLoopMoves
  <2>5. QED
    BY <1>4, <2>2, <2>3, <2>4 DEF TypeOK, Send
<1>5. ASSUME NEW l \in Loops, WaitForTransaction(l) \/ RunHooks(l) \/ SetTransactionHash(l)
      PROVE  TypeOK' /\ LoopsOK'
  <2>1. PICK pc \in {"hooks", "setHash", "markSuccess"} : GoTo(l, pc)
    BY <1>5 DEF WaitForTransaction, RunHooks, SetTransactionHash
  <2>2. Busy(l) /\ HasSent(l) /\ pc \in Pcs
    BY <1>5, <2>1 DEF WaitForTransaction, RunHooks, SetTransactionHash, Busy, HasSent, At, Pcs
  <2>3. Current(l).message \in Messages
    BY <2>2, RowOfLoop DEF Row
  <2>4. loop[l].tx \in DOMAIN txs
    BY <2>2 DEF LoopsOK
  <2>5. /\ UNCHANGED <<finalMessages, state, stopLater, txs, wallet, crashes, faults, foreign>>
        /\ transactionHash' \in {transactionHash, transactionHash \cup {Current(l).message}}
        /\ hooked' \in {hooked, hooked \cup {loop[l].tx}}
    BY <1>5 DEF WaitForTransaction, RunHooks, SetTransactionHash
  <2>6. QED
    BY <2>1, <2>2, <2>3, <2>4, <2>5, LoopGoes DEF TypeOK, LoopsOK, Busy, HasSent, Current
<1>6. ASSUME NEW l \in Loops, MarkAsSuccess(l) PROVE TypeOK' /\ LoopsOK'
  <2>1. /\ loop[l].row \in DOMAIN finalMessages /\ loop[l].tx \in Nat
    BY <1>6, RowOfLoop DEF MarkAsSuccess, Busy, At, TypeOK, Loop
  <2>2. /\ finalMessages' \in Seq(Row) /\ DOMAIN finalMessages' = DOMAIN finalMessages
        /\ \A k \in DOMAIN finalMessages : finalMessages'[k].message = finalMessages[k].message
    BY <1>6, <2>1, RowSucceeds DEF TypeOK, MarkAsSuccess
  <2>3. PICK pc \in {"ended", "getNext"} : GoTo(l, pc) /\ pc \in Pcs
    BY <1>6 DEF MarkAsSuccess, NextIteration, Pcs
  <2>4. /\ loop' \in [Loops -> Loop] /\ loop'[l].pc = pc
        /\ \A k \in Loops : k # l => loop'[k] = loop[k]
    BY <2>3, LoopGoes DEF TypeOK
  <2>5. LoopsOK'
    BY <1>6, <2>2, <2>3, <2>4, OneLoopMoves DEF MarkAsSuccess, Busy, HasSent
  <2>6. QED
    BY <1>6, <2>2, <2>4, <2>5 DEF TypeOK, MarkAsSuccess
<1>7. ASSUME NEW l \in Loops, MarkAsError(l) PROVE TypeOK' /\ LoopsOK'
  <2>1. loop[l].row \in DOMAIN finalMessages
    BY <1>7, RowOfLoop DEF MarkAsError, Busy, At
  <2>2. /\ finalMessages' \in Seq(Row) /\ DOMAIN finalMessages' = DOMAIN finalMessages
        /\ \A k \in DOMAIN finalMessages : finalMessages'[k].message = finalMessages[k].message
    BY <1>7, <2>1, RowFails DEF TypeOK, MarkAsError
  <2>3. PICK pc \in {"ended", "getNext"} : GoTo(l, pc) /\ pc \in Pcs
    BY <1>7 DEF MarkAsError, NextIteration, Pcs
  <2>4. /\ loop' \in [Loops -> Loop] /\ loop'[l].pc = pc
        /\ \A k \in Loops : k # l => loop'[k] = loop[k]
    BY <2>3, LoopGoes DEF TypeOK
  <2>5. LoopsOK'
    BY <1>7, <2>2, <2>3, <2>4, OneLoopMoves DEF MarkAsError, Busy, HasSent
  <2>6. QED
    BY <1>7, <2>2, <2>4, <2>5 DEF TypeOK, MarkAsError
<1>8. ASSUME NEW l \in Loops, Throws(l) PROVE TypeOK' /\ LoopsOK'
  <2>1. Busy(l) /\ GoTo(l, "markError") /\ "markError" \in Pcs
    BY <1>8 DEF Throws, Busy, Pcs
  <2>2. Current(l) \in Row /\ Current(l).message \in Messages /\ loop[l].row \in DOMAIN finalMessages
        /\ loop[l].tx \in Nat
    BY <2>1, RowOfLoop DEF Row, TypeOK, Loop
  <2>3. /\ finalMessages' \in Seq(Row) /\ DOMAIN finalMessages' = DOMAIN finalMessages
        /\ \A k \in DOMAIN finalMessages : finalMessages'[k].message = finalMessages[k].message
    BY <1>8, <2>2, RowSucceeds DEF TypeOK, Throws
  <2>4. /\ txs' \in Seq(Tx) /\ DOMAIN txs \subseteq DOMAIN txs'
        /\ \A t \in DOMAIN txs : txs'[t] = txs[t]
    BY <1>8, <2>2, TransactionIsSent DEF TypeOK, Throws
  <2>5. /\ UNCHANGED <<state, stopLater, hooked, wallet, crashes, foreign>>
        /\ transactionHash' \in {transactionHash, transactionHash \cup {Current(l).message}}
        /\ faults' \in 0..MaxFaults
    BY <1>8, LimitsAssumption DEF Throws, TypeOK
  <2>6. /\ loop' \in [Loops -> Loop] /\ loop'[l].pc = "markError" /\ loop'[l].row = loop[l].row
        /\ \A k \in Loops : k # l => loop'[k] = loop[k]
    BY <2>1, LoopGoes DEF TypeOK
  <2>7. LoopsOK'
    BY <2>2, <2>3, <2>4, <2>6, OneLoopMoves DEF HasSent
  <2>8. hooked' \subseteq DOMAIN txs'
    BY <2>4, <2>5 DEF TypeOK
  <2>9. QED
    BY <2>2, <2>3, <2>4, <2>5, <2>6, <2>7, <2>8 DEF TypeOK
<1>9. ASSUME Stop \/ StopLater \/ StopLaterReturns PROVE TypeOK' /\ LoopsOK'
  BY <1>9 DEF Stop, StopLater, StopLaterReturns, TypeOK, LoopsOK, Busy, HasSent, Current
<1>10. ASSUME Crash PROVE TypeOK' /\ LoopsOK'
  <2>1. crashes' \in 0..MaxCrashes /\ loop' \in [Loops -> Loop] /\ \A l \in Loops : loop'[l].pc = "none"
    BY <1>10, LimitsAssumption DEF Crash, TypeOK, Loop, Idle, Pcs
  <2>2. QED
    BY <1>10, <2>1 DEF Crash, TypeOK, LoopsOK, Busy, HasSent
<1>11. ASSUME Mine PROVE TypeOK' /\ LoopsOK'
  <2>1. PICK t \in DOMAIN txs, status \in {"ok", "reverted"} :
          /\ txs' = [txs EXCEPT ![t].status = status]
          /\ wallet' \in Executions(wallet, CallOf[txs[t].message]) \cup {wallet}
    BY <1>11 DEF Mine
  <2>2. txs[t].message \in Messages
    <3>1. txs \in Seq(Tx) /\ t \in 1..Len(txs)
      BY LenProperties DEF TypeOK
    <3>2. txs[t] \in Tx
      BY <3>1, ElementOfSeq
    <3>3. QED
      BY <3>2 DEF Tx
  <2>3. wallet' \in Storage
    BY <2>1, <2>2, MessagesAssumption, ExecutionsAreSound DEF TypeOK
  <2>4. /\ txs' \in Seq(Tx) /\ DOMAIN txs' = DOMAIN txs
        /\ \A u \in DOMAIN txs : txs'[u].message = txs[u].message
    BY <2>1, TransactionIsMined DEF TypeOK
  <2>5. UNCHANGED <<finalMessages, transactionHash, service, hooked, bounded>>
    BY <1>11 DEF Mine
  <2>6. QED
    BY <2>3, <2>4, <2>5 DEF TypeOK, LoopsOK, Busy, HasSent, Current
<1>12. ASSUME ForeignExecution PROVE TypeOK' /\ LoopsOK'
  <2>1. wallet' \in Storage /\ foreign' \in 0..MaxForeign
    BY <1>12, ExecutionsAreSound, LimitsAssumption DEF ForeignExecution, TypeOK
  <2>2. QED
    BY <1>12, <2>1 DEF ForeignExecution, TypeOK, LoopsOK, Busy, HasSent, Current
<1>13. QED
  BY <1>1, <1>2, <1>3, <1>4, <1>5, <1>6, <1>7, <1>8, <1>9, <1>10, <1>11, <1>12
     DEF QueueNext, Step

--------------------------------------------------------------------------------
(* How a step changes the rows: those there are keep their messages, a resolved  *)
(* one stays resolved, and only that of a loop changes, which leaves it then     *)
(* unless a call has failed.  A new one is open, the last, and of a message that *)
(* is new.                                                                       *)
RowsEvolve ==
    /\ DOMAIN finalMessages \subseteq DOMAIN finalMessages'
    /\ \A i \in DOMAIN finalMessages :
          LET row == finalMessages[i]
              new == finalMessages'[i]
          IN  /\ new.message = row.message /\ new.sigs = row.sigs
              /\ Resolved(row) => Resolved(new)
              /\ row.error => new.error
              /\ row.tx # 0 => new.tx # 0
              /\ \/ new = row
                 \/ \E l \in Loops : /\ Busy(l) /\ loop[l].row = i
                                     /\ Busy(l)' => faults' # 0 /\ loop'[l].pc = "markError"
                                     /\ new.tx = row.tx \/ At(l, "markSuccess")
    /\ \A i \in DOMAIN finalMessages' : i \in DOMAIN finalMessages \/
          /\ \A k \in DOMAIN finalMessages : k < i
          /\ \A k \in DOMAIN finalMessages' : k # i => k \in DOMAIN finalMessages
          /\ ~Resolved(finalMessages'[i])
          /\ finalMessages'[i].message \notin Queued

LEMMA EveryStepEvolvesRows ==
    ASSUME TypeOK, LoopsOK, QueueNext
    PROVE  RowsEvolve
<1>1. ASSUME UNCHANGED finalMessages PROVE RowsEvolve
  BY <1>1 DEF RowsEvolve
<1>2. ASSUME NEW m \in Messages, NEW sigs \in Seq(Nat), QueueRow(m, sigs) PROVE RowsEvolve
  <2>1. finalMessages \in Seq(Row) /\ m \notin Queued
    BY <1>2 DEF TypeOK, QueueRow
  <2>2. QED
    BY <1>2, <2>1, RowIsAdded DEF RowsEvolve, Resolved
<1>3. ASSUME NEW l \in Loops, At(l, "markSuccess"), Busy(l), HasSent(l),
             Busy(l)' => faults' # 0 /\ loop'[l].pc = "markError",
             finalMessages' = [finalMessages EXCEPT ![loop[l].row].tx = loop[l].tx]
      PROVE  RowsEvolve
  <2>1. finalMessages \in Seq(Row) /\ loop[l].row \in DOMAIN finalMessages
    BY <1>3, RowOfLoop DEF TypeOK
  <2>2. loop[l].tx \in Nat /\ loop[l].tx # 0
    BY <1>3, LenProperties DEF LoopsOK, TypeOK
  <2>3. QED
    BY <1>3, <2>1, <2>2, RowSucceeds DEF RowsEvolve, Resolved
<1>4. ASSUME NEW l \in Loops, NextIteration(l) PROVE ~Busy(l)'
  BY <1>4, LoopGoes DEF NextIteration, TypeOK, Busy, Pcs
<1>5. ASSUME NEW l \in Loops, MarkAsError(l) PROVE RowsEvolve
  <2>1. finalMessages \in Seq(Row) /\ loop[l].row \in DOMAIN finalMessages /\ Busy(l)
    BY <1>5, RowOfLoop DEF TypeOK, MarkAsError, At, Busy
  <2>2. ~Busy(l)'
    BY <1>4, <1>5 DEF MarkAsError
  <2>3. QED
    BY <1>5, <2>1, <2>2, RowFails DEF RowsEvolve, Resolved, MarkAsError
<1>6. ASSUME NEW l \in Loops, MarkAsSuccess(l) PROVE RowsEvolve
  BY <1>3, <1>4, <1>6 DEF MarkAsSuccess, Busy, HasSent, At
<1>7. ASSUME NEW l \in Loops, Throws(l) PROVE RowsEvolve
  <2>1. faults' # 0 /\ loop'[l].pc = "markError"
    BY <1>7, LoopGoes DEF Throws, TypeOK, Pcs
  <2>2. QED
    BY <1>1, <1>3, <1>7, <2>1 DEF Throws, Busy, HasSent, At
<1>8. QED
  BY <1>1, <1>2, <1>5, <1>6, <1>7
     DEF QueueNext, Step, Start, GetNext, NoNext, Wake, Validate, Send, WaitForTransaction, RunHooks,
         SetTransactionHash, Stop, StopLater, StopLaterReturns, Crash, Mine, ForeignExecution

(* How a step changes the loops: one has a row because it had it, or because it  *)
(* has just taken the oldest open one.                                           *)
LoopsEvolve ==
    \A l \in Loops : Busy(l)' =>
        /\ Busy(l) => loop'[l].row = loop[l].row
        /\ ~Busy(l) => /\ Unresolved # {} /\ loop'[l].row = Min(Unresolved)
                       /\ loop'[l].pc = "validate" /\ finalMessages' = finalMessages

LEMMA EveryStepEvolvesLoops ==
    ASSUME TypeOK, LoopsOK, QueueNext
    PROVE  LoopsEvolve
<1> USE DEF LoopsEvolve, Busy
<1>1. ASSUME UNCHANGED loop PROVE LoopsEvolve
  BY <1>1
<1>2. ASSUME NEW l \in Loops, NEW pc \in Pcs, GoTo(l, pc),
             Busy(l) \/ pc \in {"getNext", "noNext", "sleep", "ended"}
      PROVE  LoopsEvolve
  <2>1. loop \in [Loops -> Loop]
    BY DEF TypeOK
  <2>2. QED
    BY <1>2, <2>1, LoopGoes
<1>3. ASSUME NEW l \in Loops, GetNext(l) PROVE LoopsEvolve
  <2>1. CASE Unresolved # {}
    <3>1. loop \in [Loops -> Loop] /\ Min(Unresolved) \in Nat
      BY <2>1, UnresolvedRow DEF TypeOK
    <3>2. /\ loop'[l].pc = "validate" /\ loop'[l].row = Min(Unresolved) /\ finalMessages' = finalMessages
          /\ \A k \in Loops : k # l => loop'[k] = loop[k]
      BY <1>3, <2>1, <3>1, LoopTakesRow DEF GetNext
    <3>3. QED
      BY <1>3, <2>1, <3>2 DEF GetNext, At
  <2>2. CASE Unresolved = {}
    BY <1>2, <1>3, <2>2 DEF GetNext, Pcs
  <2>3. QED
    BY <2>1, <2>2
<1>4. ASSUME NEW l \in Loops, Send(l) PROVE LoopsEvolve
  <2>1. loop \in [Loops -> Loop] /\ Len(txs) + 1 \in Nat
    BY LenProperties DEF TypeOK
  <2>2. /\ loop'[l].row = loop[l].row /\ \A k \in Loops : k # l => loop'[k] = loop[k]
    BY <1>4, <2>1, LoopSends DEF Send
  <2>3. QED
    BY <1>4, <2>2 DEF Send, At
<1>5. ASSUME NEW l \in Loops, \/ Start(l) \/ NoNext(l) \/ Wake(l) \/ Validate(l) \/ WaitForTransaction(l)
                              \/ RunHooks(l) \/ SetTransactionHash(l) \/ MarkAsSuccess(l)
                              \/ MarkAsError(l) \/ Throws(l)
      PROVE  LoopsEvolve
  <2>1. PICK pc \in Pcs : GoTo(l, pc) /\ (Busy(l) \/ pc \in {"getNext", "noNext", "sleep", "ended"})
    BY <1>5 DEF Start, NoNext, Wake, Validate, WaitForTransaction, RunHooks, SetTransactionHash,
                MarkAsSuccess, MarkAsError, Throws, NextIteration, GoTo, Pcs, At
  <2>2. QED
    BY <1>2, <2>1
<1>6. ASSUME Crash PROVE LoopsEvolve
  BY <1>6 DEF Crash, Idle
<1>7. QED
  BY <1>1, <1>3, <1>4, <1>5, <1>6
     DEF QueueNext, Step, QueueRow, service, Stop, StopLater, StopLaterReturns, Mine, ForeignExecution

(* Hence no loop overtakes, and no message is queued twice.                      *)
LEMMA OrderIsKept ==
    ASSUME TypeOK, TypeOK', LoopsOK, RowsDistinct, NoneOvertaken, ResolvedInOrder, RowsEvolve, LoopsEvolve
    PROVE  RowsDistinct' /\ NoneOvertaken' /\ ResolvedInOrder'
<1>0. finalMessages \in Seq(Row) /\ DOMAIN finalMessages = 1..Len(finalMessages)
      /\ Len(finalMessages) \in Nat
  BY LenProperties DEF TypeOK
<1>1. RowsDistinct'
  BY DEF RowsDistinct, RowsEvolve, Queued
<1>2. NoneOvertaken'
  <2> SUFFICES ASSUME NEW l \in Loops, Busy(l)', NEW i \in 1..(loop'[l].row - 1)
               PROVE  Resolved(finalMessages'[i])
    BY DEF NoneOvertaken
  <2>1. CASE Busy(l)
    <3>1. loop'[l].row = loop[l].row /\ loop[l].row \in DOMAIN finalMessages
      BY <2>1 DEF LoopsEvolve, LoopsOK
    <3>2. Resolved(finalMessages[i]) /\ i \in DOMAIN finalMessages
      BY <1>0, <2>1, <3>1 DEF NoneOvertaken
    <3>3. QED
      BY <3>2 DEF RowsEvolve
  <2>2. CASE ~Busy(l)
    BY <1>0, <2>2, UnresolvedRow DEF LoopsEvolve
  <2>3. QED
    BY <2>1, <2>2
<1>3. ResolvedInOrder'
  <2> SUFFICES ASSUME NEW i \in DOMAIN finalMessages', NEW j \in DOMAIN finalMessages',
                      i < j, Resolved(finalMessages'[j])
               PROVE  Resolved(finalMessages'[i])
    BY DEF ResolvedInOrder
  <2>1. j \in DOMAIN finalMessages
    BY DEF RowsEvolve
  <2>2. i \in DOMAIN finalMessages
    <3>1. i \in Nat /\ j \in Nat
      BY LenProperties DEF TypeOK
    <3>2. QED
      BY <2>1, <3>1 DEF RowsEvolve
  <2>3. Resolved(finalMessages[i])
    <3>1. CASE Resolved(finalMessages[j])
      BY <2>1, <2>2, <3>1 DEF ResolvedInOrder
    <3>2. CASE \E l \in Loops : Busy(l) /\ loop[l].row = j
      BY <1>0, <2>1, <2>2, <3>2 DEF NoneOvertaken
    <3>3. QED
      BY <2>1, <3>1, <3>2 DEF RowsEvolve
  <2>4. QED
    BY <2>2, <2>3 DEF RowsEvolve
<1>4. QED
  BY <1>1, <1>2, <1>3

--------------------------------------------------------------------------------
(* A loop moves by its own steps only, and by which one shows where it arrives.  *)
LEMMA OthersRest ==
    ASSUME TypeOK, NEW k \in Loops, NEW l \in Loops, Start(k) \/ Step(k) \/ Throws(k), k # l
    PROVE  loop'[l] = loop[l]
<1>0. loop \in [Loops -> Loop]
  BY DEF TypeOK
<1>1. ASSUME NEW pc \in Pcs, GoTo(k, pc) PROVE loop'[l] = loop[l]
  BY <1>0, <1>1, LoopGoes
<1>2. CASE GetNext(k)
  BY <1>0, <1>2 DEF GetNext, GoTo
<1>3. CASE Send(k)
  BY <1>0, <1>3 DEF Send
<1>4. CASE \/ Start(k) \/ NoNext(k) \/ Wake(k) \/ Validate(k) \/ WaitForTransaction(k) \/ RunHooks(k)
           \/ SetTransactionHash(k) \/ MarkAsSuccess(k) \/ MarkAsError(k) \/ Throws(k)
  <2>1. \E pc \in Pcs : GoTo(k, pc)
    BY <1>4 DEF Start, NoNext, Wake, Validate, WaitForTransaction, RunHooks, SetTransactionHash,
                MarkAsSuccess, MarkAsError, Throws, NextIteration, GoTo, Pcs
  <2>2. QED
    BY <1>1, <2>1
<1>5. QED
  BY <1>2, <1>3, <1>4 DEF Step

LEMMA OwnSteps ==
    ASSUME TypeOK, QueueNext, NEW l \in Loops
    PROVE  loop'[l] = loop[l] \/ Start(l) \/ Step(l) \/ Throws(l) \/ Crash
BY OthersRest DEF QueueNext, QueueRow, service, Stop, StopLater, StopLaterReturns, Mine, ForeignExecution

LEMMA Arrivals ==
    ASSUME TypeOK, NEW l \in Loops, Start(l) \/ Step(l) \/ Throws(l)
    PROVE  LET pc == loop'[l].pc
           IN  /\ pc # "none"
               /\ pc = "send" => Validate(l)
               /\ pc = "wait" => Send(l)
               /\ pc = "hooks" => WaitForTransaction(l)
               /\ pc = "setHash" => RunHooks(l)
               /\ pc = "markSuccess" => SetTransactionHash(l)
               /\ pc = "markError" => Validate(l) \/ Throws(l)
<1>0. loop \in [Loops -> Loop]
  BY DEF TypeOK
<1>1. \A pc \in Pcs : GoTo(l, pc) => loop'[l].pc = pc
  BY <1>0, LoopGoes
<1>2. CASE Start(l) \/ NoNext(l) \/ Wake(l) \/ MarkAsSuccess(l) \/ MarkAsError(l) \/ Throws(l)
  BY <1>1, <1>2 DEF Start, NoNext, Wake, MarkAsSuccess, MarkAsError, Throws, NextIteration, GoTo, Pcs
<1>3. CASE GetNext(l)
  <2>1. Unresolved # {} => Min(Unresolved) \in Nat
    BY UnresolvedRow DEF TypeOK
  <2>2. loop'[l].pc = "validate" \/ GoTo(l, "noNext")
    BY <1>0, <1>3, <2>1, LoopTakesRow DEF GetNext
  <2>3. QED
    BY <1>1, <2>2 DEF Pcs
<1>4. CASE Validate(l)
  BY <1>1, <1>4 DEF Validate, Pcs
<1>5. CASE Send(l)
  BY <1>0, <1>5 DEF Send
<1>6. CASE WaitForTransaction(l) \/ RunHooks(l) \/ SetTransactionHash(l)
  BY <1>1, <1>6 DEF WaitForTransaction, RunHooks, SetTransactionHash, Pcs
<1>7. QED
  BY <1>2, <1>3, <1>4, <1>5, <1>6 DEF Step

(* A success is recorded after the hash.                                         *)
LEMMA HashesAreKept ==
    ASSUME TypeOK, LoopsOK, HashComesFirst, SuccessHasHash, QueueNext
    PROVE  HashComesFirst' /\ SuccessHasHash'
<1>0. transactionHash \subseteq transactionHash'
  BY DEF QueueNext, QueueRow, Start, Step, GetNext, NoNext, Wake, Validate, Send, WaitForTransaction,
         RunHooks, SetTransactionHash, MarkAsSuccess, MarkAsError, Throws, Stop, StopLater,
         StopLaterReturns, Crash, Mine, ForeignExecution
<1>1. ASSUME NEW l \in Loops, At(l, "markSuccess")' PROVE Current(l)'.message \in transactionHash'
  <2>1. RowsEvolve /\ LoopsEvolve
    BY EveryStepEvolvesRows, EveryStepEvolvesLoops
  <2>2. /\ Busy(l) /\ loop'[l].row = loop[l].row /\ loop[l].row \in DOMAIN finalMessages
        /\ Current(l)'.message = Current(l).message
    BY <1>1, <2>1 DEF LoopsEvolve, RowsEvolve, LoopsOK, Busy, At, Current
  <2>3. CASE At(l, "markSuccess")
    BY <1>0, <2>2, <2>3 DEF HashComesFirst
  <2>4. CASE ~At(l, "markSuccess")
    <3>1. SetTransactionHash(l)
      BY <1>1, <2>2, <2>4, OwnSteps, Arrivals DEF At, Crash, Idle
    <3>2. QED
      BY <2>2, <3>1 DEF SetTransactionHash
  <2>5. QED
    BY <2>3, <2>4
<1>2. ASSUME NEW i \in DOMAIN finalMessages', finalMessages'[i].tx # 0
      PROVE  finalMessages'[i].message \in transactionHash'
  <2>1. ASSUME UNCHANGED finalMessages PROVE finalMessages'[i].message \in transactionHash'
    BY <1>0, <1>2, <2>1 DEF SuccessHasHash
  <2>2. ASSUME NEW m \in Messages, NEW sigs \in Seq(Nat), QueueRow(m, sigs)
        PROVE  finalMessages'[i].message \in transactionHash'
    <3>1. i \in DOMAIN finalMessages /\ finalMessages'[i] = finalMessages[i]
      BY <1>2, <2>2, RowIsAdded DEF TypeOK
    <3>2. QED
      BY <1>0, <1>2, <3>1 DEF SuccessHasHash
  <2>3. ASSUME NEW l \in Loops, At(l, "markSuccess"), loop[l].row \in DOMAIN finalMessages,
               finalMessages' = [finalMessages EXCEPT ![loop[l].row].tx = loop[l].tx]
        PROVE  finalMessages'[i].message \in transactionHash'
    <3>1. finalMessages \in Seq(Row) /\ loop[l].tx \in Nat
      BY DEF TypeOK, Loop
    <3>2. /\ i \in DOMAIN finalMessages /\ finalMessages'[i].message = finalMessages[i].message
          /\ i # loop[l].row => finalMessages'[i] = finalMessages[i]
      BY <1>2, <2>3, <3>1, RowSucceeds
    <3>3. finalMessages[i].message \in transactionHash
      BY <1>2, <2>3, <3>2 DEF SuccessHasHash, HashComesFirst, Current
    <3>4. QED
      BY <1>0, <3>2, <3>3
  <2>4. ASSUME NEW l \in Loops, MarkAsError(l)
        PROVE  finalMessages'[i].message \in transactionHash'
    <3>1. finalMessages \in Seq(Row) /\ loop[l].row \in DOMAIN finalMessages
      BY <2>4, RowOfLoop DEF TypeOK, MarkAsError, At, Busy
    <3>2. /\ i \in DOMAIN finalMessages /\ finalMessages'[i].message = finalMessages[i].message
          /\ finalMessages'[i].tx = finalMessages[i].tx
      BY <2>4, <1>2, <3>1, RowFails DEF MarkAsError
    <3>3. QED
      BY <1>0, <1>2, <3>2 DEF SuccessHasHash
  <2>5. ASSUME NEW l \in Loops, MarkAsSuccess(l) \/ Throws(l)
        PROVE  finalMessages'[i].message \in transactionHash'
    <3>1. Busy(l) => loop[l].row \in DOMAIN finalMessages
      BY RowOfLoop
    <3>2. QED
      BY <2>1, <2>3, <2>5, <3>1 DEF MarkAsSuccess, Throws, At, Busy
  <2>6. QED
    BY <2>1, <2>2, <2>4, <2>5
       DEF QueueNext, Step, Start, GetNext, NoNext, Wake, Validate, Send, WaitForTransaction, RunHooks,
           SetTransactionHash, Stop, StopLater, StopLaterReturns, Crash, Mine, ForeignExecution
<1>3. QED
  BY <1>1, <1>2 DEF HashComesFirst, SuccessHasHash

--------------------------------------------------------------------------------
(* How a step changes the transactions and the wallet: nothing, one more is sent,*)
(* one is mined, or somebody else uses the wallet.                               *)
Sends(l) ==
    /\ At(l, "send") /\ txs' = Append(txs, NewTx(Current(l)))
    /\ UNCHANGED <<finalMessages, wallet, foreign>>
MinedAs(t, status) ==
    /\ txs[t].status = "pending" /\ txs' = [txs EXCEPT ![t].status = status]
    /\ UNCHANGED <<finalMessages, loop, bounded>>
    /\ \/ /\ status = "ok" /\ Fits(txs[t].message, txs[t].sigs)
          /\ wallet' \in Executions(wallet, CallOf[txs[t].message])
       \/ /\ status = "reverted" /\ UNCHANGED wallet
          /\ ~Fits(txs[t].message, txs[t].sigs) \/ foreign > 0

LEMMA TransactionsEvolve ==
    ASSUME TypeOK, QueueNext
    PROVE  \/ UNCHANGED <<txs, wallet, foreign>>
           \/ \E l \in Loops : Sends(l) /\ (Send(l) \/ faults' # 0)
           \/ \E t \in DOMAIN txs, status \in {"ok", "reverted"} : MinedAs(t, status)
           \/ ForeignExecution
<1>1. ASSUME Mine PROVE \E t \in DOMAIN txs, status \in {"ok", "reverted"} : MinedAs(t, status)
  BY <1>1 DEF Mine, MinedAs, Fits, service, bounded
<1>2. ASSUME NEW l \in Loops, Throws(l)
      PROVE  UNCHANGED <<txs, wallet, foreign>> \/ (Sends(l) /\ faults' # 0)
  BY <1>2 DEF Throws, Sends, TypeOK
<1>3. QED
  BY <1>1, <1>2
     DEF QueueNext, Step, QueueRow, Start, GetNext, NoNext, Wake, Validate, Send, Sends, WaitForTransaction,
         RunHooks, SetTransactionHash, MarkAsSuccess, MarkAsError, Stop, StopLater, StopLaterReturns,
         Crash, chain, bounded

(* A transaction keeps its message; only the one that is mined becomes ok, and it*)
(* takes the current nonce of the wallet.                                        *)
LEMMA MinedTakesTheNonce ==
    ASSUME TypeOK, NEW t \in DOMAIN txs, MinedAs(t, "ok")
    PROVE  NonceOfTx(t) = wallet.lastNonce /\ wallet'.lastNonce = wallet.lastNonce + 1
<1>1. txs[t].message \in Messages
  <2>1. txs \in Seq(Tx) /\ t \in 1..Len(txs)
    BY LenProperties DEF TypeOK
  <2>2. txs[t] \in Tx
    BY <2>1, ElementOfSeq
  <2>3. QED
    BY <2>2 DEF Tx
<1>2. wallet' \in Executions(wallet, CallOf[txs[t].message]) /\ Fits(txs[t].message, txs[t].sigs)
  BY DEF MinedAs
<1>3. QED
  BY <1>1, <1>2, MessagesAssumption, ExecutionsAreSound DEF TypeOK, Fits, ExecuteSignedAllowed, NonceOfTx

LEMMA NoncesAreKept ==
    ASSUME TypeOK, LoopsOK, NoncesSpent, QueueNext
    PROVE  NoncesSpent'
<1>0. txs \in Seq(Tx) /\ wallet.lastNonce \in Nat
  BY DEF TypeOK, Storage
<1>1. \A t \in DOMAIN txs : NonceOfTx(t) \in Nat
  <2>1. \A t \in DOMAIN txs : txs[t] \in Tx
    BY <1>0, LenProperties, ElementOfSeq
  <2>2. QED
    BY <2>1, MessagesAssumption DEF Tx, NonceOfTx
<1>2. CASE UNCHANGED <<txs, wallet, foreign>>
  BY <1>2 DEF NoncesSpent, Ok, NonceOfTx
<1>3. ASSUME NEW l \in Loops, Sends(l) PROVE NoncesSpent'
  <2>1. Current(l) \in Row
    BY <1>3, RowOfLoop DEF Sends, At, Busy
  <2>2. /\ DOMAIN txs' = DOMAIN txs \cup {Len(txs) + 1} /\ txs'[Len(txs) + 1].status = "pending"
        /\ \A t \in DOMAIN txs : txs'[t] = txs[t]
    BY <1>0, <1>3, <2>1, TransactionIsSent DEF Sends
  <2>3. wallet' = wallet
    BY <1>3 DEF Sends
  <2>4. QED
    BY <2>2, <2>3 DEF NoncesSpent, Ok, NonceOfTx
<1>4. ASSUME NEW t \in DOMAIN txs, NEW status \in {"ok", "reverted"}, MinedAs(t, status)
      PROVE  NoncesSpent'
  <2>1. /\ DOMAIN txs' = DOMAIN txs
        /\ \A u \in DOMAIN txs : /\ txs'[u].message = txs[u].message
                                 /\ txs'[u].status = IF u = t THEN status ELSE txs[u].status
    BY <1>0, <1>4, TransactionIsMined DEF MinedAs
  <2>2. CASE status = "ok"
    <3>1. NonceOfTx(t) = wallet.lastNonce /\ wallet'.lastNonce = wallet.lastNonce + 1
      BY <1>4, <2>2, MinedTakesTheNonce
    <3>2. \A u \in DOMAIN txs : (Ok(u)' <=> Ok(u) \/ u = t) /\ NonceOfTx(u)' = NonceOfTx(u)
      BY <2>1, <2>2 DEF Ok, NonceOfTx
    <3>3. \A u \in DOMAIN txs : Ok(u) => NonceOfTx(u) < wallet.lastNonce
      BY DEF NoncesSpent
    <3>4. \A u \in DOMAIN txs' : Ok(u)' => NonceOfTx(u)' < wallet'.lastNonce
      <4> SUFFICES ASSUME NEW u \in DOMAIN txs, Ok(u)' PROVE NonceOfTx(u)' < wallet'.lastNonce
        BY <2>1
      <4>1. NonceOfTx(u)' = NonceOfTx(u) /\ NonceOfTx(u) \in Nat /\ (Ok(u) \/ u = t)
        BY <1>1, <3>2
      <4>2. NonceOfTx(u) <= wallet.lastNonce
        BY <1>0, <3>1, <3>3, <4>1
      <4>3. QED
        BY <1>0, <3>1, <4>1, <4>2
    <3>5. \A u \in DOMAIN txs : Ok(u) => NonceOfTx(u) # NonceOfTx(t)
      BY <1>0, <1>1, <3>1, <3>3
    <3>6. \A u, v \in DOMAIN txs' : Ok(u)' /\ Ok(v)' /\ NonceOfTx(u)' = NonceOfTx(v)' => u = v
      BY <2>1, <3>2, <3>5 DEF NoncesSpent
    <3>7. QED
      BY <3>4, <3>6 DEF NoncesSpent
  <2>3. CASE status = "reverted"
    BY <1>4, <2>1, <2>3 DEF NoncesSpent, Ok, NonceOfTx, MinedAs
  <2>4. QED
    BY <2>2, <2>3
<1>5. CASE ForeignExecution
  <2>1. wallet'.lastNonce = wallet.lastNonce + 1 /\ txs' = txs
    BY <1>5, ExecutionsAreSound DEF ForeignExecution, TypeOK
  <2>2. QED
    BY <1>0, <1>1, <2>1 DEF NoncesSpent, Ok, NonceOfTx
<1>6. QED
  BY <1>2, <1>3, <1>4, <1>5, TransactionsEvolve

(* Failures, foreign executions and crashes are only counted up.                 *)
LEMMA FaultsGrow ==
    ASSUME TypeOK, QueueNext
    PROVE  faults' >= faults /\ foreign' >= foreign /\ crashes' >= crashes
<1>1. faults \in Nat /\ foreign \in Nat /\ crashes \in Nat
  BY DEF TypeOK
<1>2. /\ faults' \in {faults, faults + 1} /\ foreign' \in {foreign, foreign + 1}
      /\ crashes' \in {crashes, crashes + 1}
  BY DEF QueueNext, Step, QueueRow, Start, GetNext, NoNext, Wake, Validate, Send, WaitForTransaction,
         RunHooks, SetTransactionHash, MarkAsSuccess, MarkAsError, Throws, Stop, StopLater,
         StopLaterReturns, Crash, Mine, ForeignExecution, bounded
<1>3. QED
  BY <1>1, <1>2

(* A loop that is alone was alone before, but for a crash.                       *)
LEMMA LoneLoopBefore ==
    ASSUME TypeOK, QueueNext, OneLoop', ~Crash
    PROVE  OneLoop
<1>1. \A k \in Loops : ~At(k, "none") => ~At(k, "none")'
  <2> SUFFICES ASSUME NEW k \in Loops, ~At(k, "none") PROVE loop'[k].pc # "none"
    BY DEF At
  <2>1. CASE loop'[k] = loop[k]
    BY <2>1 DEF At
  <2>2. CASE Start(k) \/ Step(k) \/ Throws(k)
    BY <2>2, Arrivals
  <2>3. QED
    BY <2>1, <2>2, OwnSteps
<1>2. QED
  BY <1>1 DEF OneLoop

(* The row of a lone loop stays open until the loop leaves it.                   *)
LEMMA OpenRowIsKept ==
    ASSUME TypeOK, LoopsOK, RowIsOpen, QueueNext
    PROVE  RowIsOpen'
<1> SUFFICES ASSUME faults' = 0, OneLoop', NEW l \in Loops, Busy(l)'
             PROVE  ~Resolved(Current(l)')
  BY DEF RowIsOpen
<1>0. RowsEvolve /\ LoopsEvolve
  BY EveryStepEvolvesRows, EveryStepEvolvesLoops
<1>1. faults = 0
  BY FaultsGrow DEF TypeOK
<1>2. CASE ~Busy(l)
  <2>1. loop'[l].row = Min(Unresolved) /\ Unresolved # {} /\ finalMessages' = finalMessages
    BY <1>0, <1>2 DEF LoopsEvolve
  <2>2. QED
    BY <2>1, UnresolvedRow DEF TypeOK, Current
<1>3. CASE Busy(l)
  <2>1. OneLoop /\ ~At(l, "none")
    <3>1. ~Crash
      BY DEF Crash, Busy, Idle
    <3>2. QED
      BY <1>3, <3>1, LoneLoopBefore DEF At, Busy
  <2>2. loop'[l].row = loop[l].row /\ loop[l].row \in DOMAIN finalMessages /\ ~Resolved(Current(l))
    BY <1>0, <1>1, <1>3, <2>1 DEF LoopsEvolve, LoopsOK, RowIsOpen
  <2>3. ASSUME Resolved(Current(l)') PROVE FALSE
    <3>1. finalMessages'[loop[l].row] = Current(l)'
      BY <2>2 DEF Current
    <3>2. PICK k \in Loops : Busy(k) /\ (Busy(k)' => faults' # 0)
      BY <1>0, <2>2, <2>3, <3>1 DEF RowsEvolve, Current
    <3>3. k = l
      BY <1>3, <2>1, <3>2 DEF OneLoop, Busy, At
    <3>4. QED
      BY <3>2, <3>3
  <2>4. QED
    BY <2>3
<1>4. QED
  BY <1>2, <1>3

--------------------------------------------------------------------------------
LEMMA QueueInit == Init => QueueInv
<1> SUFFICES ASSUME Init PROVE QueueInv
  OBVIOUS
<1>1. TypeOK
  BY FirstWalletAssumption, LimitsAssumption, EmptySeq DEF Init, TypeOK, Loop, Idle, Pcs
<1>2. \A l \in Loops : ~Busy(l) /\ ~HasSent(l) /\ ~At(l, "markSuccess")
  BY DEF Init, Idle, Busy, HasSent, At
<1>3. QED
  BY <1>1, <1>2 DEF Init, QueueInv, LoopsOK, RowsDistinct, NoneOvertaken, ResolvedInOrder, HashComesFirst,
                    SuccessHasHash, NoncesSpent, RowIsOpen

LEMMA QueueStep ==
    ASSUME QueueInv, [QueueNext]_vars
    PROVE  QueueInv'
<1>1. CASE QueueNext
  <2> USE <1>1 DEF QueueInv
  <2>1. TypeOK' /\ LoopsOK'
    BY TypesAreKept
  <2>2. RowsDistinct' /\ NoneOvertaken' /\ ResolvedInOrder'
    BY <2>1, EveryStepEvolvesRows, EveryStepEvolvesLoops, OrderIsKept
  <2>3. HashComesFirst' /\ SuccessHasHash'
    BY HashesAreKept
  <2>4. NoncesSpent' /\ RowIsOpen'
    BY NoncesAreKept, OpenRowIsKept
  <2>5. QED
    BY <2>1, <2>2, <2>3, <2>4
<1>2. CASE UNCHANGED vars
  BY <1>2 DEF vars, QueueInv, TypeOK, LoopsOK, RowsDistinct, NoneOvertaken, ResolvedInOrder, HashComesFirst,
              SuccessHasHash, NoncesSpent, RowIsOpen, Busy, HasSent, At, Current, Ok, NonceOfTx, OneLoop
<1>3. QED
  BY <1>1, <1>2

(* The invariant of the queue is inductive, whatever is queued                   *)
(* (MessageQueueService.ts:14-63).                                               *)
THEOREM QueueInvariant == Init /\ [][QueueNext]_vars => []QueueInv
BY QueueInit, QueueStep, PTL

LEMMA SpecIsQueueSpec == Spec => Init /\ [][QueueNext]_vars
BY NextIsQueueNext, PTL DEF Spec

(* Every value is of its type (the rows of the two tables, the loops, what was   *)
(* sent: MessageQueueService.ts:14-52).                                          *)
THEOREM QueueTypes == Spec => []TypeOK
<1>1. QueueInv => TypeOK
  BY DEF QueueInv
<1>2. QED
  BY <1>1, QueueInvariant, SpecIsQueueSpec, PTL

(* A success has a transaction hash (MessageQueueService.ts:25-26).              *)
THEOREM SuccessesHaveHashes == Spec => []SuccessHasHash
<1>1. QueueInv => SuccessHasHash
  BY DEF QueueInv
<1>2. QED
  BY <1>1, QueueInvariant, SpecIsQueueSpec, PTL

(* Messages are resolved in the order of the queue, by any number of loops       *)
(* (MessageQueueSQLStore.ts:29-35).                                              *)
THEOREM QueueIsInOrder == Spec => []ResolvedInOrder
<1>1. QueueInv => ResolvedInOrder
  BY DEF QueueInv
<1>2. QED
  BY <1>1, QueueInvariant, SpecIsQueueSpec, PTL

(* Two executions of a message would have spent one nonce twice.                 *)
LEMMA InvImpliesAtMostOnce == QueueInv => AtMostOnce
<1> SUFFICES ASSUME QueueInv, NEW m \in Messages PROVE Cardinality(Executed(m)) <= 1
  BY DEF AtMostOnce
<1>1. \A t, u \in Executed(m) : t = u
  BY DEF QueueInv, NoncesSpent, Executed, Ok, NonceOfTx
<1>2. CASE Executed(m) = {}
  BY <1>2, FS_EmptySet
<1>3. CASE Executed(m) # {}
  <2>1. PICK t : Executed(m) = {t}
    BY <1>1, <1>3
  <2>2. Cardinality({t}) = 1
    BY FS_Singleton
  <2>3. QED
    BY <2>1, <2>2
<1>4. QED
  BY <1>2, <1>3

(* No message is executed twice, however often it is taken up again, by however  *)
(* many loops and after however many crashes (ERC1077.sol:127).                  *)
THEOREM ExecutedAtMostOnce == Spec => []AtMostOnce
BY InvImpliesAtMostOnce, QueueInvariant, SpecIsQueueSpec, PTL

(* While the tables answer and one loop runs, only an open row is recorded or    *)
(* sent.                                                                         *)
LEMMA StepIsFinal ==
    ASSUME QueueInv, QueueNext, faults' = 0, OneLoop'
    PROVE  /\ \A i \in DOMAIN finalMessages :
                 Resolved(finalMessages[i]) => finalMessages'[i] = finalMessages[i]
           /\ Len(txs') > Len(txs) =>
                 \E i \in Unresolved : finalMessages[i].message = txs'[Len(txs')].message
<1> USE DEF QueueInv
<1>1. faults = 0
  BY FaultsGrow DEF TypeOK
<1>2. CASE Crash
  BY <1>2, LenProperties DEF Crash, chain, TypeOK
<1>3. CASE ~Crash
  <2>1. \A l \in Loops : Busy(l) => loop[l].row \in Unresolved
    BY <1>1, <1>3, LoneLoopBefore DEF RowIsOpen, Unresolved, LoopsOK, Current
  <2>2. RowsEvolve
    BY EveryStepEvolvesRows
  <2>3. ASSUME NEW i \in DOMAIN finalMessages, Resolved(finalMessages[i])
        PROVE  finalMessages'[i] = finalMessages[i]
    BY <2>1, <2>2, <2>3 DEF RowsEvolve, Unresolved
  <2>4. ASSUME Len(txs') > Len(txs)
        PROVE  \E i \in Unresolved : finalMessages[i].message = txs'[Len(txs')].message
    <3>0. txs \in Seq(Tx) /\ Len(txs) \in Nat
      BY LenProperties DEF TypeOK
    <3>1. ASSUME NEW l \in Loops, Sends(l)
          PROVE  \E i \in Unresolved : finalMessages[i].message = txs'[Len(txs')].message
      <4>1. Busy(l) /\ Current(l) \in Row
        BY <3>1, RowOfLoop DEF Sends, At, Busy
      <4>2. NewTx(Current(l)) \in Tx /\ NewTx(Current(l)).message = Current(l).message
        BY <4>1 DEF Row, NewTx, Tx
      <4>3. txs'[Len(txs')] = NewTx(Current(l))
        BY <3>0, <3>1, <4>2, AppendProperties DEF Sends
      <4>4. QED
        BY <2>1, <4>1, <4>2, <4>3 DEF Current
    <3>2. ASSUME NEW t \in DOMAIN txs, NEW status \in {"ok", "reverted"}, MinedAs(t, status) PROVE FALSE
      <4>1. txs' \in Seq(Tx) /\ DOMAIN txs' = DOMAIN txs
        BY <3>0, <3>2, TransactionIsMined DEF MinedAs
      <4>2. Len(txs') = Len(txs)
        BY <3>0, <4>1, LenProperties
      <4>3. QED
        BY <2>4, <3>0, <4>2
    <3>3. txs' # txs
      BY <2>4, <3>0
    <3>4. QED
      BY <3>1, <3>2, <3>3, TransactionsEvolve DEF ForeignExecution
  <2>5. QED
    BY <2>3, <2>4
<1>4. QED
  BY <1>2, <1>3

(* An outcome is final while the tables answer and one loop runs                 *)
(* (MessageQueueService.ts:22-30).                                               *)
THEOREM OutcomesAreFinal == Spec => OutcomeIsFinal
<1> DEFINE Final == faults' = 0 /\ OneLoop' =>
              /\ \A i \in DOMAIN finalMessages :
                    Resolved(finalMessages[i]) => finalMessages'[i] = finalMessages[i]
              /\ Len(txs') > Len(txs) =>
                    \E i \in Unresolved : finalMessages[i].message = txs'[Len(txs')].message
<1>1. QueueInv /\ [QueueNext]_vars => [Final]_vars
  BY StepIsFinal
<1>2. [][Final]_vars => OutcomeIsFinal
  BY PTL DEF OutcomeIsFinal
<1>3. QED
  BY <1>1, <1>2, QueueInvariant, SpecIsQueueSpec, PTL

--------------------------------------------------------------------------------
(* The outcomes.  While all is quiet, a step changes a row by recording it, and  *)
(* a loop leaves the part with a transaction by recording it too.                *)
LEMMA QuietBefore == ASSUME TypeOK, QueueNext, Quiet' PROVE Quiet
BY FaultsGrow DEF TypeOK, Quiet, NeverRestarted

LEMMA QuietIsOneLoop == Quiet => OneLoop
BY DEF Quiet, NeverRestarted, OneLoop

LEMMA QuietRows ==
    ASSUME TypeOK, QueueNext, Quiet'
    PROVE  \/ UNCHANGED finalMessages
           \/ \E m \in Messages, sigs \in Seq(Nat) : QueueRow(m, sigs)
           \/ \E l \in Loops : MarkAsSuccess(l) \/ MarkAsError(l)
<1>1. \A l \in Loops : ~Throws(l)
  BY DEF Throws, Quiet, TypeOK
<1>2. QED
  BY <1>1 DEF QueueNext, Step, Start, GetNext, NoNext, Wake, Validate, Send, WaitForTransaction, RunHooks,
              SetTransactionHash, Stop, StopLater, StopLaterReturns, Crash, Mine, ForeignExecution

LEMMA QuietTransactions ==
    ASSUME TypeOK, QueueNext, Quiet'
    PROVE  \/ UNCHANGED <<txs, wallet>>
           \/ \E l \in Loops : Send(l)
           \/ \E t \in DOMAIN txs : MinedAs(t, "ok")
           \/ \E t \in DOMAIN txs : MinedAs(t, "reverted") /\ ~Fits(txs[t].message, txs[t].sigs)
<1>1. faults' = 0 /\ foreign = 0
  BY QuietBefore DEF Quiet
<1>2. ~ForeignExecution
  BY DEF ForeignExecution, Quiet, TypeOK
<1>3. QED
  BY <1>1, <1>2, TransactionsEvolve DEF MinedAs

(* What a sent transaction is, and what is mined.                                *)
LEMMA QuietSend ==
    ASSUME TypeOK, LoopsOK, NEW l \in Loops, Send(l)
    PROVE  LET n == Len(txs) + 1
           IN  /\ At(l, "send") /\ Busy(l) /\ loop[l].row \in DOMAIN finalMessages
               /\ n \notin DOMAIN txs /\ DOMAIN txs' = DOMAIN txs \cup {n}
               /\ \A t \in DOMAIN txs : txs'[t] = txs[t]
               /\ txs'[n].message = Current(l).message /\ txs'[n].sigs = Current(l).sigs
               /\ txs'[n].status = "pending"
               /\ loop'[l].pc = "wait" /\ loop'[l].tx = n /\ loop'[l].row = loop[l].row
               /\ UNCHANGED <<finalMessages, wallet>>
<1>1. /\ At(l, "send") /\ Busy(l) /\ loop[l].row \in DOMAIN finalMessages /\ Current(l) \in Row
  BY RowOfLoop DEF Send, At, Busy
<1>2. /\ txs \in Seq(Tx) /\ loop \in [Loops -> Loop] /\ Len(txs) + 1 \in Nat
  BY LenProperties DEF TypeOK
<1>3. loop'[l].pc = "wait" /\ loop'[l].tx = Len(txs) + 1 /\ loop'[l].row = loop[l].row
  BY <1>2, LoopSends DEF Send
<1>4. QED
  BY <1>1, <1>2, <1>3, TransactionIsSent DEF Send

LEMMA MinedEntries ==
    ASSUME TypeOK, NEW t \in DOMAIN txs, NEW status \in {"ok", "reverted"}, MinedAs(t, status)
    PROVE  /\ DOMAIN txs' = DOMAIN txs /\ txs[t].status = "pending"
           /\ \A u \in DOMAIN txs :
                 /\ txs'[u].message = txs[u].message /\ txs'[u].sigs = txs[u].sigs
                 /\ txs'[u].status = IF u = t THEN status ELSE txs[u].status
           /\ UNCHANGED <<finalMessages, loop, crashes>>
BY TransactionIsMined DEF TypeOK, MinedAs, bounded

(* What has been taken stays taken, what fits does until its nonce is taken, and *)
(* those that have failed have failed.                                           *)
LEMMA TakenIsKept ==
    ASSUME TypeOK, LoopsOK, QueueNext, Quiet'
    PROVE  /\ DOMAIN txs \subseteq DOMAIN txs'
           /\ \A t \in DOMAIN txs : /\ txs'[t].message = txs[t].message /\ txs'[t].sigs = txs[t].sigs
                                    /\ Ok(t) => Ok(t)'
           /\ \A m \in Messages : NonceTaken(m) => NonceTaken(m)'
           /\ \A m \in Messages : \A sigs : Fits(m, sigs) => NonceTaken(m)' \/ Fits(m, sigs)'
<1>1. /\ DOMAIN txs \subseteq DOMAIN txs'
      /\ \A t \in DOMAIN txs : /\ txs'[t].message = txs[t].message /\ txs'[t].sigs = txs[t].sigs
                               /\ Ok(t) => Ok(t)'
  <2>1. ASSUME NEW l \in Loops, Send(l)
        PROVE  /\ DOMAIN txs \subseteq DOMAIN txs'
               /\ \A t \in DOMAIN txs : txs'[t] = txs[t]
    BY <2>1, QuietSend
  <2>2. ASSUME NEW u \in DOMAIN txs, NEW status \in {"ok", "reverted"}, MinedAs(u, status)
        PROVE  /\ DOMAIN txs \subseteq DOMAIN txs'
               /\ \A t \in DOMAIN txs : /\ txs'[t].message = txs[t].message /\ txs'[t].sigs = txs[t].sigs
                                        /\ Ok(t) => Ok(t)'
    BY <2>2, MinedEntries DEF Ok
  <2>3. QED
    BY <2>1, <2>2, QuietTransactions DEF Ok
<1>2. \A m \in Messages : NonceTaken(m) => NonceTaken(m)'
  BY <1>1 DEF NonceTaken, NonceOfTx
<1>3. ASSUME NEW m \in Messages, NEW sigs, Fits(m, sigs) PROVE NonceTaken(m)' \/ Fits(m, sigs)'
  <2>1. CASE UNCHANGED wallet
    BY <1>3, <2>1 DEF Fits
  <2>2. ASSUME NEW t \in DOMAIN txs, MinedAs(t, "ok") PROVE NonceTaken(m)'
    <3>1. NonceOfTx(t) = NonceOf[m]
      BY <1>3, <2>2, MinedTakesTheNonce DEF Fits, ExecuteSignedAllowed
    <3>2. t \in DOMAIN txs' /\ Ok(t)' /\ NonceOfTx(t)' = NonceOfTx(t)
      BY <2>2, MinedEntries DEF Ok, NonceOfTx
    <3>3. QED
      BY <3>1, <3>2 DEF NonceTaken
  <2>3. QED
    BY <2>1, <2>2, QuietTransactions DEF Send, MinedAs
<1>4. QED
  BY <1>1, <1>2, <1>3

LEMMA FailedStaysFailed ==
    ASSUME QueueInv, QueueNext, Quiet', NEW i \in DOMAIN finalMessages, RivalsFailed(i)
    PROVE  RivalsFailed(i)'
<1>1. \A k \in DOMAIN finalMessages : Resolved(finalMessages[k]) => finalMessages'[k] = finalMessages[k]
  <2>1. faults' = 0 /\ OneLoop'
    BY DEF Quiet, NeverRestarted, OneLoop
  <2>2. QED
    BY <2>1, StepIsFinal
<1>2. \A k \in 1..(i - 1) : k \in DOMAIN finalMessages
  BY LenProperties DEF QueueInv, TypeOK
<1>3. RowsEvolve
  BY EveryStepEvolvesRows DEF QueueInv
<1>4. QED
  BY <1>1, <1>2, <1>3 DEF RivalsFailed, Resolved, RowsEvolve

(* Those with an open row keep it.                                               *)
LEMMA QuietLoops ==
    ASSUME QueueInv, QueueNext, Quiet', NEW l \in Loops, loop'[l] = loop[l], Busy(l)
    PROVE  /\ Current(l)'.message = Current(l).message /\ Current(l)'.sigs = Current(l).sigs
           /\ Current(l).message \in Messages /\ loop[l].row \in DOMAIN finalMessages
<1>1. loop[l].row \in DOMAIN finalMessages /\ Current(l) \in Row
  BY RowOfLoop DEF QueueInv
<1>2. RowsEvolve
  BY EveryStepEvolvesRows DEF QueueInv
<1>3. QED
  BY <1>1, <1>2 DEF RowsEvolve, Current, Row

LEMMA SoundnessIsKept ==
    ASSUME QueueInv, SentIsSound, QueueNext, Quiet'
    PROVE  SentIsSound'
<1> USE DEF QueueInv
<1>0. \A t \in DOMAIN txs : txs[t].message \in Messages
  <2>1. txs \in Seq(Tx) /\ DOMAIN txs = 1..Len(txs)
    BY LenProperties DEF TypeOK
  <2>2. \A t \in DOMAIN txs : txs[t] \in Tx
    BY <2>1, ElementOfSeq
  <2>3. QED
    BY <2>1, <2>2 DEF Tx
<1>1. ASSUME NEW t \in DOMAIN txs'
      PROVE  \/ NonceTaken(txs[t].message)'
             \/ (txs[t].status = "pending")' /\ Fits(txs[t].message, txs[t].sigs)'
  <2>1. CASE t \in DOMAIN txs
    <3>1. PICK m, sigs : m = txs[t].message /\ sigs = txs[t].sigs
      OBVIOUS
    <3>2. txs'[t].message = m /\ txs'[t].sigs = sigs /\ m \in Messages
      BY <1>0, <2>1, <3>1, TakenIsKept
    <3>3. NonceTaken(m)' \/ (txs'[t].status = "pending" /\ Fits(m, sigs)')
      <4>1. CASE NonceTaken(m)
        BY <3>2, <4>1, TakenIsKept
      <4>2. CASE ~NonceTaken(m)
        <5>1. txs[t].status = "pending" /\ Fits(m, sigs)
          BY <2>1, <3>1, <4>2 DEF SentIsSound
        <5>2. NonceTaken(m)' \/ Fits(m, sigs)'
          BY <3>2, <5>1, TakenIsKept
        <5>3. txs'[t].status = "pending" \/ txs'[t].status = "ok"
          <6>1. ASSUME NEW l \in Loops, Send(l) PROVE txs'[t].status = "pending"
            BY <2>1, <5>1, <6>1, QuietSend
          <6>2. ASSUME NEW u \in DOMAIN txs, MinedAs(u, "ok")
                PROVE  txs'[t].status = "pending" \/ txs'[t].status = "ok"
            BY <2>1, <5>1, <6>2, MinedEntries
          <6>3. ASSUME NEW u \in DOMAIN txs, MinedAs(u, "reverted"), ~Fits(txs[u].message, txs[u].sigs)
                PROVE  txs'[t].status = "pending"
            BY <2>1, <3>1, <5>1, <6>3, MinedEntries
          <6>4. QED
            BY <5>1, <6>1, <6>2, <6>3, QuietTransactions
        <5>4. txs'[t].status = "ok" => NonceTaken(m)'
          BY <3>2 DEF NonceTaken, NonceOfTx, Ok
        <5>5. QED
          BY <5>2, <5>3, <5>4
      <4>3. QED
        BY <4>1, <4>2
    <3>4. QED
      BY <3>2, <3>3 DEF NonceTaken, Fits
  <2>2. CASE t \notin DOMAIN txs
    <3>1. PICK l \in Loops : Send(l)
      BY <2>2, QuietTransactions, MinedEntries
    <3>2. PICK m, sigs : m = Current(l).message /\ sigs = Current(l).sigs
      OBVIOUS
    <3>3. /\ t = Len(txs) + 1 /\ At(l, "send") /\ m \in Messages
          /\ txs'[t].message = m /\ txs'[t].sigs = sigs /\ txs'[t].status = "pending"
      BY <2>2, <3>1, <3>2, QuietSend, RowOfLoop DEF Row
    <3>4. NonceTaken(m) \/ Fits(m, sigs)
      BY <3>2, <3>3 DEF SentIsSound
    <3>5. NonceTaken(m)' \/ Fits(m, sigs)'
      BY <3>3, <3>4, TakenIsKept
    <3>6. QED
      BY <3>3, <3>5 DEF NonceTaken, Fits
  <2>3. QED
    BY <2>1, <2>2
<1>2. ASSUME NEW l \in Loops, At(l, "send")'
      PROVE  NonceTaken(Current(l).message)' \/ Fits(Current(l).message, Current(l).sigs)'
  <2>1. PICK m, sigs : m = Current(l).message /\ sigs = Current(l).sigs
    OBVIOUS
  <2>2. CASE loop'[l] = loop[l]
    <3>1. At(l, "send") /\ Busy(l)
      BY <1>2, <2>2 DEF At, Busy
    <3>2. Current(l)'.message = m /\ Current(l)'.sigs = sigs /\ m \in Messages
      BY <2>1, <2>2, <3>1, QuietLoops
    <3>3. NonceTaken(m)' \/ Fits(m, sigs)'
      BY <2>1, <3>1, <3>2, TakenIsKept DEF SentIsSound
    <3>4. QED
      BY <3>2, <3>3 DEF NonceTaken, Fits
  <2>3. CASE Validate(l)
    <3>1. loop'[l].row = loop[l].row /\ finalMessages' = finalMessages /\ wallet' = wallet
      BY <2>3, LoopGoes DEF Validate, TypeOK, Pcs, chain
    <3>2. Executable(Current(l))
      BY <1>2, <2>3, LoopGoes DEF Validate, TypeOK, Pcs, At
    <3>3. Fits(Current(l).message, Current(l).sigs)'
      BY <3>1, <3>2 DEF Executable, Fits, Current
    <3>4. QED
      BY <3>3
  <2>4. QED
    BY <1>2, <2>2, <2>3, OwnSteps, Arrivals DEF At, Crash, Idle
<1>3. ASSUME NEW l \in Loops, loop'[l].pc \in {"hooks", "setHash", "markSuccess"}
      PROVE  NonceTaken(Current(l).message)'
  <2>1. PICK m : m = Current(l).message
    OBVIOUS
  <2>2. /\ loop'[l].row = loop[l].row /\ HasSent(l) /\ Busy(l)
        /\ loop[l].pc = "wait" => WaitForTransaction(l)
    <3>1. CASE loop'[l] = loop[l]
      BY <1>3, <3>1 DEF HasSent, Busy
    <3>2. CASE WaitForTransaction(l) \/ RunHooks(l) \/ SetTransactionHash(l)
      <4>1. \E pc \in Pcs : GoTo(l, pc)
        BY <3>2 DEF WaitForTransaction, RunHooks, SetTransactionHash, Pcs
      <4>2. QED
        BY <3>2, <4>1, LoopGoes
           DEF WaitForTransaction, RunHooks, SetTransactionHash, At, HasSent, Busy, TypeOK
    <3>3. QED
      BY <1>3, <3>1, <3>2, OwnSteps, Arrivals DEF Crash, Idle
  <2>3. RowsEvolve /\ loop[l].row \in DOMAIN finalMessages /\ Current(l) \in Row
    BY <2>2, EveryStepEvolvesRows, RowOfLoop
  <2>4. Current(l)'.message = m /\ m \in Messages
    BY <2>1, <2>2, <2>3 DEF RowsEvolve, Current, Row
  <2>5. NonceTaken(m)
    <3>1. CASE loop[l].pc = "wait"
      <4>1. loop[l].tx \in DOMAIN txs /\ txs[loop[l].tx].message = m /\ txs[loop[l].tx].status # "pending"
        BY <2>1, <2>2, <3>1 DEF WaitForTransaction, LoopsOK
      <4>2. QED
        BY <4>1 DEF SentIsSound
    <3>2. CASE loop[l].pc # "wait"
      BY <2>1, <2>2, <3>2 DEF SentIsSound, HasSent
    <3>3. QED
      BY <3>1, <3>2
  <2>6. NonceTaken(m)'
    BY <2>4, <2>5, TakenIsKept
  <2>7. QED
    BY <2>4, <2>6 DEF NonceTaken
<1>4. QED
  BY <1>1, <1>2, <1>3 DEF SentIsSound

(* Who may be sent: nobody before it has won the nonce.                          *)
LEMMA RivalsHaveFailed ==
    ASSUME QueueInv, SuccessIsSound, NEW l \in Loops, Busy(l), Executable(Current(l))
    PROVE  RivalsFailed(loop[l].row)
<1> USE DEF QueueInv
<1>1. loop[l].row \in 1..Len(finalMessages) /\ DOMAIN finalMessages = 1..Len(finalMessages)
      /\ Len(finalMessages) \in Nat
  BY RowOfLoop
<1> SUFFICES ASSUME NEW k \in 1..(loop[l].row - 1),
                    NonceOf[finalMessages[k].message] = NonceOf[Current(l).message],
                    ~finalMessages[k].error
             PROVE  FALSE
  BY DEF RivalsFailed, Current
<1>2. k \in DOMAIN finalMessages /\ finalMessages[k].tx # 0
  BY <1>1 DEF NoneOvertaken, Resolved
<1>3. NonceTaken(finalMessages[k].message)
  BY <1>2 DEF SuccessIsSound
<1>4. NonceOf[finalMessages[k].message] < wallet.lastNonce
  BY <1>3 DEF NonceTaken, NoncesSpent
<1>5. NonceOf[Current(l).message] = wallet.lastNonce /\ wallet.lastNonce \in Nat
  BY DEF Executable, ExecuteSignedAllowed, TypeOK, Storage
<1>6. QED
  BY <1>4, <1>5

LEMMA FailuresAreKept ==
    ASSUME QueueInv, EarlierFailed, SuccessIsSound, QueueNext, Quiet'
    PROVE  EarlierFailed'
<1> USE DEF QueueInv
<1>0. RowsEvolve
  BY EveryStepEvolvesRows
<1>1. ASSUME NEW t \in DOMAIN txs'
      PROVE  \E i \in DOMAIN finalMessages' :
                finalMessages'[i].message = txs'[t].message /\ RivalsFailed(i)'
  <2>1. CASE t \in DOMAIN txs
    <3>1. PICK i \in DOMAIN finalMessages : finalMessages[i].message = txs[t].message /\ RivalsFailed(i)
      BY <2>1 DEF EarlierFailed
    <3>2. txs'[t].message = txs[t].message
      BY <2>1, TakenIsKept
    <3>3. RivalsFailed(i)'
      BY <3>1, FailedStaysFailed
    <3>4. QED
      BY <1>0, <3>1, <3>2, <3>3 DEF RowsEvolve
  <2>2. CASE t \notin DOMAIN txs
    <3>1. PICK l \in Loops : Send(l)
      BY <2>2, QuietTransactions, MinedEntries
    <3>2. PICK i \in DOMAIN finalMessages : i = loop[l].row
      BY <3>1, QuietSend
    <3>3. t = Len(txs) + 1 /\ At(l, "send") /\ txs'[t].message = finalMessages[i].message
      BY <2>2, <3>1, <3>2, QuietSend DEF Current
    <3>4. RivalsFailed(i)'
      BY <3>2, <3>3, FailedStaysFailed DEF EarlierFailed
    <3>5. QED
      BY <1>0, <3>3, <3>4 DEF RowsEvolve
  <2>3. QED
    BY <2>1, <2>2
<1>2. ASSUME NEW l \in Loops, At(l, "send")' PROVE RivalsFailed(loop[l].row)'
  <2>1. CASE loop'[l] = loop[l]
    <3>1. PICK i \in DOMAIN finalMessages : i = loop[l].row /\ RivalsFailed(i)
      BY <1>2, <2>1, RowOfLoop DEF EarlierFailed, At, Busy
    <3>2. RivalsFailed(i)'
      BY <3>1, FailedStaysFailed
    <3>3. QED
      BY <2>1, <3>1, <3>2 DEF RivalsFailed
  <2>2. CASE Validate(l)
    <3>1. Busy(l) /\ Executable(Current(l))
      BY <1>2, <2>2, LoopGoes DEF Validate, TypeOK, Pcs, At, Busy
    <3>2. RivalsFailed(loop[l].row)
      BY <3>1, RivalsHaveFailed
    <3>3. loop'[l].row = loop[l].row /\ finalMessages' = finalMessages
      BY <2>2, LoopGoes DEF Validate, TypeOK, Pcs
    <3>4. QED
      BY <3>2, <3>3 DEF RivalsFailed
  <2>3. QED
    BY <1>2, <2>1, <2>2, OwnSteps, Arrivals DEF At, Crash, Idle
<1>3. QED
  BY <1>1, <1>2 DEF EarlierFailed

LEMMA SuccessesAreKept ==
    ASSUME QueueInv, SentIsSound, SuccessIsSound, QueueNext, Quiet'
    PROVE  SuccessIsSound'
<1> USE DEF QueueInv
<1> SUFFICES ASSUME NEW i \in DOMAIN finalMessages', finalMessages'[i].tx # 0
             PROVE  /\ ~finalMessages'[i].error /\ NonceTaken(finalMessages[i].message)'
                    /\ finalMessages'[i].tx \in DOMAIN txs'
                    /\ txs'[finalMessages'[i].tx].message = finalMessages'[i].message
  BY DEF SuccessIsSound
<1>0. finalMessages \in Seq(Row) /\ \A k \in DOMAIN finalMessages : finalMessages[k] \in Row
  BY LenProperties, ElementOfSeq DEF TypeOK
<1>1. ASSUME i \in DOMAIN finalMessages, finalMessages'[i] = finalMessages[i]
      PROVE  /\ ~finalMessages'[i].error /\ NonceTaken(finalMessages[i].message)'
             /\ finalMessages'[i].tx \in DOMAIN txs'
             /\ txs'[finalMessages'[i].tx].message = finalMessages'[i].message
  <2>1. PICK m : m = finalMessages[i].message
    OBVIOUS
  <2>2. /\ ~finalMessages[i].error /\ NonceTaken(m) /\ finalMessages[i].tx \in DOMAIN txs
        /\ txs[finalMessages[i].tx].message = m /\ m \in Messages
    BY <1>0, <1>1, <2>1 DEF SuccessIsSound, Row
  <2>3. NonceTaken(m)' /\ finalMessages[i].tx \in DOMAIN txs' /\ txs'[finalMessages[i].tx].message = m
    BY <2>2, TakenIsKept
  <2>4. NonceTaken(finalMessages[i].message)'
    BY <1>1, <2>1, <2>3 DEF NonceTaken
  <2>5. QED
    BY <1>1, <2>1, <2>2, <2>3, <2>4
<1>2. ASSUME NEW l \in Loops, MarkAsSuccess(l), i = loop[l].row
      PROVE  /\ ~finalMessages'[i].error /\ NonceTaken(finalMessages[i].message)'
             /\ finalMessages'[i].tx \in DOMAIN txs'
             /\ txs'[finalMessages'[i].tx].message = finalMessages'[i].message
  <2>1. PICK m, t : m = Current(l).message /\ t = loop[l].tx
    OBVIOUS
  <2>2. /\ Busy(l) /\ HasSent(l) /\ i \in DOMAIN finalMessages /\ At(l, "markSuccess")
        /\ t \in Nat /\ t \in DOMAIN txs /\ txs[t].message = m /\ m \in Messages
    BY <1>0, <1>2, <2>1 DEF MarkAsSuccess, LoopsOK, Busy, HasSent, At, Current, Row, TypeOK, Loop
  <2>3. finalMessages'[i].message = m /\ finalMessages'[i].tx = t
    BY <1>0, <1>2, <2>1, <2>2, RowSucceeds DEF MarkAsSuccess, Current
  <2>4. ~finalMessages'[i].error
    <3>1. ~Resolved(finalMessages[i])
      BY <1>2, <2>2, QuietBefore, QuietIsOneLoop DEF RowIsOpen, Quiet, Current
    <3>2. finalMessages'[i].error = finalMessages[i].error
      BY <1>0, <1>2, <2>1, <2>2, RowSucceeds DEF MarkAsSuccess
    <3>3. QED
      BY <3>1, <3>2 DEF Resolved
  <2>5. NonceTaken(m) /\ UNCHANGED txs
    BY <1>2, <2>1, <2>2 DEF SentIsSound, MarkAsSuccess, At, chain
  <2>6. NonceTaken(m)'
    BY <2>2, <2>5, TakenIsKept
  <2>7. QED
    BY <2>2, <2>3, <2>4, <2>5, <2>6 DEF NonceTaken
<1>3. ASSUME NEW l \in Loops, MarkAsError(l), i = loop[l].row PROVE FALSE
  <2>1. Busy(l) /\ i \in DOMAIN finalMessages /\ ~Resolved(finalMessages[i])
    BY <1>3, QuietBefore, QuietIsOneLoop, RowOfLoop DEF MarkAsError, Busy, At, RowIsOpen, Quiet, Current
  <2>2. finalMessages'[i].tx = finalMessages[i].tx
    BY <1>0, <1>3, <2>1, RowFails DEF MarkAsError
  <2>3. QED
    BY <2>1, <2>2 DEF Resolved
<1>4. CASE UNCHANGED finalMessages
  BY <1>1, <1>4
<1>5. ASSUME NEW m \in Messages, NEW sigs \in Seq(Nat), QueueRow(m, sigs)
      PROVE  i \in DOMAIN finalMessages /\ finalMessages'[i] = finalMessages[i]
  BY <1>0, <1>5, RowIsAdded
<1>6. ASSUME NEW l \in Loops, MarkAsSuccess(l) \/ MarkAsError(l), i # loop[l].row
      PROVE  i \in DOMAIN finalMessages /\ finalMessages'[i] = finalMessages[i]
  <2>1. Busy(l) /\ loop[l].row \in DOMAIN finalMessages /\ loop[l].tx \in Nat
    BY <1>6, RowOfLoop DEF MarkAsSuccess, MarkAsError, Busy, At, TypeOK, Loop
  <2>2. QED
    BY <1>0, <1>6, <2>1, RowSucceeds, RowFails DEF MarkAsSuccess, MarkAsError
<1>7. QED
  BY <1>1, <1>2, <1>3, <1>4, <1>5, <1>6, QuietRows

(* A loop that has sent goes on to record it, unless the process dies.           *)
LEMMA SentIsCarried ==
    ASSUME QueueInv, QueueNext, Quiet', crashes' = 0, NEW l \in Loops, HasSent(l)
    PROVE  \/ HasSent(l)' /\ loop'[l].tx = loop[l].tx /\ (At(l, "wait")' => At(l, "wait"))
           \/ MarkAsSuccess(l)
<1> USE DEF QueueInv
<1>1. ~Crash
  BY FaultsGrow DEF Crash, TypeOK
<1>2. ~Throws(l)
  BY DEF Throws, Quiet, TypeOK
<1>3. CASE loop'[l] = loop[l]
  BY <1>3 DEF HasSent, At
<1>4. CASE WaitForTransaction(l) \/ RunHooks(l) \/ SetTransactionHash(l)
  <2>1. PICK pc \in {"hooks", "setHash", "markSuccess"} : GoTo(l, pc) /\ pc \in Pcs
    BY <1>4 DEF WaitForTransaction, RunHooks, SetTransactionHash, Pcs
  <2>2. loop'[l].pc = pc /\ loop'[l].tx = loop[l].tx
    BY <2>1, LoopGoes DEF TypeOK
  <2>3. QED
    BY <2>2 DEF HasSent, At
<1>5. CASE Start(l) \/ GetNext(l) \/ NoNext(l) \/ Wake(l) \/ Validate(l) \/ Send(l) \/ MarkAsError(l)
  BY <1>5 DEF Start, GetNext, NoNext, Wake, Validate, Send, MarkAsError, At, HasSent
<1>6. QED
  BY <1>1, <1>2, <1>3, <1>4, <1>5, OwnSteps DEF Step

LEMMA TransactionsStayKnown ==
    ASSUME QueueInv, KnownTransactions, SentIsSound, QueueNext, Quiet'
    PROVE  KnownTransactions'
<1> USE DEF QueueInv
<1> SUFFICES ASSUME crashes' = 0 PROVE KnownTransactions'
  BY DEF KnownTransactions
<1>0. crashes = 0 /\ Quiet /\ \A k, l \in Loops : k = l
  BY FaultsGrow, QuietBefore DEF TypeOK, Quiet, NeverRestarted
<1>1. /\ txs \in Seq(Tx) /\ finalMessages \in Seq(Row) /\ RowsEvolve
      /\ \A i \in DOMAIN finalMessages : Resolved(finalMessages[i]) => finalMessages'[i] = finalMessages[i]
      /\ \A t \in DOMAIN txs : t # 0
  <2>1. faults' = 0 /\ OneLoop'
    BY DEF Quiet, NeverRestarted, OneLoop
  <2>2. QED
    BY <2>1, StepIsFinal, EveryStepEvolvesRows, LenProperties DEF TypeOK
<1>2. ASSUME NEW t \in DOMAIN txs'
      PROVE  \/ \E i \in DOMAIN finalMessages' :
                   finalMessages'[i].tx = t /\ txs'[t].message = finalMessages'[i].message
             \/ \E l \in Loops : HasSent(l)' /\ loop'[l].tx = t
  <2>1. ASSUME t \in DOMAIN txs, NEW i \in DOMAIN finalMessages, finalMessages[i].tx = t,
               txs[t].message = finalMessages[i].message
        PROVE  \E j \in DOMAIN finalMessages' :
                  finalMessages'[j].tx = t /\ txs'[t].message = finalMessages'[j].message
    <3>1. i \in DOMAIN finalMessages' /\ finalMessages'[i] = finalMessages[i]
      BY <1>1, <2>1 DEF RowsEvolve, Resolved
    <3>2. QED
      BY <2>1, <3>1, TakenIsKept
  <2>2. ASSUME t \in DOMAIN txs, NEW l \in Loops, HasSent(l), loop[l].tx = t, MarkAsSuccess(l)
        PROVE  \E j \in DOMAIN finalMessages' :
                  finalMessages'[j].tx = t /\ txs'[t].message = finalMessages'[j].message
    <3>1. loop[l].row \in DOMAIN finalMessages /\ loop[l].tx \in Nat /\ txs[t].message = Current(l).message
      BY <2>2, RowOfLoop DEF LoopsOK, HasSent, Busy, TypeOK, Loop
    <3>2. /\ loop[l].row \in DOMAIN finalMessages' /\ finalMessages'[loop[l].row].tx = t
          /\ finalMessages'[loop[l].row].message = Current(l).message
      BY <1>1, <2>2, <3>1, RowSucceeds DEF MarkAsSuccess, Current
    <3>3. QED
      BY <2>2, <3>1, <3>2, TakenIsKept
  <2>3. CASE t \notin DOMAIN txs
    <3>1. PICK l \in Loops : Send(l)
      BY <2>3, QuietTransactions, MinedEntries
    <3>2. QED
      BY <2>3, <3>1, QuietSend DEF HasSent
  <2>4. QED
    BY <1>0, <2>1, <2>2, <2>3, SentIsCarried DEF KnownTransactions
<1>3. ASSUME NEW t \in DOMAIN txs'
      PROVE  \/ txs'[t].status = "ok"
             \/ txs'[t].status = "pending" /\ \E l \in Loops : At(l, "wait")' /\ loop'[l].tx = t
  <2>1. CASE t \in DOMAIN txs /\ txs[t].status = "ok"
    BY <2>1, TakenIsKept DEF Ok
  <2>2. CASE t \in DOMAIN txs /\ txs[t].status # "ok"
    <3>1. PICK l \in Loops : At(l, "wait") /\ loop[l].tx = t /\ txs[t].status = "pending"
      BY <1>0, <2>2 DEF KnownTransactions, Ok
    <3>2. CASE UNCHANGED txs
      <4>1. ~Crash /\ ~Throws(l)
        BY <1>0 DEF Crash, Throws, Quiet, TypeOK
      <4>2. ~Start(l) /\ ~Step(l)
        BY <3>1 DEF Start, Step, GetNext, NoNext, Wake, Validate, Send, WaitForTransaction, RunHooks,
                    SetTransactionHash, MarkAsSuccess, MarkAsError, At
      <4>3. At(l, "wait")' /\ loop'[l].tx = t
        BY <3>1, <4>1, <4>2, OwnSteps DEF At
      <4>4. QED
        BY <3>1, <3>2, <4>3
    <3>3. ASSUME NEW u \in DOMAIN txs, MinedAs(u, "ok")
          PROVE  \/ txs'[t].status = "ok"
                 \/ txs'[t].status = "pending" /\ At(l, "wait")' /\ loop'[l].tx = t
      BY <2>2, <3>1, <3>3, MinedEntries DEF At
    <3>4. ASSUME NEW u \in DOMAIN txs, MinedAs(u, "reverted"), ~Fits(txs[u].message, txs[u].sigs)
          PROVE  FALSE
      BY <1>0, <3>4, MinedEntries DEF KnownTransactions
    <3>5. ASSUME NEW k \in Loops, Send(k) PROVE FALSE
      BY <1>0, <3>1, <3>5 DEF Send, At
    <3>6. QED
      BY <3>1, <3>2, <3>3, <3>4, <3>5, QuietTransactions
  <2>3. CASE t \notin DOMAIN txs
    <3>1. PICK l \in Loops : Send(l)
      BY <2>3, QuietTransactions, MinedEntries
    <3>2. QED
      BY <2>3, <3>1, QuietSend DEF At
  <2>4. QED
    BY <2>1, <2>2, <2>3
<1>4. ASSUME NEW l \in Loops, At(l, "send")'
      PROVE  Fits(Current(l).message, Current(l).sigs)'
  <2>1. CASE Validate(l)
    <3>1. /\ loop'[l].row = loop[l].row /\ finalMessages' = finalMessages /\ wallet' = wallet
          /\ Executable(Current(l))
      BY <1>4, <2>1, LoopGoes DEF Validate, TypeOK, Pcs, chain, At
    <3>2. QED
      BY <3>1 DEF Executable, Fits, Current
  <2>2. CASE loop'[l] = loop[l]
    <3>1. PICK m, sigs : m = Current(l).message /\ sigs = Current(l).sigs
      OBVIOUS
    <3>2. At(l, "send") /\ Busy(l) /\ Fits(m, sigs)
      BY <1>0, <1>4, <2>2, <3>1 DEF KnownTransactions, At, Busy
    <3>3. Current(l)'.message = m /\ Current(l)'.sigs = sigs
      BY <2>2, <3>1, <3>2, QuietLoops
    <3>4. wallet' = wallet
      <4>1. ASSUME NEW u \in DOMAIN txs, NEW status \in {"ok", "reverted"}, MinedAs(u, status) PROVE FALSE
        BY <1>0, <3>2, <4>1, MinedEntries DEF KnownTransactions, Ok, At
      <4>2. QED
        BY <4>1, QuietTransactions DEF Send
    <3>5. QED
      BY <3>2, <3>3, <3>4 DEF Fits
  <2>3. QED
    BY <1>4, <2>1, <2>2, OwnSteps, Arrivals DEF At, Crash, Idle
<1>5. ASSUME NEW t \in DOMAIN txs', txs'[t].status = "pending"
      PROVE  Fits(txs[t].message, txs[t].sigs)'
  <2>1. CASE t \in DOMAIN txs
    <3>1. PICK m, sigs : m = txs[t].message /\ sigs = txs[t].sigs
      OBVIOUS
    <3>2. txs'[t].message = m /\ txs'[t].sigs = sigs
      BY <2>1, <3>1, TakenIsKept
    <3>3. txs[t].status = "pending" /\ Fits(m, sigs)
      BY <1>0, <1>5, <2>1, <3>1, TakenIsKept DEF KnownTransactions, Ok
    <3>4. wallet' = wallet
      <4>1. ASSUME NEW u \in DOMAIN txs, NEW status \in {"ok", "reverted"}, MinedAs(u, status) PROVE FALSE
        <5>1. u = t
          BY <1>0, <2>1, <3>3, <4>1, MinedEntries DEF KnownTransactions, Ok
        <5>2. QED
          BY <1>5, <4>1, <5>1, MinedEntries
      <4>2. QED
        BY <4>1, QuietTransactions DEF Send
    <3>5. QED
      BY <3>2, <3>3, <3>4 DEF Fits
  <2>2. CASE t \notin DOMAIN txs
    <3>1. PICK l \in Loops : Send(l)
      BY <2>2, QuietTransactions, MinedEntries
    <3>2. /\ At(l, "send") /\ txs'[t].message = Current(l).message /\ txs'[t].sigs = Current(l).sigs
          /\ wallet' = wallet
      BY <2>2, <3>1, QuietSend
    <3>3. Fits(Current(l).message, Current(l).sigs)
      BY <1>0, <3>2 DEF KnownTransactions
    <3>4. QED
      BY <3>2, <3>3 DEF Fits
  <2>3. QED
    BY <2>1, <2>2
<1>6. QED
  BY <1>2, <1>3, <1>4, <1>5 DEF KnownTransactions, Ok

LEMMA OutcomeInit == Init => OutcomeInv
BY DEF Init, OutcomeInv, SentIsSound, EarlierFailed, SuccessIsSound, KnownTransactions, At, Idle, HasSent

LEMMA OutcomeStep ==
    ASSUME QueueInv, OutcomeInv, [QueueNext]_vars
    PROVE  OutcomeInv'
<1>1. CASE QueueNext
  <2> SUFFICES ASSUME Quiet'
               PROVE  SentIsSound' /\ EarlierFailed' /\ SuccessIsSound' /\ KnownTransactions'
    BY DEF OutcomeInv
  <2>1. SentIsSound /\ EarlierFailed /\ SuccessIsSound /\ KnownTransactions
    BY <1>1, QuietBefore DEF OutcomeInv, QueueInv
  <2>2. QED
    BY <1>1, <2>1, SoundnessIsKept, FailuresAreKept, SuccessesAreKept, TransactionsStayKnown
<1>2. CASE UNCHANGED vars
  BY <1>2 DEF vars, OutcomeInv, Quiet, SentIsSound, EarlierFailed, SuccessIsSound, KnownTransactions, At,
              HasSent, Current, NonceTaken, NonceOfTx, Ok, Fits, RivalsFailed
<1>3. QED
  BY <1>1, <1>2

LEMMA InvImpliesOutcomeIsTrue == QueueInv /\ OutcomeInv => OutcomeIsTrue
<1> SUFFICES ASSUME QueueInv, OutcomeInv, faults = 0, foreign = 0, NeverRestarted,
                    NEW i \in DOMAIN finalMessages
             PROVE  LET row == finalMessages[i]
                    IN  /\ row.tx # 0 => Executed(row.message) # {} \/ RivalExecuted(row.message)
                        /\ crashes = 0 /\ row.tx # 0 => row.tx \in Executed(row.message)
                        /\ crashes = 0 /\ row.error => Executed(row.message) = {}
  BY DEF OutcomeIsTrue
<1> USE DEF QueueInv
<1> DEFINE row == finalMessages[i]
<1>0. /\ SentIsSound /\ EarlierFailed /\ SuccessIsSound /\ KnownTransactions
      /\ \A l \in Loops : Busy(l) => ~Resolved(Current(l))
  BY QuietIsOneLoop DEF OutcomeInv, Quiet, RowIsOpen
<1>1. ASSUME NEW l \in Loops, HasSent(l), txs[loop[l].tx].message = row.message PROVE ~Resolved(row)
  <2>1. Busy(l) /\ loop[l].row \in DOMAIN finalMessages /\ Current(l).message = row.message
    BY <1>1 DEF LoopsOK, HasSent, Busy
  <2>2. loop[l].row = i
    BY <2>1 DEF RowsDistinct, Current
  <2>3. QED
    BY <1>0, <2>1, <2>2 DEF Current
<1>2. ASSUME row.tx # 0
      PROVE  Executed(row.message) # {} \/ RivalExecuted(row.message)
  <2>1. /\ ~row.error /\ row.tx \in DOMAIN txs /\ txs[row.tx].message = row.message
        /\ NonceTaken(row.message)
    BY <1>0, <1>2 DEF SuccessIsSound
  <2>2. PICK t \in DOMAIN txs : Ok(t) /\ NonceOfTx(t) = NonceOf[row.message]
    BY <2>1 DEF NonceTaken
  <2>3. PICK j \in DOMAIN finalMessages : finalMessages[j].message = txs[t].message /\ RivalsFailed(j)
    BY <1>0 DEF EarlierFailed
  <2>4. Executed(finalMessages[j].message) # {} /\ NonceOf[finalMessages[j].message] = NonceOf[row.message]
    BY <2>2, <2>3 DEF Executed, Ok, NonceOfTx
  <2>5. RivalsFailed(i)
    BY <1>0, <2>1 DEF EarlierFailed, RowsDistinct
  <2>6. DOMAIN finalMessages = 1..Len(finalMessages) /\ Len(finalMessages) \in Nat
    BY LenProperties DEF TypeOK
  <2>7. CASE i = j
    BY <2>4, <2>7
  <2>8. CASE i < j
    BY <2>1, <2>3, <2>4, <2>6, <2>8 DEF RivalsFailed
  <2>9. CASE j < i
    <3>1. finalMessages[j].error
      BY <2>4, <2>5, <2>6, <2>9 DEF RivalsFailed
    <3>2. QED
      BY <2>4, <3>1 DEF RivalExecuted
  <2>10. QED
    BY <2>6, <2>7, <2>8, <2>9
<1>3. ASSUME crashes = 0, row.tx # 0 PROVE row.tx \in Executed(row.message)
  <2>1. row.tx \in DOMAIN txs /\ txs[row.tx].message = row.message /\ Resolved(row)
    BY <1>0, <1>3 DEF SuccessIsSound, Resolved
  <2>2. Ok(row.tx)
    BY <1>0, <1>1, <1>3, <2>1 DEF KnownTransactions, HasSent, At
  <2>3. QED
    BY <2>1, <2>2 DEF Executed, Ok
<1>4. ASSUME crashes = 0, row.error PROVE Executed(row.message) = {}
  <2> SUFFICES ASSUME NEW t \in DOMAIN txs, txs[t].message = row.message PROVE FALSE
    BY DEF Executed
  <2>1. CASE \E j \in DOMAIN finalMessages :
               finalMessages[j].tx = t /\ txs[t].message = finalMessages[j].message
    <3>1. row.tx = t
      BY <2>1 DEF RowsDistinct
    <3>2. t # 0
      BY LenProperties DEF TypeOK
    <3>3. QED
      BY <1>0, <1>4, <3>1, <3>2 DEF SuccessIsSound
  <2>2. CASE \E l \in Loops : HasSent(l) /\ loop[l].tx = t
    BY <1>1, <1>4, <2>2 DEF Resolved
  <2>3. QED
    BY <1>0, <1>4, <2>1, <2>2 DEF KnownTransactions
<1>5. QED
  BY <1>2, <1>3, <1>4

(* What the relayer records is what happened, although nobody reads the status   *)
(* of a receipt (MessageExecutor.ts:12-19).                                      *)
THEOREM OutcomesAreTrue == Spec => []OutcomeIsTrue
<1>1. QueueInv /\ OutcomeInv /\ [QueueNext]_vars => OutcomeInv'
  BY OutcomeStep
<1>2. QED
  BY <1>1, OutcomeInit, InvImpliesOutcomeIsTrue, QueueInvariant, SpecIsQueueSpec, PTL

--------------------------------------------------------------------------------
(* THE RELAYER AS A WHOLE                                                       *)

(* One process runs one loop, at a row that is open until it records an outcome. *)
Working(l) == Busy(l) /\ ~At(l, "markError")
LoopWorksAlone == OneLoop /\ \A l \in Loops : Working(l) => ~Resolved(Current(l))

(* What was sent comes from rows with nothing open before them.                  *)
SentInTurn ==
    \A t \in DOMAIN txs : \E i \in DOMAIN finalMessages :
        finalMessages[i].message = txs[t].message /\ \A j \in 1..(i - 1) : Resolved(finalMessages[j])

(* The nonce of m is taken, by m itself or by a message recorded as an error.    *)
Failed(m) == \E i \in DOMAIN finalMessages : finalMessages[i].message = m /\ finalMessages[i].error
Decided(m) ==
    \E p \in Messages :
        Executed(p) # {} /\ NonceOf[p] = NonceOf[m] /\ (p = m \/ Failed(p))

(* A message that was found executable is still, or its nonce is taken; once its *)
(* transaction is mined, it is taken.                                            *)
Found(l) ==
    LET m == Current(l).message
        sigs == Current(l).sigs
    IN  /\ At(l, "send") => Decided(m) \/ Fits(m, sigs)
        /\ At(l, "wait") =>
              \/ Decided(m)
              \/ LET tx == txs[loop[l].tx]
                 IN  tx.status = "pending" /\ tx.sigs = sigs /\ Fits(m, sigs)
        /\ loop[l].pc \in {"hooks", "setHash", "markSuccess"} => Decided(m)
FoundIsSound == \A l \in Loops : Found(l)
SuccessIsDecided ==
    \A i \in DOMAIN finalMessages : finalMessages[i].tx # 0 => Decided(finalMessages[i].message)

ContestInv ==
    /\ LoopWorksAlone /\ SentInTurn
    /\ foreign = 0 => FoundIsSound /\ SuccessIsDecided

--------------------------------------------------------------------------------
(* The part of PendingMessages' invariant that the tables rest on.               *)
Kept(pc) ==
    pc \in {"containSignature", "ensureKey", "addSignature", "count", "isEnough", "collect",
            "ensureNotSent", "recount", "recheck", "enqueue"}
HandlersOK ==
    /\ messages \subseteq Messages /\ Queued \subseteq messages
    /\ pairs \in [Messages -> Seq(Collection!Signer)]
    /\ request \in [Requests -> Collection!Handler]
    /\ \A r \in Requests : Kept(request[r].pc) => MsgOf[r] \in messages

RelayerInv == QueueInv /\ ContestInv /\ HandlersOK
--------------------------------------------------------------------------------
HandlerPcs ==
    {"isPresent", "add", "get", "containSignature", "ensureKey", "addSignature", "count", "isEnough",
     "collect", "ensureNotSent", "recount", "recheck", "enqueue"} \cup Collection!Final

(* A handler, what it leaves of the tables, and where it goes.                   *)
HandlerKeeps(r) ==
    /\ request' \in [Requests -> Collection!Handler] /\ pairs' \in [Messages -> Seq(Collection!Signer)]
    /\ \A q \in Requests : q # r => request'[q] = request[q]
    /\ Kept(request[r].pc) \/ Kept(request'[r].pc) => MsgOf[r] \in messages'
    /\ messages' \in {messages, messages \cup {MsgOf[r]}}
    /\ \/ UNCHANGED finalMessages
       \/ request[r].pc = "enqueue" /\ \E sigs \in Seq(Nat) : QueueRow(MsgOf[r], sigs)
    /\ UNCHANGED <<transactionHash, service, chain, bounded>>

(* Sorted signatures are still signatures.                                       *)
LEMMA SortedIsTyped ==
    ASSUME NEW S, NEW s \in Seq(S), NEW t \in Collection!SortedByKey(s)
    PROVE  t \in Seq(S)
<1>1. DOMAIN s = 1..Len(s) /\ Len(s) \in Nat /\ \A i \in DOMAIN s : s[i] \in S
  BY LenProperties, ElementOfSeq
<1>2. PICK p \in [DOMAIN s -> DOMAIN s] : t = [i \in DOMAIN s |-> s[p[i]]]
  BY DEF Collection!SortedByKey, Collection!Bijection, Collection!Injection
<1>3. t \in [1..Len(s) -> S]
  BY <1>1, <1>2
<1>4. QED
  BY <1>1, <1>3, SeqDef

(* What the updates of a handler do.                                             *)
LEMMA HandlerGoes ==
    ASSUME request \in [Requests -> Collection!Handler], NEW r \in Requests, NEW pc \in HandlerPcs,
           Collection!GoTo(r, pc)
    PROVE  /\ request' \in [Requests -> Collection!Handler] /\ request'[r].pc = pc
           /\ \A q \in Requests : q # r => request'[q] = request[q]
BY DEF Collection!GoTo, Collection!Handler, Collection!Final, HandlerPcs

LEMMA HandlerCounts ==
    ASSUME request \in [Requests -> Collection!Handler], NEW r \in Requests, NEW pc \in HandlerPcs,
           NEW n \in Nat, request' = [request EXCEPT ![r].pc = pc, ![r].total = n]
    PROVE  /\ request' \in [Requests -> Collection!Handler] /\ request'[r].pc = pc
           /\ \A q \in Requests : q # r => request'[q] = request[q]
BY DEF Collection!Handler, Collection!Final, HandlerPcs

LEMMA HandlerCollects ==
    ASSUME request \in [Requests -> Collection!Handler], NEW r \in Requests,
           NEW sigs \in Seq(Collection!Signer),
           request' = [request EXCEPT ![r].pc = "ensureNotSent", ![r].sigs = sigs]
    PROVE  /\ request' \in [Requests -> Collection!Handler] /\ request'[r].pc = "ensureNotSent"
           /\ \A q \in Requests : q # r => request'[q] = request[q]
BY DEF Collection!Handler, Collection!Final

LEMMA HandlersGo ==
    ASSUME HandlersOK, NEW r \in Requests, Handle(r)
    PROVE  HandlerKeeps(r)
<1>0. /\ request \in [Requests -> Collection!Handler] /\ request[r] \in Collection!Handler
      /\ pairs \in [Messages -> Seq(Collection!Signer)] /\ MsgOf[r] \in Messages
      /\ pairs[MsgOf[r]] \in Seq(Collection!Signer) /\ Len(pairs[MsgOf[r]]) \in Nat
      /\ KeyOf[r] \in Collection!Signer /\ Collection!Signer \in SUBSET Nat
      /\ Kept(request[r].pc) => MsgOf[r] \in messages
  BY HandlersAssumption, LenProperties DEF HandlersOK, Collection!Signer
<1>1. Collection!Handle(r) /\ UNCHANGED <<service, txs, hooked, bounded>>
  BY DEF Handle
<1>2. \A pc \in HandlerPcs : Collection!GoTo(r, pc) =>
         /\ request' \in [Requests -> Collection!Handler] /\ request'[r].pc = pc
         /\ \A q \in Requests : q # r => request'[q] = request[q]
  BY <1>0, HandlerGoes
<1>3. \A pc \in HandlerPcs, n \in Nat : request' = [request EXCEPT ![r].pc = pc, ![r].total = n] =>
         /\ request' \in [Requests -> Collection!Handler] /\ request'[r].pc = pc
         /\ \A q \in Requests : q # r => request'[q] = request[q]
  BY <1>0, HandlerCounts
<1> USE DEF HandlerKeeps, Kept, Collection!At, Collection!tables, Collection!Final,
           chain, HandlerPcs
<1>5. CASE Collection!IsPresent(r) \/ Collection!Add(r) \/ Collection!Get(r) \/ Collection!ContainSignature(r)
  BY <1>0, <1>1, <1>2, <1>5
     DEF Collection!IsPresent, Collection!Add, Collection!Get, Collection!ContainSignature
<1>6. CASE Collection!EnsureCorrectKeyPurpose(r) \/ Collection!EnsureNotSent(r)
  BY <1>0, <1>1, <1>2, <1>6 DEF Collection!EnsureCorrectKeyPurpose, Collection!EnsureNotSent
<1>7. CASE Collection!AddSignature(r)
  <2>1. Append(pairs[MsgOf[r]], KeyOf[r]) \in Seq(Collection!Signer)
    BY <1>0, AppendProperties
  <2>2. pairs' \in [Messages -> Seq(Collection!Signer)]
    BY <1>0, <1>7, <2>1 DEF Collection!AddSignature
  <2>3. QED
    BY <1>0, <1>1, <1>2, <1>7, <2>2 DEF Collection!AddSignature
<1>8. CASE \/ Collection!CountSignatures(r, "count", "isEnough")
           \/ Collection!CountSignatures(r, "recount", "recheck")
  BY <1>0, <1>1, <1>3, <1>8 DEF Collection!CountSignatures
<1>9. CASE \/ Collection!IsEnoughSignatures(r, "isEnough", "collect", "collecting")
           \/ Collection!IsEnoughSignatures(r, "recheck", "enqueue", "rejected")
  BY <1>0, <1>1, <1>2, <1>9 DEF Collection!IsEnoughSignatures
<1>10. CASE Collection!GetMessageWithSignatures(r)
  <2>1. PICK sigs \in Collection!SortedByKey(pairs[MsgOf[r]]) :
           request' = [request EXCEPT ![r].pc = "ensureNotSent", ![r].sigs = sigs]
    BY <1>10 DEF Collection!GetMessageWithSignatures
  <2>2. sigs \in Seq(Collection!Signer)
    BY <1>0, <2>1, SortedIsTyped
  <2>3. /\ request' \in [Requests -> Collection!Handler] /\ request'[r].pc = "ensureNotSent"
        /\ \A q \in Requests : q # r => request'[q] = request[q]
    BY <1>0, <2>1, <2>2, HandlerCollects
  <2>4. QED
    BY <1>0, <1>1, <1>10, <2>3 DEF Collection!GetMessageWithSignatures
<1>11. CASE Collection!Enqueue(r)
  <2>1. request[r].sigs \in Seq(Nat)
    <3>1. request[r].sigs \in Seq(Collection!Signer)
      BY <1>0 DEF Collection!Handler
    <3>2. request[r].sigs \in [1..Len(request[r].sigs) -> Nat] /\ Len(request[r].sigs) \in Nat
      BY <1>0, <3>1, LenProperties, ElementOfSeq
    <3>3. QED
      BY <3>2, SeqDef
  <2>2. CASE MsgOf[r] \in Queued
    BY <1>0, <1>1, <1>2, <1>11, <2>2 DEF Collection!Enqueue, Collection!Queued, Queued
  <2>3. CASE MsgOf[r] \notin Queued
    <3>1. QueueRow(MsgOf[r], request[r].sigs) /\ Collection!GoTo(r, "queued")
      BY <1>1, <1>11, <2>3
         DEF Collection!Enqueue, Collection!Queued, Queued, QueueRow, Collection!NewRow
    <3>2. QED
      BY <1>0, <1>1, <1>2, <1>11, <2>1, <3>1 DEF Collection!Enqueue
  <2>4. QED
    BY <2>2, <2>3
<1>12. QED
  BY <1>1, <1>5, <1>6, <1>7, <1>8, <1>9, <1>10, <1>11 DEF Collection!Handle

(* The other steps are those of the queue, which leave the handlers alone, but   *)
(* for a crash; a loop is started only when there is none.                       *)
QueueGoes ==
    /\ [QueueNext]_vars
    /\ \/ UNCHANGED loop \/ Crash
       \/ \E l \in Loops : Step(l) \/ Throws(l)
       \/ FirstStart

LEMMA BackstageGoes ==
    ASSUME HandlersOK, Backstage
    PROVE  /\ QueueNext /\ QueueGoes
           /\ UNCHANGED <<messages, pairs>>
           /\ \A r \in Requests : request'[r].pc = "lost" \/ request'[r] = request[r]
           /\ request' \in [Requests -> Collection!Handler]
<1>1. ASSUME NEW l \in Loops, RunLoop(l) PROVE QueueNext /\ QueueGoes /\ UNCHANGED handlers
  BY <1>1 DEF RunLoop, QueueNext, QueueGoes
<1>2. ASSUME NEW l \in Loops, Throws(l), UNCHANGED handlers PROVE QueueNext /\ QueueGoes
  BY <1>2 DEF QueueNext, QueueGoes
<1>3. ASSUME StartService PROVE QueueNext /\ QueueGoes /\ UNCHANGED handlers
  BY <1>3 DEF StartService, FirstStart, QueueNext, QueueGoes
<1>4. ASSUME ProcessDies
      PROVE  /\ QueueNext /\ QueueGoes /\ UNCHANGED <<messages, pairs>>
             /\ \A r \in Requests : request'[r].pc = "lost" \/ request'[r] = request[r]
             /\ request' \in [Requests -> Collection!Handler]
  <2>1. QueueNext /\ QueueGoes /\ UNCHANGED <<messages, pairs>>
    BY <1>4 DEF ProcessDies, QueueNext, QueueGoes
  <2>2. ASSUME NEW r \in Requests
        PROVE  /\ [request[r] EXCEPT !.pc = "lost"] \in Collection!Handler
               /\ [request[r] EXCEPT !.pc = "lost"].pc = "lost"
    BY <2>2 DEF HandlersOK, Collection!Handler, Collection!Final
  <2>3. /\ \A r \in Requests : request[r] \in Collection!Handler
        /\ DOMAIN request' = Requests
        /\ \A r \in Requests : request'[r] = request[r] \/ request'[r] = [request[r] EXCEPT !.pc = "lost"]
    BY <1>4 DEF HandlersOK, ProcessDies
  <2>4. request' \in [Requests -> Collection!Handler]
    <3>1. \A r \in Requests : request'[r] \in Collection!Handler
      BY <2>2, <2>3
    <3>2. request' = [r \in Requests |-> request'[r]]
      BY <1>4 DEF ProcessDies
    <3>3. QED
      BY <3>1, <3>2
  <2>5. QED
    BY <2>1, <2>2, <2>3, <2>4
<1>5. ASSUME Mine \/ ForeignExecution PROVE QueueNext /\ QueueGoes
  BY <1>5 DEF QueueNext, QueueGoes, Mine, ForeignExecution, service
<1>6. ASSUME UNCHANGED handlers
      PROVE  /\ UNCHANGED <<messages, pairs>>
             /\ \A r \in Requests : request'[r].pc = "lost" \/ request'[r] = request[r]
             /\ request' \in [Requests -> Collection!Handler]
  BY <1>6 DEF handlers, HandlersOK
<1>7. QED
  BY <1>1, <1>2, <1>3, <1>4, <1>5, <1>6 DEF Backstage, Environment

(* Nothing but a handler adds a row: the rest records an outcome of a loop.      *)
RecordsSuccess(l) ==
    /\ At(l, "markSuccess")
    /\ finalMessages' = [finalMessages EXCEPT ![loop[l].row].tx = loop[l].tx]

LEMMA BackstageRows ==
    ASSUME Backstage
    PROVE  UNCHANGED finalMessages \/ \E l \in Loops : RecordsSuccess(l) \/ MarkAsError(l)
<1>1. ASSUME NEW l \in Loops, Step(l)
      PROVE  UNCHANGED finalMessages \/ RecordsSuccess(l) \/ MarkAsError(l)
  BY <1>1 DEF Step, GetNext, NoNext, Wake, Validate, Send, WaitForTransaction, RunHooks, SetTransactionHash,
              MarkAsSuccess, RecordsSuccess
<1>2. ASSUME NEW l \in Loops, Throws(l) PROVE UNCHANGED finalMessages \/ RecordsSuccess(l)
  BY <1>2 DEF Throws, RecordsSuccess
<1>3. StartService \/ ProcessDies => UNCHANGED finalMessages
  BY DEF StartService, FirstStart, Start, ProcessDies, Crash
<1>4. Mine \/ ForeignExecution => UNCHANGED finalMessages
  BY DEF Mine, ForeignExecution
<1>5. QED
  BY <1>1, <1>2, <1>3, <1>4 DEF Backstage, RunLoop, Environment

(* The row of an outcome, before and after.                                      *)
LEMMA OutcomeOfRow ==
    ASSUME TypeOK, LoopsOK, NEW l \in Loops, RecordsSuccess(l) \/ MarkAsError(l)
    PROVE  LET i == loop[l].row
               new == finalMessages'[i]
           IN  /\ Busy(l) /\ i \in DOMAIN finalMessages /\ DOMAIN finalMessages' = DOMAIN finalMessages
               /\ new.message = finalMessages[i].message
               /\ \A k \in DOMAIN finalMessages : k # i => finalMessages'[k] = finalMessages[k]
               /\ RecordsSuccess(l) => new.tx # 0 /\ new.error = finalMessages[i].error
               /\ MarkAsError(l) => new.error
<1>1. /\ Busy(l) /\ (RecordsSuccess(l) => HasSent(l))
      /\ finalMessages \in Seq(Row) /\ loop[l].row \in DOMAIN finalMessages
  BY RowOfLoop DEF RecordsSuccess, MarkAsError, At, Busy, HasSent, TypeOK
<1>2. ASSUME HasSent(l) PROVE loop[l].tx \in Nat /\ loop[l].tx # 0
  <2>1. loop[l].tx \in 1..Len(txs) /\ Len(txs) \in Nat
    BY <1>2, LenProperties DEF LoopsOK, TypeOK
  <2>2. QED
    BY <2>1
<1>3. CASE RecordsSuccess(l)
  <2>1. finalMessages' = [finalMessages EXCEPT ![loop[l].row].tx = loop[l].tx]
    BY <1>3 DEF RecordsSuccess
  <2>2. ~MarkAsError(l)
    BY <1>3 DEF RecordsSuccess, MarkAsError, At
  <2>3. QED
    BY <1>1, <1>2, <1>3, <2>1, <2>2, RowSucceeds
<1>4. CASE MarkAsError(l)
  <2>1. finalMessages' = [finalMessages EXCEPT ![loop[l].row].error = TRUE]
    BY <1>4 DEF MarkAsError
  <2>2. ~RecordsSuccess(l)
    BY <1>4 DEF RecordsSuccess, MarkAsError, At
  <2>3. QED
    BY <1>1, <1>4, <2>1, <2>2, RowFails
<1>5. QED
  BY <1>3, <1>4

LEMMA BackstageQueues == ASSUME TypeOK, LoopsOK, Backstage PROVE Queued' = Queued
BY BackstageRows, OutcomeOfRow DEF Queued

(* A message stays in the table of messages, where its handlers have put it.     *)
LEMMA HandlersStayOK ==
    ASSUME TypeOK, LoopsOK, HandlersOK, [RelayerNext]_allVars
    PROVE  HandlersOK'
<1>1. ASSUME NEW r \in Requests, Handle(r) PROVE HandlersOK'
  <2>1. HandlerKeeps(r) /\ MsgOf[r] \in Messages /\ finalMessages \in Seq(Row)
    BY <1>1, HandlersGo, HandlersAssumption DEF TypeOK
  <2>2. Queued' \subseteq messages'
    <3>1. ASSUME NEW sigs \in Seq(Nat), QueueRow(MsgOf[r], sigs), request[r].pc = "enqueue"
          PROVE  Queued' \subseteq messages'
      <4>1. Queued' \subseteq Queued \cup {MsgOf[r]}
        BY <2>1, <3>1, RowIsAdded DEF Queued
      <4>2. QED
        BY <2>1, <3>1, <4>1 DEF HandlersOK, HandlerKeeps, Kept
    <3>2. UNCHANGED finalMessages => Queued' = Queued
      BY DEF Queued
    <3>3. QED
      BY <2>1, <3>1, <3>2 DEF HandlersOK, HandlerKeeps
  <2>3. \A q \in Requests : Kept(request'[q].pc) => MsgOf[q] \in messages'
    BY <2>1 DEF HandlersOK, HandlerKeeps
  <2>4. QED
    BY <2>1, <2>2, <2>3 DEF HandlersOK, HandlerKeeps
<1>2. CASE Backstage
  BY <1>2, BackstageGoes, BackstageQueues DEF HandlersOK, Kept
<1>3. CASE UNCHANGED allVars
  BY <1>3 DEF allVars, vars, handlers, HandlersOK, Queued
<1>4. QED
  BY <1>1, <1>2, <1>3 DEF RelayerNext

LEMMA RelayerGoes ==
    ASSUME HandlersOK, [RelayerNext]_allVars
    PROVE  QueueGoes
<1>1. ASSUME NEW r \in Requests, Handle(r) PROVE QueueGoes
  <2>1. HandlerKeeps(r) /\ MsgOf[r] \in Messages
    BY <1>1, HandlersGo, HandlersAssumption
  <2>2. UNCHANGED finalMessages => UNCHANGED vars
    BY <2>1 DEF HandlerKeeps, vars, service, chain, bounded
  <2>3. UNCHANGED loop
    BY <2>1 DEF HandlerKeeps, service
  <2>4. QED
    BY <2>1, <2>2, <2>3 DEF QueueGoes, QueueNext, HandlerKeeps
<1>2. CASE Backstage
  BY <1>2, BackstageGoes
<1>3. CASE UNCHANGED allVars
  BY <1>3 DEF allVars, QueueGoes, vars
<1>4. QED
  BY <1>1, <1>2, <1>3 DEF RelayerNext

--------------------------------------------------------------------------------
(* One loop stays one loop, and works at an open row.                            *)
LEMMA LoopsStayAlone ==
    ASSUME TypeOK, OneLoop, QueueGoes
    PROVE  OneLoop'
<1>1. CASE UNCHANGED loop
  BY <1>1 DEF OneLoop, At
<1>2. CASE Crash
  BY <1>2 DEF Crash, Idle, OneLoop, At
<1>3. ASSUME NEW l \in Loops, Step(l) \/ Throws(l) PROVE OneLoop'
  <2>1. ~At(l, "none")
    BY <1>3 DEF Step, Throws, GetNext, NoNext, Wake, Validate, Send, WaitForTransaction, RunHooks,
                SetTransactionHash, MarkAsSuccess, MarkAsError, At
  <2>2. \A k \in Loops : k # l => At(k, "none")
    BY <2>1 DEF OneLoop
  <2>3. \A k \in Loops : k # l => At(k, "none")'
    BY <1>3, <2>2, OthersRest DEF At
  <2>4. QED
    BY <2>3 DEF OneLoop
<1>4. CASE FirstStart
  <2>1. PICK l \in Loops : Start(l)
    BY <1>4 DEF FirstStart
  <2>2. \A k \in Loops : k # l => At(k, "none")'
    BY <1>4, <2>1, OthersRest DEF At, FirstStart
  <2>3. QED
    BY <2>2 DEF OneLoop
<1>5. QED
  BY <1>1, <1>2, <1>3, <1>4 DEF QueueGoes

(* A loop with a row took it before, or takes it now.                            *)
LEMMA RowStaysOpen ==
    ASSUME TypeOK, LoopsOK, LoopWorksAlone, QueueNext, OneLoop'
    PROVE  LoopWorksAlone'
<1> SUFFICES ASSUME NEW l \in Loops, Working(l)' PROVE ~Resolved(Current(l)')
  BY DEF LoopWorksAlone
<1>0. RowsEvolve /\ LoopsEvolve /\ Busy(l)' /\ loop'[l].pc # "markError"
  BY EveryStepEvolvesRows, EveryStepEvolvesLoops DEF Working, At
<1>1. CASE ~Busy(l)
  <2>1. loop'[l].row = Min(Unresolved) /\ Unresolved # {} /\ finalMessages' = finalMessages
    BY <1>0, <1>1 DEF LoopsEvolve
  <2>2. QED
    BY <2>1, UnresolvedRow DEF TypeOK, Current
<1>2. CASE Busy(l)
  <2>1. ~At(l, "markError")
    <3>1. ASSUME At(l, "markError"), Step(l) PROVE FALSE
      <4>1. MarkAsError(l)
        BY <3>1 DEF Step, GetNext, NoNext, Wake, Validate, Send, WaitForTransaction, RunHooks,
                    SetTransactionHash, MarkAsSuccess, At
      <4>2. ~Busy(l)'
        BY <4>1, LoopGoes DEF MarkAsError, NextIteration, TypeOK, Busy, Pcs
      <4>3. QED
        BY <1>0, <4>2
    <3>2. ~Crash
      BY <1>0 DEF Crash, Busy, Idle
    <3>3. At(l, "markError") => ~Start(l) /\ ~Throws(l)
      BY DEF Start, Throws, At
    <3>4. QED
      BY <1>0, <3>1, <3>2, <3>3, OwnSteps DEF At
  <2>2. loop'[l].row = loop[l].row /\ loop[l].row \in DOMAIN finalMessages /\ ~Resolved(Current(l))
    BY <1>0, <1>2, <2>1 DEF LoopsEvolve, LoopsOK, LoopWorksAlone, Working
  <2>3. ASSUME Resolved(Current(l)') PROVE FALSE
    <3>1. finalMessages'[loop[l].row] = Current(l)'
      BY <2>2 DEF Current
    <3>2. PICK k \in Loops : Busy(k) /\ (Busy(k)' => loop'[k].pc = "markError")
      BY <1>0, <2>2, <2>3, <3>1 DEF RowsEvolve, Current
    <3>3. k = l
      BY <1>2, <3>2 DEF LoopWorksAlone, OneLoop, Busy, At
    <3>4. QED
      BY <1>0, <3>2, <3>3
  <2>4. QED
    BY <2>3
<1>3. QED
  BY <1>1, <1>2

(* What the transactions keep.                                                   *)
LEMMA TransactionsStay ==
    ASSUME TypeOK, LoopsOK, QueueNext
    PROVE  /\ DOMAIN txs \subseteq DOMAIN txs'
           /\ \A t \in DOMAIN txs : /\ txs'[t].message = txs[t].message /\ txs'[t].sigs = txs[t].sigs
                                    /\ Ok(t) => Ok(t)'
           /\ \A t \in DOMAIN txs' : t \in DOMAIN txs \/
                 \E l \in Loops : Sends(l) /\ txs'[t].message = Current(l).message
<1>1. ASSUME NEW l \in Loops, Sends(l)
      PROVE  /\ DOMAIN txs \subseteq DOMAIN txs' /\ \A t \in DOMAIN txs : txs'[t] = txs[t]
             /\ \A t \in DOMAIN txs' : t \in DOMAIN txs \/ txs'[t].message = Current(l).message
  <2>1. txs \in Seq(Tx) /\ Current(l) \in Row /\ txs' = Append(txs, NewTx(Current(l)))
    BY <1>1, RowOfLoop DEF Sends, At, Busy, TypeOK
  <2>2. QED
    BY <2>1, TransactionIsSent
<1>2. ASSUME NEW u \in DOMAIN txs, NEW status \in {"ok", "reverted"}, MinedAs(u, status)
      PROVE  /\ DOMAIN txs' = DOMAIN txs
             /\ \A t \in DOMAIN txs : /\ txs'[t].message = txs[t].message /\ txs'[t].sigs = txs[t].sigs
                                      /\ Ok(t) => Ok(t)'
  BY <1>2, MinedEntries DEF Ok
<1>3. QED
  BY <1>1, <1>2, TransactionsEvolve DEF ForeignExecution, Ok

LEMMA StillSentInTurn ==
    ASSUME QueueInv, SentInTurn, QueueNext
    PROVE  SentInTurn'
<1> USE DEF QueueInv
<1>0. RowsEvolve /\ finalMessages \in Seq(Row) /\ DOMAIN finalMessages = 1..Len(finalMessages)
      /\ Len(finalMessages) \in Nat
  BY EveryStepEvolvesRows, LenProperties DEF TypeOK
<1>1. ASSUME NEW i \in DOMAIN finalMessages, \A j \in 1..(i - 1) : Resolved(finalMessages[j])
      PROVE  /\ i \in DOMAIN finalMessages' /\ finalMessages'[i].message = finalMessages[i].message
             /\ \A j \in 1..(i - 1) : Resolved(finalMessages'[j])
  <2>1. \A j \in 1..(i - 1) : j \in DOMAIN finalMessages
    BY <1>0
  <2>2. QED
    BY <1>0, <1>1, <2>1 DEF RowsEvolve
<1>2. ASSUME NEW t \in DOMAIN txs'
      PROVE  \E i \in DOMAIN finalMessages : /\ finalMessages[i].message = txs'[t].message
                                             /\ \A j \in 1..(i - 1) : Resolved(finalMessages[j])
  <2>1. CASE t \in DOMAIN txs
    BY <2>1, TransactionsStay DEF SentInTurn
  <2>2. CASE t \notin DOMAIN txs
    <3>1. PICK l \in Loops : Sends(l) /\ txs'[t].message = Current(l).message
      BY <2>2, TransactionsStay
    <3>2. loop[l].row \in DOMAIN finalMessages /\ \A j \in 1..(loop[l].row - 1) : Resolved(finalMessages[j])
      BY <3>1, RowOfLoop DEF Sends, At, Busy, NoneOvertaken
    <3>3. QED
      BY <3>1, <3>2 DEF Current
  <2>3. QED
    BY <2>1, <2>2
<1>3. QED
  BY <1>1, <1>2 DEF SentInTurn

(* What is decided stays so.                                                     *)
LEMMA DecidedStays ==
    ASSUME QueueInv, QueueNext, NEW m, Decided(m)
    PROVE  Decided(m)'
<1>1. PICK p \in Messages : Executed(p) # {} /\ NonceOf[p] = NonceOf[m] /\ (p = m \/ Failed(p))
  BY DEF Decided
<1>2. Executed(p)' # {}
  <2>1. PICK t \in DOMAIN txs : txs[t].message = p /\ txs[t].status = "ok"
    BY <1>1 DEF Executed
  <2>2. t \in DOMAIN txs' /\ txs'[t].message = p /\ txs'[t].status = "ok"
    BY <2>1, TransactionsStay DEF Ok, QueueInv
  <2>3. QED
    BY <2>2 DEF Executed
<1>3. Failed(p) => Failed(p)'
  BY EveryStepEvolvesRows DEF QueueInv, Failed, RowsEvolve
<1>4. QED
  BY <1>1, <1>2, <1>3 DEF Decided

(* A transaction that takes the nonce of a message in work decides about it: it  *)
(* is its own, or that of a message before it, which has failed.                 *)
LEMMA WinnerDecides ==
    ASSUME QueueInv, LoopWorksAlone, SentInTurn, SuccessIsDecided,
           NEW l \in Loops, Working(l), NEW m, m = Current(l).message,
           NEW u \in DOMAIN txs, MinedAs(u, "ok"), NonceOfTx(u) = NonceOf[m]
    PROVE  Decided(m)'
<1> USE DEF QueueInv
<1>a. PICK p : p = txs[u].message
  OBVIOUS
<1>0. /\ loop[l].row \in DOMAIN finalMessages /\ ~Resolved(finalMessages[loop[l].row])
      /\ finalMessages[loop[l].row].message = m /\ finalMessages \in Seq(Row) /\ txs \in Seq(Tx)
      /\ DOMAIN finalMessages = 1..Len(finalMessages) /\ Len(finalMessages) \in Nat
      /\ NonceOf[p] = NonceOf[m]
  BY <1>a, RowOfLoop DEF Working, LoopWorksAlone, Current, TypeOK, NonceOfTx
<1>1. p \in Messages /\ NonceOf[p] = wallet.lastNonce /\ wallet.lastNonce \in Nat
  <2>1. txs[u] \in Tx
    BY <1>0, LenProperties, ElementOfSeq
  <2>2. QED
    BY <1>a, <2>1, MinedTakesTheNonce DEF Tx, NonceOfTx, TypeOK, Storage
<1>2. Executed(p)' # {}
  <2>1. u \in DOMAIN txs' /\ txs'[u].message = txs[u].message /\ txs'[u].status = "ok"
    BY MinedEntries
  <2>2. QED
    BY <1>a, <2>1 DEF Executed
<1>3. ASSUME p # m PROVE Failed(p)
  <2>1. PICK i \in DOMAIN finalMessages :
          finalMessages[i].message = p /\ \A j \in 1..(i - 1) : Resolved(finalMessages[j])
    BY <1>a DEF SentInTurn
  <2>2. i < loop[l].row
    BY <1>0, <1>3, <2>1
  <2>3. Resolved(finalMessages[i])
    BY <1>0, <2>2 DEF NoneOvertaken, Working
  <2>4. ASSUME finalMessages[i].tx # 0 PROVE FALSE
    <3>1. Decided(p)
      BY <2>1, <2>4 DEF SuccessIsDecided
    <3>2. PICK q \in Messages : Executed(q) # {} /\ NonceOf[q] = NonceOf[p]
      BY <3>1 DEF Decided
    <3>3. PICK t \in DOMAIN txs : txs[t].message = q /\ Ok(t)
      BY <3>2 DEF Executed, Ok
    <3>4. NonceOf[q] < wallet.lastNonce
      BY <3>3 DEF NoncesSpent, NonceOfTx
    <3>5. QED
      BY <1>1, <3>2, <3>4
  <2>5. QED
    BY <2>1, <2>3, <2>4 DEF Resolved, Failed
<1>4. ASSUME p # m PROVE Failed(p)'
  BY <1>3, <1>4, MinedEntries DEF Failed
<1>5. QED
  BY <1>0, <1>1, <1>2, <1>4 DEF Decided

(* What fits goes on to, until it is decided about, while nobody else uses the   *)
(* wallet.                                                                       *)
LEMMA FitsUntilDecided ==
    ASSUME QueueInv, LoopWorksAlone, SentInTurn, SuccessIsDecided, QueueNext, foreign' = 0,
           NEW l \in Loops, Working(l), NEW m, m = Current(l).message, NEW sigs, Fits(m, sigs)
    PROVE  Decided(m)' \/ Fits(m, sigs)'
<1>1. CASE UNCHANGED wallet
  BY <1>1 DEF Fits
<1>2. ASSUME NEW u \in DOMAIN txs, MinedAs(u, "ok") PROVE Decided(m)'
  <2>1. NonceOfTx(u) = NonceOf[m]
    BY <1>2, MinedTakesTheNonce DEF Fits, ExecuteSignedAllowed, QueueInv
  <2>2. QED
    BY <1>2, <2>1, WinnerDecides
<1>3. ~ForeignExecution
  BY DEF ForeignExecution, QueueInv, TypeOK
<1>4. QED
  BY <1>1, <1>2, <1>3, TransactionsEvolve DEF Sends, MinedAs, QueueInv

LEMMA FoundStaysSound ==
    ASSUME QueueInv, LoopWorksAlone, SentInTurn, SuccessIsDecided, FoundIsSound, QueueNext,
           foreign' = 0, foreign = 0
    PROVE  FoundIsSound'
<1> USE DEF QueueInv
<1>0. RowsEvolve /\ LoopsEvolve
  BY EveryStepEvolvesRows, EveryStepEvolvesLoops
<1>1. ASSUME NEW l \in Loops, Busy(l), Busy(l)'
      PROVE  /\ Current(l)'.message = Current(l).message /\ Current(l)'.sigs = Current(l).sigs
             /\ loop'[l].row = loop[l].row
  BY <1>0, <1>1, RowOfLoop DEF RowsEvolve, LoopsEvolve, Current
<1>2. ASSUME NEW l \in Loops, NEW m, m = Current(l)'.message, NEW sigs, sigs = Current(l)'.sigs, At(l, "send")'
      PROVE  Decided(m)' \/ Fits(m, sigs)'
  <2>0. /\ Busy(l) => m = Current(l).message /\ sigs = Current(l).sigs
        /\ \/ loop'[l] = loop[l] /\ At(l, "send")
           \/ Validate(l)
    BY <1>1, <1>2, OwnSteps, Arrivals DEF At, Busy, Crash, Idle
  <2>1. CASE Validate(l)
    <3>1. Executable(Current(l)) /\ UNCHANGED wallet /\ Busy(l)
      BY <1>2, <2>1, LoopGoes DEF Validate, At, Busy, TypeOK, Pcs, chain
    <3>2. QED
      BY <2>0, <3>1 DEF Executable, Fits
  <2>2. CASE At(l, "send")
    <3>1. /\ Working(l) /\ m = Current(l).message
          /\ Decided(m) \/ Fits(m, sigs)
      BY <2>0, <2>2 DEF FoundIsSound, Found, Working, Busy, At
    <3>2. QED
      BY <3>1, DecidedStays, FitsUntilDecided
  <2>3. QED
    BY <2>0, <2>1, <2>2
<1>3. ASSUME NEW l \in Loops, NEW m, m = Current(l)'.message, NEW sigs, sigs = Current(l)'.sigs, At(l, "wait")'
      PROVE  \/ Decided(m)'
             \/ LET tx == txs'[loop'[l].tx]
                IN  tx.status = "pending" /\ tx.sigs = sigs /\ Fits(m, sigs)'
  <2>0. /\ Busy(l) => m = Current(l).message /\ sigs = Current(l).sigs
        /\ \/ loop'[l] = loop[l] /\ At(l, "wait")
           \/ Send(l)
    BY <1>1, <1>3, OwnSteps, Arrivals DEF At, Busy, Crash, Idle
  <2>1. CASE Send(l)
    <3>1. Busy(l) /\ (Decided(m) \/ Fits(m, sigs))
      BY <2>0, <2>1 DEF Send, FoundIsSound, Found, At, Busy
    <3>2. /\ loop'[l].tx = Len(txs) + 1 /\ UNCHANGED wallet
          /\ txs'[Len(txs) + 1].status = "pending" /\ txs'[Len(txs) + 1].sigs = Current(l).sigs
      BY <2>1, QuietSend
    <3>3. Fits(m, sigs) => Fits(m, sigs)'
      BY <3>2 DEF Fits
    <3>4. QED
      BY <2>0, <3>1, <3>2, <3>3, DecidedStays
  <2>2. CASE At(l, "wait") /\ loop'[l] = loop[l]
    <3> DEFINE t == loop[l].tx
    <3>1. /\ Working(l) /\ m = Current(l).message /\ sigs = Current(l).sigs
          /\ t \in DOMAIN txs /\ txs[t].message = m
          /\ Decided(m) \/ (txs[t].status = "pending" /\ txs[t].sigs = sigs /\ Fits(m, sigs))
      BY <2>0, <2>2 DEF FoundIsSound, Found, Working, Busy, HasSent, At, LoopsOK
    <3>2. CASE Decided(m)
      BY <3>2, DecidedStays
    <3>3. CASE txs[t].status = "pending" /\ txs[t].sigs = sigs /\ Fits(m, sigs)
      <4>1. Decided(m)' \/ Fits(m, sigs)'
        BY <3>1, <3>3, FitsUntilDecided
      <4>2. ASSUME txs'[t].status # "pending" PROVE Decided(m)'
        <5>1. PICK u \in DOMAIN txs, status \in {"ok", "reverted"} : MinedAs(u, status)
          <6>1. ASSUME NEW k \in Loops, Sends(k) PROVE txs'[t] = txs[t]
            BY <3>1, <6>1, RowOfLoop, TransactionIsSent DEF Sends, At, Busy, TypeOK
          <6>2. QED
            BY <3>3, <4>2, <6>1, TransactionsEvolve DEF ForeignExecution
        <5>2. u = t /\ txs'[t].status = status
          BY <3>1, <3>3, <4>2, <5>1, MinedEntries
        <5>3. status = "ok"
          BY <3>1, <3>3, <5>1, <5>2 DEF MinedAs
        <5>4. NonceOfTx(u) = NonceOf[m]
          BY <3>1, <5>2 DEF NonceOfTx
        <5>5. QED
          BY <3>1, <5>1, <5>2, <5>3, <5>4, WinnerDecides
      <4>3. txs'[t].sigs = sigs /\ loop'[l].tx = t
        BY <2>2, <3>1, <3>3, TransactionsStay
      <4>4. QED
        BY <4>1, <4>2, <4>3
    <3>4. QED
      BY <3>1, <3>2, <3>3
  <2>3. QED
    BY <2>0, <2>1, <2>2
<1>4. ASSUME NEW l \in Loops, NEW m, m = Current(l)'.message, loop'[l].pc \in {"hooks", "setHash", "markSuccess"}
      PROVE  Decided(m)'
  <2>1. \/ loop'[l] = loop[l] /\ loop[l].pc \in {"hooks", "setHash", "markSuccess"}
        \/ WaitForTransaction(l) \/ RunHooks(l) \/ SetTransactionHash(l)
    BY <1>4, OwnSteps, Arrivals DEF Crash, Idle
  <2>2. Busy(l) /\ Busy(l)'
    BY <1>4, <2>1 DEF Busy, At, WaitForTransaction, RunHooks, SetTransactionHash
  <2>3. m = Current(l).message
    BY <1>1, <1>4, <2>2
  <2>4. Decided(m)
    <3>1. CASE WaitForTransaction(l)
      BY <2>3, <3>1 DEF WaitForTransaction, FoundIsSound, Found
    <3>2. CASE loop[l].pc \in {"hooks", "setHash", "markSuccess"}
      BY <2>3, <3>2 DEF FoundIsSound, Found
    <3>3. QED
      BY <2>1, <3>1, <3>2 DEF RunHooks, SetTransactionHash, At
  <2>5. QED
    BY <2>4, DecidedStays
<1>5. QED
  <2> SUFFICES ASSUME NEW l \in Loops PROVE Found(l)'
    BY DEF FoundIsSound
  <2>1. PICK m, sigs : m = Current(l)'.message /\ sigs = Current(l)'.sigs
    OBVIOUS
  <2>2. /\ At(l, "send")' => Decided(m)' \/ Fits(m, sigs)'
        /\ At(l, "wait")' =>
              \/ Decided(m)'
              \/ LET tx == txs'[loop'[l].tx]
                 IN  tx.status = "pending" /\ tx.sigs = sigs /\ Fits(m, sigs)'
        /\ loop'[l].pc \in {"hooks", "setHash", "markSuccess"} => Decided(m)'
    BY <1>2, <1>3, <1>4, <2>1
  <2>3. QED
    BY <2>1, <2>2 DEF Found, Decided, Fits

LEMMA SuccessStaysDecided ==
    ASSUME QueueInv, FoundIsSound, SuccessIsDecided, QueueNext
    PROVE  SuccessIsDecided'
<1> SUFFICES ASSUME NEW i \in DOMAIN finalMessages', finalMessages'[i].tx # 0,
                    NEW m, m = finalMessages'[i].message
             PROVE  Decided(m)'
  <2>1. ASSUME NEW i \in DOMAIN finalMessages', finalMessages'[i].tx # 0
        PROVE  Decided(finalMessages[i].message)'
    <3>1. PICK m : m = finalMessages'[i].message
      OBVIOUS
    <3>2. Decided(m)'
      BY <2>1, <3>1
    <3>3. QED
      BY <3>1, <3>2 DEF Decided
  <2>2. QED
    BY <2>1 DEF SuccessIsDecided
<1>1. RowsEvolve
  BY EveryStepEvolvesRows DEF QueueInv
<1>2. i \in DOMAIN finalMessages /\ m = finalMessages[i].message
  BY <1>1 DEF RowsEvolve, Resolved
<1>3. CASE finalMessages[i].tx # 0
  BY <1>2, <1>3, DecidedStays DEF SuccessIsDecided
<1>4. CASE finalMessages[i].tx = 0
  <2>1. PICK l \in Loops : loop[l].row = i /\ At(l, "markSuccess")
    BY <1>1, <1>2, <1>4 DEF RowsEvolve
  <2>2. Decided(m)
    BY <1>2, <2>1 DEF FoundIsSound, Found, At, Current
  <2>3. QED
    BY <2>2, DecidedStays
<1>5. QED
  BY <1>3, <1>4

LEMMA ContestStep ==
    ASSUME QueueInv, ContestInv, QueueGoes
    PROVE  ContestInv'
<1>1. CASE QueueNext
  <2>1. LoopWorksAlone'
    BY <1>1, LoopsStayAlone, RowStaysOpen DEF QueueInv, ContestInv, LoopWorksAlone
  <2>2. SentInTurn'
    BY <1>1, StillSentInTurn DEF ContestInv
  <2>3. ASSUME foreign' = 0 PROVE FoundIsSound' /\ SuccessIsDecided'
    <3>1. foreign = 0
      BY <1>1, <2>3, FaultsGrow DEF QueueInv, TypeOK
    <3>2. QED
      BY <1>1, <2>3, <3>1, FoundStaysSound, SuccessStaysDecided DEF ContestInv
  <2>4. QED
    BY <2>1, <2>2, <2>3 DEF ContestInv
<1>2. CASE UNCHANGED vars
  <2>1. UNCHANGED <<finalMessages, transactionHash, loop, txs, wallet, foreign>>
    BY <1>2 DEF vars
  <2>2. LoopWorksAlone' /\ SentInTurn'
    BY <2>1 DEF ContestInv, LoopWorksAlone, SentInTurn, OneLoop, Working, Busy, At, Current, Resolved
  <2>3. FoundIsSound => FoundIsSound'
    BY <2>1 DEF FoundIsSound, Found, Decided, Failed, Executed, Fits, At, Current
  <2>4. SuccessIsDecided => SuccessIsDecided'
    BY <2>1 DEF SuccessIsDecided, Decided, Failed, Executed
  <2>5. QED
    BY <2>1, <2>2, <2>3, <2>4 DEF ContestInv
<1>3. QED
  BY <1>1, <1>2 DEF QueueGoes

LEMMA RelayerStarts == RelayerInit => RelayerInv
<1> SUFFICES ASSUME RelayerInit PROVE RelayerInv
  OBVIOUS
<1>1. QueueInv
  BY QueueInit DEF RelayerInit
<1>2. ContestInv
  BY DEF RelayerInit, Init, Idle, ContestInv, LoopWorksAlone, OneLoop, SentInTurn, FoundIsSound, Found,
         SuccessIsDecided, Working, Busy, At
<1>3. HandlersOK
  <2>1. <<>> \in Seq(Collection!Signer)
    BY EmptySeq
  <2>2. [pc |-> "isPresent", total |-> 0, sigs |-> <<>>] \in Collection!Handler
    BY <2>1 DEF Collection!Handler
  <2>3. messages = {} /\ finalMessages = <<>> /\ Queued = {}
    BY DEF RelayerInit, Collection!Init, Queued
  <2>4. QED
    BY <2>1, <2>2, <2>3 DEF RelayerInit, Collection!Init, HandlersOK, Kept
<1>4. QED
  BY <1>1, <1>2, <1>3 DEF RelayerInv

LEMMA RelayerStep == RelayerInv /\ [RelayerNext]_allVars => RelayerInv'
<1> SUFFICES ASSUME RelayerInv, [RelayerNext]_allVars PROVE RelayerInv'
  OBVIOUS
<1>1. QueueGoes
  BY RelayerGoes DEF RelayerInv
<1>2. QueueInv'
  BY <1>1, QueueStep DEF RelayerInv, QueueGoes
<1>3. ContestInv'
  BY <1>1, ContestStep DEF RelayerInv
<1>4. HandlersOK'
  BY HandlersStayOK DEF RelayerInv, QueueInv
<1>5. QED
  BY <1>2, <1>3, <1>4 DEF RelayerInv

(* The invariant of the relayer: that of the queue, what decides a contest for a *)
(* nonce, and where the handlers are.                                            *)
THEOREM RelayerInvariant == RelayerSpec => []RelayerInv
BY RelayerStarts, RelayerStep, PTL DEF RelayerSpec

--------------------------------------------------------------------------------
LEMMA RowOfMessage ==
    ASSUME NEW rows, NEW i \in DOMAIN rows,
           \A j, k \in DOMAIN rows : rows[j].message = rows[k].message => j = k
    PROVE  (CHOOSE j \in DOMAIN rows : rows[j].message = rows[i].message) = i
OBVIOUS

LEMMA InvImpliesOneWinner == RelayerInv => OneWinnerPerNonce
<1> SUFFICES ASSUME RelayerInv, NEW m \in Messages, NEW n \in Messages,
                    m # n, NonceOf[m] = NonceOf[n], Executed(m) # {}
             PROVE  /\ Executed(n) = {}
                    /\ foreign = 0 /\ StatusOf(m) # "error" => StatusOf(n) # "success"
  BY DEF OneWinnerPerNonce
<1> USE DEF RelayerInv, QueueInv
<1>1. PICK t \in DOMAIN txs : txs[t].message = m /\ Ok(t)
  BY DEF Executed, Ok
<1>2. ASSUME NEW p \in Messages, NonceOf[p] = NonceOf[m], Executed(p) # {} PROVE p = m
  <2>1. PICK u \in DOMAIN txs : txs[u].message = p /\ Ok(u)
    BY <1>2 DEF Executed, Ok
  <2>2. u = t
    BY <1>1, <1>2, <2>1 DEF NoncesSpent, NonceOfTx
  <2>3. QED
    BY <1>1, <2>1, <2>2
<1>3. Executed(n) = {}
  BY <1>2
<1>4. ASSUME NEW i \in DOMAIN finalMessages PROVE RowOf(finalMessages[i].message) = finalMessages[i]
  BY RowOfMessage DEF RowOf, RowsDistinct
<1>5. ASSUME foreign = 0, StatusOf(n) = "success" PROVE StatusOf(m) = "error"
  <2>1. n \in Queued /\ RowOf(n).tx # 0
    BY <1>5 DEF StatusOf
  <2>2. Decided(n)
    BY <1>4, <1>5, <2>1 DEF ContestInv, SuccessIsDecided, Queued
  <2>3. Failed(m)
    BY <1>2, <1>3, <2>2 DEF Decided
  <2>4. m \in Queued /\ RowOf(m).error
    BY <1>4, <2>3 DEF Failed, Queued
  <2>5. QED
    BY <2>4 DEF StatusOf
<1>6. QED
  BY <1>3, <1>5

(* Of the messages that compete for a nonce at most one is executed, and the     *)
(* others do not end in success, unless somebody else uses the wallet or the     *)
(* winner is recorded as an error (ERC1077.sol:127, MessageExecutor.ts:14-16).   *)
THEOREM OneMessageWins == RelayerSpec => []OneWinnerPerNonce
BY RelayerInvariant, InvImpliesOneWinner, PTL

--------------------------------------------------------------------------------
(* The status of a message, as a function of the tables: what its row tells.     *)
Ending(row) == IF row.error THEN "error" ELSE IF row.tx # 0 THEN "success" ELSE "queued"
Distinct(rows) == \A i, j \in DOMAIN rows : rows[i].message = rows[j].message => i = j
HasRow(rows, m) == \E i \in DOMAIN rows : rows[i].message = m
Status(rows, kept, m) ==
    IF HasRow(rows, m) THEN Ending(rows[CHOOSE i \in DOMAIN rows : rows[i].message = m])
    ELSE IF m \in kept THEN "awaitSignature" ELSE "absent"

LEMMA StatusIsOfTables ==
    \A m \in Messages : /\ StatusOf(m) = Status(finalMessages, messages, m)
                        /\ StatusOf(m)' = Status(finalMessages', messages', m)
BY DEF StatusOf, Status, HasRow, Ending, RowOf, Queued

LEMMA StatusOfRow ==
    ASSUME NEW rows, Distinct(rows), NEW kept, NEW i \in DOMAIN rows
    PROVE  Status(rows, kept, rows[i].message) = Ending(rows[i])
BY RowOfMessage DEF Distinct, Status, HasRow

(* Rows that are kept keep the status of their messages.                         *)
LEMMA StatusStays ==
    ASSUME NEW rows, NEW new, NEW kept, NEW still, Distinct(rows), Distinct(new), NEW m,
           HasRow(new, m) <=> HasRow(rows, m), m \in still <=> m \in kept,
           \A i \in DOMAIN rows : rows[i].message = m => i \in DOMAIN new /\ new[i] = rows[i]
    PROVE  Status(new, still, m) = Status(rows, kept, m)
<1>1. CASE HasRow(rows, m)
  <2>1. PICK i \in DOMAIN rows : rows[i].message = m /\ i \in DOMAIN new /\ new[i] = rows[i]
    BY <1>1 DEF HasRow
  <2>2. Status(rows, kept, m) = Ending(rows[i]) /\ Status(new, still, m) = Ending(rows[i])
    BY <2>1, StatusOfRow
  <2>3. QED
    BY <2>2
<1>2. CASE ~HasRow(rows, m)
  BY <1>2 DEF Status
<1>3. QED
  BY <1>1, <1>2

(* One message goes on in its life; the others stay where they are.              *)
Successor(old, new) ==
    \/ new = old
    \/ old = "absent" /\ new = "awaitSignature"
    \/ old = "awaitSignature" /\ new = "queued"
    \/ old = "queued" /\ new \in {"success", "error"}
GoesOn(m) ==
    /\ \A n \in Messages : n # m => StatusOf(n)' = StatusOf(n)
    /\ Successor(StatusOf(m), StatusOf(m)')

LEMMA HandlerGoesOn ==
    ASSUME RelayerInv, RelayerInv', NEW r \in Requests, Handle(r)
    PROVE  GoesOn(MsgOf[r])
<1> USE DEF RelayerInv, QueueInv
<1> DEFINE m == MsgOf[r]
<1>0. HandlerKeeps(r) /\ m \in Messages /\ Distinct(finalMessages) /\ Distinct(finalMessages')
  BY HandlersGo, HandlersAssumption DEF RowsDistinct, Distinct
<1>1. CASE UNCHANGED finalMessages
  <2>1. \A n \in Messages : n # m => StatusOf(n)' = StatusOf(n)
    BY <1>0, <1>1, StatusIsOfTables DEF HandlerKeeps, Status
  <2>2. Successor(StatusOf(m), StatusOf(m)')
    <3>1. messages' = messages => StatusOf(m)' = StatusOf(m)
      BY <1>0, <1>1, StatusIsOfTables
    <3>2. messages' = messages \cup {m} =>
             StatusOf(m)' = IF StatusOf(m) = "absent" THEN "awaitSignature" ELSE StatusOf(m)
      BY <1>0, <1>1, StatusIsOfTables DEF Status, Ending
    <3>3. QED
      BY <1>0, <3>1, <3>2 DEF HandlerKeeps, Successor
  <2>3. QED
    BY <2>1, <2>2 DEF GoesOn
<1>2. ASSUME NEW sigs \in Seq(Nat), QueueRow(m, sigs), request[r].pc = "enqueue" PROVE GoesOn(m)
  <2> DEFINE k == Len(finalMessages) + 1
  <2>1. /\ m \in messages /\ ~HasRow(finalMessages, m)
        /\ messages' = messages \/ messages' = messages \cup {m}
    BY <1>0, <1>2 DEF HandlersOK, Kept, QueueRow, Queued, HasRow, HandlerKeeps
  <2>2. /\ DOMAIN finalMessages' = DOMAIN finalMessages \cup {k} /\ k \notin DOMAIN finalMessages
        /\ \A i \in DOMAIN finalMessages : finalMessages'[i] = finalMessages[i]
        /\ finalMessages'[k].message = m /\ finalMessages'[k].tx = 0 /\ finalMessages'[k].error = FALSE
    BY <1>0, <1>2, RowIsAdded DEF TypeOK
  <2> HIDE DEF k
  <2>3. StatusOf(m) = "awaitSignature"
    BY <1>0, <2>1, StatusIsOfTables DEF Status
  <2>4. StatusOf(m)' = "queued"
    <3>1. Status(finalMessages', messages', m) = Ending(finalMessages'[k])
      BY <1>0, <2>2, StatusOfRow
    <3>2. QED
      BY <1>0, <2>2, <3>1, StatusIsOfTables DEF Ending
  <2>5. ASSUME NEW n \in Messages, n # m PROVE StatusOf(n)' = StatusOf(n)
    <3>1. HasRow(finalMessages', n) <=> HasRow(finalMessages, n)
      BY <2>2, <2>5 DEF HasRow
    <3>2. n \in messages' <=> n \in messages
      BY <2>1, <2>5
    <3>3. Status(finalMessages', messages', n) = Status(finalMessages, messages, n)
      BY <1>0, <2>2, <3>1, <3>2, StatusStays
    <3>4. QED
      BY <3>3, StatusIsOfTables
  <2>6. QED
    BY <2>3, <2>4, <2>5 DEF GoesOn, Successor
<1>3. QED
  BY <1>0, <1>1, <1>2 DEF HandlerKeeps

(* While no call fails, an outcome is recorded in an open row.                   *)
LEMMA OutcomeGoesOn ==
    ASSUME RelayerInv, RelayerInv', faults = 0, Backstage, UNCHANGED messages,
           NEW l \in Loops, RecordsSuccess(l) \/ MarkAsError(l)
    PROVE  \E m \in Messages : GoesOn(m)
<1> USE DEF RelayerInv, QueueInv
<1>0. Distinct(finalMessages) /\ Distinct(finalMessages')
  BY DEF RowsDistinct, Distinct
<1>1. PICK i, m : i = loop[l].row /\ m = Current(l).message
  OBVIOUS
<1>2. /\ i \in DOMAIN finalMessages /\ DOMAIN finalMessages' = DOMAIN finalMessages
      /\ finalMessages[i].message = m /\ finalMessages'[i].message = m /\ m \in Messages
      /\ \A k \in DOMAIN finalMessages : k # i => finalMessages'[k] = finalMessages[k]
      /\ RecordsSuccess(l) => finalMessages'[i].tx # 0 /\ finalMessages'[i].error = finalMessages[i].error
      /\ MarkAsError(l) => finalMessages'[i].error
      /\ Busy(l)
  BY <1>1, OutcomeOfRow, RowOfLoop DEF Current, Row
<1>3. ~Resolved(finalMessages[i])
  BY <1>1, <1>2 DEF RowIsOpen, ContestInv, LoopWorksAlone, Current
<1>4. StatusOf(m) = "queued" /\ StatusOf(m)' \in {"success", "error"}
  <2>1. Status(finalMessages, messages, m) = Ending(finalMessages[i])
    BY <1>0, <1>2, StatusOfRow
  <2>2. Status(finalMessages', messages', m) = Ending(finalMessages'[i])
    BY <1>0, <1>2, StatusOfRow
  <2>3. QED
    BY <1>2, <1>3, <2>1, <2>2, StatusIsOfTables DEF Ending, Resolved
<1>5. ASSUME NEW n \in Messages, n # m PROVE StatusOf(n)' = StatusOf(n)
  <2>1. HasRow(finalMessages', n) <=> HasRow(finalMessages, n)
    BY <1>2 DEF HasRow
  <2>2. Status(finalMessages', messages', n) = Status(finalMessages, messages, n)
    BY <1>0, <1>2, <1>5, <2>1, StatusStays
  <2>3. QED
    BY <2>2, StatusIsOfTables
<1>6. QED
  BY <1>2, <1>4, <1>5 DEF GoesOn, Successor

LEMMA StatusGoesOn ==
    ASSUME RelayerInv, RelayerInv', faults = 0, [RelayerNext]_allVars
    PROVE  (\A n \in Messages : StatusOf(n)' = StatusOf(n)) \/ \E m \in Messages : GoesOn(m)
<1>1. ASSUME NEW r \in Requests, Handle(r) PROVE \E m \in Messages : GoesOn(m)
  BY <1>1, HandlerGoesOn, HandlersAssumption
<1>2. ASSUME Backstage
      PROVE  (\A n \in Messages : StatusOf(n)' = StatusOf(n)) \/ \E m \in Messages : GoesOn(m)
  <2>1. UNCHANGED messages
    BY <1>2, BackstageGoes DEF RelayerInv
  <2>2. ASSUME NEW l \in Loops, RecordsSuccess(l) \/ MarkAsError(l) PROVE \E m \in Messages : GoesOn(m)
    BY <1>2, <2>1, <2>2, OutcomeGoesOn
  <2>3. UNCHANGED finalMessages => \A n \in Messages : StatusOf(n)' = StatusOf(n)
    BY <2>1, StatusIsOfTables
  <2>4. QED
    BY <1>2, <2>2, <2>3, BackstageRows
<1>3. UNCHANGED allVars => \A n \in Messages : StatusOf(n)' = StatusOf(n)
  BY StatusIsOfTables DEF allVars, vars, handlers
<1>4. QED
  BY <1>1, <1>2, <1>3 DEF RelayerNext

LEMMA LifecycleStarts == RelayerInit => Lifecycle!Init
<1> SUFFICES ASSUME RelayerInit PROVE [m \in Messages |-> StatusOf(m)] = [m \in Messages |-> "absent"]
  BY DEF Lifecycle!Init
<1>1. Queued = {} /\ messages = {}
  BY DEF RelayerInit, Init, Collection!Init, Queued
<1>2. QED
  BY <1>1 DEF StatusOf

LEMMA LifecycleStep ==
    ASSUME RelayerInv, RelayerInv', faults = 0, [RelayerNext]_allVars
    PROVE  [Lifecycle!Next]_[m \in Messages |-> StatusOf(m)]
<1> DEFINE status == [m \in Messages |-> StatusOf(m)]
<1>1. CASE \A n \in Messages : StatusOf(n)' = StatusOf(n)
  BY <1>1
<1>2. ASSUME NEW m \in Messages, GoesOn(m) PROVE [Lifecycle!Next]_status
  <2>1. PICK old, new : old = StatusOf(m) /\ new = StatusOf(m)'
    OBVIOUS
  <2>2. status' = [status EXCEPT ![m] = new] /\ status[m] = old
    BY <1>2, <2>1 DEF GoesOn
  <2>3. new = old \/ new \in Lifecycle!Successors[old]
    BY <1>2, <2>1 DEF GoesOn, Successor, Lifecycle!Successors
  <2>4. CASE new = old
    BY <2>2, <2>4
  <2>5. CASE new \in Lifecycle!Successors[old]
    BY <2>2, <2>5 DEF Lifecycle!Next, Lifecycle!Advance
  <2>6. QED
    BY <2>3, <2>4, <2>5
<1>3. QED
  BY <1>1, <1>2, StatusGoesOn

(* The handlers and the loop together go through the life that MessageLifecycle  *)
(* promises, while no call of the loop fails: a message is queued once, ended    *)
(* once, and never goes back (PendingMessages.ts:24-52, MessageQueueService.ts:  *)
(* 22-30).  A failing call can record an error after a success, so the theorem   *)
(* needs its condition.                                                          *)
THEOREM RelayerImplementsLifecycle == RelayerSpec /\ [](faults = 0) => ImplementsLifecycle
<1>1. /\ RelayerInv /\ RelayerInv' /\ faults = 0 /\ [RelayerNext]_allVars
         => [Lifecycle!Next]_[m \in Messages |-> StatusOf(m)]
  BY LifecycleStep
<1>2. QED
  BY <1>1, LifecycleStarts, RelayerInvariant, PTL DEF RelayerSpec, ImplementsLifecycle, Lifecycle!Spec

--------------------------------------------------------------------------------
(* THE CALLERS OF sdk.execute                                                   *)

(* Of the messages of one nonce only one is recorded as a success, and none while*)
(* another is in work.                                                           *)
InWork(l) == loop[l].pc \in {"send", "wait", "hooks", "setHash", "markSuccess"}
SameNonce(m, n) == NonceOf[m] = NonceOf[n]
SuccessIsAlone ==
    /\ \A l \in Loops, i \in DOMAIN finalMessages :
          InWork(l) /\ finalMessages[i].tx # 0 => ~SameNonce(finalMessages[i].message, Current(l).message)
    /\ \A i, j \in DOMAIN finalMessages :
          finalMessages[i].tx # 0 /\ finalMessages[j].tx # 0
              /\ SameNonce(finalMessages[i].message, finalMessages[j].message) => i = j

(* While nothing fails, a row without a success has not been sent, unless a loop *)
(* is at it.                                                                     *)
Unsent(m) == \A t \in DOMAIN txs : txs[t].message # m
SentIsKnown ==
    /\ \A i \in DOMAIN finalMessages :
          finalMessages[i].tx = 0 =>
             Unsent(finalMessages[i].message) \/ \E l \in Loops : HasSent(l) /\ loop[l].row = i
    /\ \A i \in DOMAIN finalMessages : finalMessages[i].tx = 0 \/ ~finalMessages[i].error

TablesInv ==
    /\ foreign = 0 => SuccessIsAlone
    /\ faults = 0 /\ crashes = 0 => SentIsKnown

(* What the calls know: the nonce of the message they made, and its outcome.     *)
CallsInv ==
    /\ call \in [Clients -> Execution]
    /\ \A c \in Clients : ~In(c, "idle") => call[c].nonce \in Nonces
    /\ \A c \in Clients : In(c, "idle") => call[c].result = "none"
HasSucceeded(m) == \E i \in DOMAIN finalMessages : finalMessages[i].message = m /\ finalMessages[i].tx # 0
Tells(result, m) ==
    /\ result = "success" => HasSucceeded(m)
    /\ result = "success" /\ faults = 0 => StatusOf(m) = "success"
    /\ result = "error" => Failed(m)
TellsTrue == \A c \in Clients : Tells(call[c].result, MsgOf[Request(c)])

SdkInv == RelayerInv /\ TablesInv /\ CallsInv /\ TellsTrue

--------------------------------------------------------------------------------
(* What a call posts is a request for a message with the nonce it has read.      *)
LEMMA CallHasMessage ==
    ASSUME CallsInv, NEW c \in Clients, ~In(c, "idle")
    PROVE  /\ Request(c) \in Requests /\ MsgOf[Request(c)] \in Messages
           /\ NonceOf[MsgOf[Request(c)]] = call[c].nonce
<1>1. Request(c) \in Clients \X Nonces /\ Request(c)[2] = call[c].nonce
  BY DEF CallsInv, Request
<1>2. QED
  BY <1>1, CallsAssumption, HandlersAssumption

(* How a call goes on: it keeps the nonce it has read, and ends with the status  *)
(* of its message if it tells an outcome.                                        *)
CallGoesOn(c, result) ==
    /\ UNCHANGED allVars
    /\ call' \in [Clients -> Execution] /\ call'[c].pc # "idle" /\ call'[c].nonce \in Nonces
    /\ ~In(c, "idle") => call'[c].nonce = call[c].nonce
    /\ \A d \in Clients : d # c => call'[d] = call[d]
    /\ call'[c].result = result

LEMMA CallProceeds ==
    ASSUME call \in [Clients -> Execution], NEW c \in Clients,
           NEW pc \in {"posted", "wait"}, Proceed(c, pc)
    PROVE  /\ call' \in [Clients -> Execution] /\ call'[c].pc = pc
           /\ call'[c].nonce = call[c].nonce /\ call'[c].result = call[c].result
           /\ \A d \in Clients : d # c => call'[d] = call[d]
BY DEF Proceed, Execution

LEMMA CallEnds ==
    ASSUME call \in [Clients -> Execution], NEW c \in Clients, NEW result \in Result, End(c, result)
    PROVE  /\ call' \in [Clients -> Execution] /\ call'[c].pc = "ended"
           /\ call'[c].nonce = call[c].nonce /\ call'[c].result = result
           /\ \A d \in Clients : d # c => call'[d] = call[d]
<1>1. ASSUME NEW n \in Nonces \cup {0}
      PROVE  LET new == [NotCalled EXCEPT !.pc = "ended", !.nonce = n, !.result = result]
             IN  /\ new \in Execution
                 /\ new.pc = "ended" /\ new.nonce = n /\ new.result = result
  <2>1. NotCalled \in [pc : {"idle", "sign", "posted", "wait", "ended"}, nonce : Nonces \cup {0},
                        polls : 0..MaxPolls, result : Result]
    BY PollsAssumption DEF NotCalled, Result
  <2>2. QED
    BY <2>1 DEF Execution
<1>2. call[c].nonce \in Nonces \cup {0}
  BY DEF Execution
<1>3. QED
  BY <1>1, <1>2 DEF End

LEMMA CallSigns ==
    ASSUME call \in [Clients -> Execution], NEW c \in Clients, NEW n \in Nonces,
           call' = [call EXCEPT ![c].pc = "sign", ![c].nonce = n]
    PROVE  /\ call' \in [Clients -> Execution] /\ call'[c].pc = "sign"
           /\ call'[c].nonce = n /\ call'[c].result = call[c].result
           /\ \A d \in Clients : d # c => call'[d] = call[d]
BY DEF Execution

LEMMA CallPolls ==
    ASSUME call \in [Clients -> Execution], NEW c \in Clients, call[c].polls < MaxPolls,
           call' = [call EXCEPT ![c].polls = @ + 1]
    PROVE  /\ call' \in [Clients -> Execution] /\ call'[c].pc = call[c].pc
           /\ call'[c].nonce = call[c].nonce /\ call'[c].result = call[c].result
           /\ \A d \in Clients : d # c => call'[d] = call[d]
BY PollsAssumption DEF Execution

LEMMA CallGoes ==
    ASSUME CallsInv, NEW c \in Clients, GetNonce(c) \/ Run(c) \/ FetchFails(c)
    PROVE  \E result \in Result :
              /\ CallGoesOn(c, result)
              /\ \/ result \notin {"success", "error"} \/ result = call[c].result
                 \/ ~In(c, "idle") /\ result = StatusOf(MsgOf[Request(c)])
<1>0. /\ call \in [Clients -> Execution] /\ call[c].result \in Result
      /\ ~In(c, "idle") => call[c].nonce \in Nonces
  BY DEF CallsInv, Execution
<1>1. CASE GetNonce(c)
  BY <1>0, <1>1, CallSigns DEF GetNonce, CallGoesOn, In
<1>2. CASE Post(c)
  BY <1>0, <1>2, CallProceeds DEF Post, CallGoesOn, In
<1>3. CASE Answered(c)
  <2>1. CASE Proceed(c, "wait")
    BY <1>0, <1>3, <2>1, CallProceeds DEF Answered, CallGoesOn, In
  <2>2. ASSUME NEW pc \in DOMAIN Refusal, End(c, Refusal[pc])
        PROVE  \E result \in Result : CallGoesOn(c, result) /\ result \notin {"success", "error"}
    <3>1. Refusal[pc] \in Result \ {"success", "error"}
      BY <2>2 DEF Refusal, Result
    <3>2. QED
      BY <1>0, <1>3, <2>2, <3>1, CallEnds DEF Answered, CallGoesOn, In
  <2>3. QED
    BY <1>3, <2>1, <2>2 DEF Answered
<1>4. CASE Poll(c)
  <2> DEFINE status == StatusOf(MsgOf[Request(c)])
  <2>1. CASE IsExecuted(status) /\ End(c, status)
    <3>1. status \in Result
      BY <2>1 DEF IsExecuted, Result
    <3>2. QED
      BY <1>0, <1>4, <2>1, <3>1, CallEnds DEF Poll, CallGoesOn, In
  <2>2. CASE call' = [call EXCEPT ![c].polls = @ + 1]
    BY <1>0, <1>4, <2>2, CallPolls DEF Poll, CallGoesOn, In
  <2>3. QED
    BY <1>4, <2>1, <2>2 DEF Poll
<1>5. CASE TimeOut(c)
  BY <1>0, <1>5, CallEnds DEF TimeOut, CallGoesOn, In, Result
<1>6. CASE FetchFails(c)
  BY <1>0, <1>6, CallEnds DEF FetchFails, CallGoesOn, In, Result
<1>7. QED
  BY <1>1, <1>2, <1>3, <1>4, <1>5, <1>6 DEF Run

(* Every step is one of a call, or one of the relayer.                           *)
LEMMA SdkGoes ==
    ASSUME CallsInv, [SdkNext]_sdkVars
    PROVE  /\ [RelayerNext]_allVars
           /\ UNCHANGED call \/ \E c \in Clients : GetNonce(c) \/ Run(c) \/ FetchFails(c)
<1>1. ASSUME HandlePosted \/ Backstage PROVE RelayerNext
  BY <1>1, CallHasMessage DEF HandlePosted, RelayerNext, In
<1>2. ASSUME NEW c \in Clients, GetNonce(c) \/ Run(c) \/ FetchFails(c) PROVE UNCHANGED allVars
  BY <1>2, CallGoes DEF CallGoesOn
<1>3. QED
  BY <1>1, <1>2 DEF SdkNext, sdkVars

LEMMA CallsGoOn ==
    ASSUME CallsInv, [SdkNext]_sdkVars
    PROVE  CallsInv'
<1>1. CASE UNCHANGED call
  BY <1>1 DEF CallsInv, In
<1>2. ASSUME NEW c \in Clients, NEW result, CallGoesOn(c, result) PROVE CallsInv'
  BY <1>2 DEF CallsInv, CallGoesOn, In
<1>3. QED
  BY <1>1, <1>2, CallGoes, SdkGoes

--------------------------------------------------------------------------------
(* A message that is found executable has no success before it for its nonce.    *)
LEMMA SuccessSpendsNonce ==
    ASSUME QueueInv, SuccessIsDecided, NEW i \in DOMAIN finalMessages, finalMessages[i].tx # 0
    PROVE  NonceOf[finalMessages[i].message] < wallet.lastNonce
<1>1. PICK p \in Messages : Executed(p) # {} /\ NonceOf[p] = NonceOf[finalMessages[i].message]
  BY DEF SuccessIsDecided, Decided
<1>2. PICK t \in DOMAIN txs : txs[t].message = p /\ Ok(t)
  BY <1>1 DEF Executed, Ok
<1>3. QED
  BY <1>1, <1>2 DEF QueueInv, NoncesSpent, NonceOfTx

LEMMA SuccessStaysAlone ==
    ASSUME QueueInv, ContestInv, SuccessIsAlone, QueueNext, foreign = 0
    PROVE  SuccessIsAlone'
<1> USE DEF QueueInv, ContestInv
<1>0. RowsEvolve /\ LoopsEvolve /\ OneLoop
  BY EveryStepEvolvesRows, EveryStepEvolvesLoops DEF LoopWorksAlone
<1>1. ASSUME NEW i \in DOMAIN finalMessages', finalMessages'[i].tx # 0
      PROVE  /\ i \in DOMAIN finalMessages /\ finalMessages'[i].message = finalMessages[i].message
             /\ \/ finalMessages[i].tx # 0
                \/ \E k \in Loops : /\ At(k, "markSuccess") /\ loop[k].row = i
                                    /\ Busy(k)' => loop'[k].pc = "markError"
  BY <1>0, <1>1 DEF RowsEvolve, Resolved
<1>2. ASSUME NEW k \in Loops, NEW l \in Loops, Busy(k), Busy(l) PROVE k = l
  BY <1>0, <1>2 DEF OneLoop, Busy, At
<1>3. ASSUME NEW l \in Loops, InWork(l)', NEW i \in DOMAIN finalMessages', finalMessages'[i].tx # 0
      PROVE  ~SameNonce(finalMessages'[i].message, Current(l)'.message)
  <2>1. Busy(l) /\ loop'[l].row = loop[l].row /\ Current(l)'.message = Current(l).message
    <3>1. Busy(l) /\ loop'[l].row = loop[l].row
      BY <1>0, <1>3 DEF LoopsEvolve, InWork, Busy
    <3>2. QED
      BY <1>0, <3>1, RowOfLoop DEF RowsEvolve, Current
  <2>2. i \in DOMAIN finalMessages /\ finalMessages[i].tx # 0
    <3>1. ASSUME NEW k \in Loops, At(k, "markSuccess"), Busy(k)' => loop'[k].pc = "markError" PROVE FALSE
      <4>1. k = l
        BY <1>2, <2>1, <3>1 DEF Busy, At
      <4>2. QED
        BY <1>3, <3>1, <4>1 DEF InWork, Busy
    <3>2. QED
      BY <1>1, <1>3, <3>1
  <2>3. CASE InWork(l)
    BY <1>1, <1>3, <2>1, <2>2, <2>3 DEF SuccessIsAlone
  <2>4. CASE ~InWork(l)
    <3>1. Validate(l)
      <4>1. ~Crash /\ loop'[l] # loop[l]
        BY <1>3, <2>4 DEF InWork, Crash, Idle
      <4>2. Start(l) \/ Step(l) \/ Throws(l)
        BY <4>1, OwnSteps
      <4>3. loop'[l].pc \in {"send", "wait", "hooks", "setHash", "markSuccess"}
        BY <1>3 DEF InWork
      <4>4. Validate(l) \/ Send(l) \/ WaitForTransaction(l) \/ RunHooks(l) \/ SetTransactionHash(l)
        BY <4>2, <4>3, Arrivals
      <4>5. QED
        BY <2>4, <4>4 DEF Send, WaitForTransaction, RunHooks, SetTransactionHash, At, InWork
    <3>2. Executable(Current(l))
      BY <1>3, <3>1, LoopGoes DEF Validate, InWork, TypeOK, Pcs
    <3>3. NonceOf[Current(l).message] = wallet.lastNonce /\ wallet.lastNonce \in Nat
      BY <3>2 DEF Executable, ExecuteSignedAllowed, TypeOK, Storage
    <3>4. QED
      BY <1>1, <1>3, <2>1, <2>2, <3>3, SuccessSpendsNonce DEF SameNonce
  <2>5. QED
    BY <2>3, <2>4
<1>4. ASSUME NEW i \in DOMAIN finalMessages', NEW j \in DOMAIN finalMessages',
             finalMessages'[i].tx # 0, finalMessages'[j].tx # 0,
             SameNonce(finalMessages'[i].message, finalMessages'[j].message), finalMessages[i].tx = 0
      PROVE  i = j
  <2>1. PICK k \in Loops : At(k, "markSuccess") /\ loop[k].row = i
    BY <1>1, <1>4
  <2>2. CASE finalMessages[j].tx = 0
    <3>1. PICK l \in Loops : At(l, "markSuccess") /\ loop[l].row = j
      BY <1>1, <1>4, <2>2
    <3>2. QED
      BY <1>2, <2>1, <3>1 DEF Busy, At
  <2>3. CASE finalMessages[j].tx # 0
    BY <1>1, <1>4, <2>1, <2>3 DEF SuccessIsAlone, InWork, SameNonce, Current, At
  <2>4. QED
    BY <2>2, <2>3
<1>5. QED
  BY <1>1, <1>3, <1>4 DEF SuccessIsAlone, SameNonce

(* While nothing fails, what the rows tell of the transactions stays true.       *)
LEMMA SentStaysKnown ==
    ASSUME QueueInv, ContestInv, SentIsKnown, QueueNext, faults' = 0, crashes' = 0
    PROVE  SentIsKnown'
<1> USE DEF QueueInv, ContestInv
<1>0. RowsEvolve /\ LoopsEvolve /\ OneLoop /\ faults = 0
  BY EveryStepEvolvesRows, EveryStepEvolvesLoops, FaultsGrow DEF LoopWorksAlone, TypeOK
<1>1. ~Crash /\ \A l \in Loops : ~Throws(l)
  BY DEF Crash, Throws, TypeOK
<1>2. ASSUME NEW i \in DOMAIN finalMessages', i \notin DOMAIN finalMessages, NEW m, m = finalMessages'[i].message
      PROVE  Unsent(m)'
  <2>1. m \notin Queued
    BY <1>0, <1>2 DEF RowsEvolve
  <2>2. ASSUME NEW t \in DOMAIN txs' PROVE txs'[t].message \in Queued
    <3>1. CASE t \in DOMAIN txs
      BY <3>1, TransactionsStay DEF SentInTurn, Queued
    <3>2. ASSUME NEW l \in Loops, Sends(l) PROVE Current(l).message \in Queued
      BY <3>2, RowOfLoop DEF Sends, At, Busy, Queued, Current
    <3>3. QED
      BY <3>1, <3>2, TransactionsStay
  <2>3. QED
    BY <2>1, <2>2 DEF Unsent
<1>3. ASSUME NEW i \in DOMAIN finalMessages, finalMessages'[i].tx = 0, NEW m, m = finalMessages[i].message,
             Unsent(m)
      PROVE  Unsent(m)' \/ \E l \in Loops : HasSent(l)' /\ loop'[l].row = i
  <2>1. CASE UNCHANGED txs
    BY <1>3, <2>1 DEF Unsent
  <2>2. ASSUME NEW l \in Loops, Send(l)
        PROVE  Unsent(m)' \/ (HasSent(l)' /\ loop'[l].row = i)
    <3>1. /\ Current(l).message = m => loop[l].row = i
          /\ loop[l].row \in DOMAIN finalMessages
      BY <1>3, <2>2, QuietSend DEF RowsDistinct, Current
    <3>2. QED
      BY <1>3, <2>2, <3>1, QuietSend DEF Unsent, HasSent
  <2>3. ASSUME NEW u \in DOMAIN txs, NEW status \in {"ok", "reverted"}, MinedAs(u, status) PROVE Unsent(m)'
    BY <1>3, <2>3, MinedEntries DEF Unsent
  <2>4. QED
    BY <2>1, <2>2, <2>3, TransactionsEvolve DEF ForeignExecution
<1>4. ASSUME NEW i \in DOMAIN finalMessages, finalMessages'[i].tx = 0, NEW l \in Loops, HasSent(l), loop[l].row = i
      PROVE  HasSent(l)' /\ loop'[l].row = i
  <2>1. loop \in [Loops -> Loop] /\ loop[l].tx \in DOMAIN txs /\ txs \in Seq(Tx)
    BY <1>4 DEF TypeOK, LoopsOK
  <2>2. CASE loop'[l] = loop[l]
    BY <1>4, <2>2 DEF HasSent
  <2>3. CASE Step(l)
    <3>1. CASE MarkAsSuccess(l)
      <4>1. loop[l].tx \in Nat /\ loop[l].tx # 0
        BY <2>1, LenProperties
      <4>2. finalMessages'[i].tx = loop[l].tx
        BY <1>4, <3>1, <4>1, RowSucceeds DEF MarkAsSuccess, TypeOK
      <4>3. QED
        BY <1>4, <4>1, <4>2
    <3>2. CASE WaitForTransaction(l)
      BY <1>4, <2>1, <3>2, LoopGoes DEF WaitForTransaction, Pcs, HasSent
    <3>3. CASE RunHooks(l)
      BY <1>4, <2>1, <3>3, LoopGoes DEF RunHooks, Pcs, HasSent
    <3>4. CASE SetTransactionHash(l)
      BY <1>4, <2>1, <3>4, LoopGoes DEF SetTransactionHash, Pcs, HasSent
    <3>5. QED
      BY <1>4, <2>3, <3>1, <3>2, <3>3, <3>4
         DEF HasSent, Step, GetNext, NoNext, Wake, Validate, Send, MarkAsError, At
  <2>4. ~Start(l)
    BY <1>4 DEF Start, HasSent
  <2>5. QED
    BY <1>1, <2>2, <2>3, <2>4, OwnSteps
<1>5. ASSUME NEW i \in DOMAIN finalMessages', finalMessages'[i].tx = 0, NEW m, m = finalMessages'[i].message
      PROVE  Unsent(m)' \/ \E l \in Loops : HasSent(l)' /\ loop'[l].row = i
  <2>1. CASE i \notin DOMAIN finalMessages
    BY <1>2, <1>5, <2>1
  <2>2. CASE i \in DOMAIN finalMessages
    <3>1. finalMessages[i].tx = 0 /\ m = finalMessages[i].message
      BY <1>0, <1>5, <2>2 DEF RowsEvolve
    <3>2. QED
      BY <1>3, <1>4, <1>5, <2>2, <3>1 DEF SentIsKnown
  <2>3. QED
    BY <2>1, <2>2
<1>6. ASSUME NEW i \in DOMAIN finalMessages' PROVE finalMessages'[i].tx = 0 \/ ~finalMessages'[i].error
  <2>1. CASE i \notin DOMAIN finalMessages
    BY <1>0, <1>6, <2>1 DEF RowsEvolve, Resolved
  <2>2. CASE i \in DOMAIN finalMessages /\ finalMessages'[i] = finalMessages[i]
    BY <2>2 DEF SentIsKnown
  <2>3. CASE i \in DOMAIN finalMessages /\ finalMessages'[i] # finalMessages[i]
    <3>1. PICK l \in Loops : MarkAsSuccess(l) \/ MarkAsError(l)
      <4>1. ASSUME NEW m, NEW sigs, QueueRow(m, sigs) PROVE finalMessages'[i] = finalMessages[i]
        BY <2>3, <4>1, AppendProperties DEF QueueRow, TypeOK
      <4>2. QED
        BY <1>1, <2>3, <4>1 DEF QueueNext, Start, Step, GetNext, NoNext, Wake, Validate, Send,
           WaitForTransaction, RunHooks, SetTransactionHash, Stop, StopLater, StopLaterReturns, Mine,
           ForeignExecution
    <3>2. RecordsSuccess(l) \/ MarkAsError(l)
      BY <3>1 DEF MarkAsSuccess, RecordsSuccess
    <3>3. Busy(l) /\ loop[l].row = i
      BY <2>3, <3>2, OutcomeOfRow
    <3>4. ~Resolved(finalMessages[i])
      BY <1>0, <3>3 DEF RowIsOpen, Current
    <3>5. CASE RecordsSuccess(l)
      BY <3>3, <3>4, <3>5, OutcomeOfRow DEF Resolved
    <3>6. CASE MarkAsError(l)
      BY <2>3, <3>3, <3>4, <3>6, RowFails DEF MarkAsError, Resolved, TypeOK
    <3>7. QED
      BY <3>2, <3>5, <3>6
  <2>4. QED
    BY <2>1, <2>2, <2>3
<1>7. QED
  <2>1. ASSUME NEW i \in DOMAIN finalMessages', finalMessages'[i].tx = 0
        PROVE  Unsent(finalMessages[i].message)' \/ \E l \in Loops : HasSent(l)' /\ loop'[l].row = i
    <3>1. PICK m : m = finalMessages'[i].message
      OBVIOUS
    <3>2. Unsent(m)' \/ \E l \in Loops : HasSent(l)' /\ loop'[l].row = i
      BY <1>5, <2>1, <3>1
    <3>3. QED
      BY <3>1, <3>2 DEF Unsent
  <2>2. QED
    BY <1>6, <2>1 DEF SentIsKnown

LEMMA TablesStay ==
    ASSUME RelayerInv, TablesInv, QueueGoes
    PROVE  TablesInv'
<1> USE DEF RelayerInv
<1>1. CASE QueueNext
  <2>1. faults' >= faults /\ foreign' >= foreign /\ crashes' >= crashes
        /\ faults \in Nat /\ foreign \in Nat /\ crashes \in Nat
    BY <1>1, FaultsGrow DEF QueueInv, TypeOK
  <2>2. ASSUME foreign' = 0 PROVE SuccessIsAlone'
    <3>1. foreign = 0
      BY <2>1, <2>2
    <3>2. QED
      BY <1>1, <3>1, SuccessStaysAlone DEF TablesInv
  <2>3. ASSUME faults' = 0, crashes' = 0 PROVE SentIsKnown'
    <3>1. faults = 0 /\ crashes = 0
      BY <2>1, <2>3
    <3>2. QED
      BY <1>1, <2>3, <3>1, SentStaysKnown DEF TablesInv
  <2>4. QED
    BY <2>2, <2>3 DEF TablesInv
<1>2. CASE UNCHANGED vars
  BY <1>2 DEF vars, TablesInv, SuccessIsAlone, SentIsKnown, InWork, SameNonce, Current, Unsent, HasSent
<1>3. QED
  BY <1>1, <1>2 DEF QueueGoes

--------------------------------------------------------------------------------
(* What the tables tell of a message stays true.                                 *)
LEMMA TruthStays ==
    ASSUME RelayerInv, RelayerInv', [RelayerNext]_allVars, NEW m \in Messages, NEW result, Tells(result, m)
    PROVE  Tells(result, m)'
<1> USE DEF RelayerInv, QueueInv
<1>0. QueueGoes
  BY RelayerGoes
<1>1. CASE QueueNext
  <2>1. RowsEvolve
    BY <1>1, EveryStepEvolvesRows
  <2>2. HasSucceeded(m) => HasSucceeded(m)'
    BY <2>1 DEF RowsEvolve, HasSucceeded
  <2>3. Failed(m) => Failed(m)'
    BY <2>1 DEF RowsEvolve, Failed
  <2>4. ASSUME faults' = 0, StatusOf(m) = "success" PROVE StatusOf(m)' = "success"
    <3>1. faults = 0
      BY <1>1, <2>4, FaultsGrow DEF TypeOK
    <3>2. (\A n \in Messages : StatusOf(n)' = StatusOf(n)) \/ \E n \in Messages : GoesOn(n)
      BY <3>1, StatusGoesOn
    <3>3. QED
      BY <2>4, <3>2 DEF GoesOn, Successor
  <2>5. faults' = 0 => faults = 0
    BY <1>1, FaultsGrow DEF TypeOK
  <2>6. result = "success" => HasSucceeded(m)'
    BY <2>2 DEF Tells
  <2>7. result = "error" => Failed(m)'
    BY <2>3 DEF Tells
  <2>8. result = "success" /\ faults' = 0 => StatusOf(m)' = "success"
    BY <2>4, <2>5 DEF Tells
  <2>9. QED
    BY <2>6, <2>7, <2>8 DEF Tells
<1>2. CASE UNCHANGED vars
  <2>1. ASSUME faults = 0, StatusOf(m) = "success" PROVE StatusOf(m)' = "success"
    BY <2>1, StatusGoesOn DEF GoesOn, Successor
  <2>2. UNCHANGED <<finalMessages, faults>>
    BY <1>2 DEF vars
  <2>3. QED
    BY <2>1, <2>2 DEF Tells, HasSucceeded, Failed
<1>3. QED
  BY <1>0, <1>1, <1>2 DEF QueueGoes

(* The row of a message is the one its status is read from.                      *)
LEMMA StatusIsOfRow ==
    ASSUME RowsDistinct, NEW m
    PROVE  /\ StatusOf(m) = "success" => HasSucceeded(m)
           /\ StatusOf(m) = "error" <=> Failed(m)
<1>1. ASSUME NEW i \in DOMAIN finalMessages PROVE RowOf(finalMessages[i].message) = finalMessages[i]
  BY RowOfMessage DEF RowOf, RowsDistinct
<1>2. ASSUME m \in Queued
      PROVE  \E i \in DOMAIN finalMessages : finalMessages[i].message = m /\ RowOf(m) = finalMessages[i]
  BY <1>1, <1>2 DEF Queued
<1>3. StatusOf(m) = "success" => HasSucceeded(m)
  BY <1>2 DEF StatusOf, HasSucceeded
<1>4. StatusOf(m) = "error" => Failed(m)
  BY <1>2 DEF StatusOf, Failed
<1>5. Failed(m) => StatusOf(m) = "error"
  BY <1>1 DEF StatusOf, Failed, Queued
<1>6. QED
  BY <1>3, <1>4, <1>5

LEMMA TellingStaysTrue ==
    ASSUME RelayerInv, RelayerInv', CallsInv, TellsTrue, [SdkNext]_sdkVars
    PROVE  TellsTrue'
<1>0. [RelayerNext]_allVars
  BY SdkGoes
<1>1. ASSUME NEW c \in Clients, NEW m, m = MsgOf[Request(c)], NEW result, result = call[c].result,
             call'[c].result = result, ~In(c, "idle") => Request(c)' = Request(c), result # "none"
      PROVE  Tells(result, m)'
  <2>1. m \in Messages
    BY <1>1, CallHasMessage DEF CallsInv
  <2>2. Tells(result, m)
    BY <1>1 DEF TellsTrue
  <2>3. QED
    BY <1>0, <2>1, <2>2, TruthStays
<1>2. ASSUME NEW c \in Clients, NEW m, m = MsgOf[Request(c)], UNCHANGED <<finalMessages, messages, faults>>,
             NEW result, result = StatusOf(m)
      PROVE  Tells(result, m)'
  <2>1. Tells(result, m)
    BY <1>2, StatusIsOfRow DEF Tells, RelayerInv, QueueInv
  <2>2. StatusOf(m)' = StatusOf(m)
    BY <1>2 DEF StatusOf, Queued, RowOf
  <2>3. QED
    BY <1>2, <2>1, <2>2 DEF Tells, HasSucceeded, Failed
<1>3. ASSUME NEW c \in Clients PROVE \A result, m : result = call'[c].result /\ m = MsgOf[Request(c)'] => Tells(result, m)'
  <2>1. CASE call'[c].result \notin {"success", "error"}
    BY <2>1 DEF Tells
  <2>2. CASE call'[c] = call[c] /\ call'[c].result \in {"success", "error"}
    BY <1>1, <2>2 DEF Request
  <2>3. CASE call'[c] # call[c] /\ call'[c].result \in {"success", "error"}
    <3>1. GetNonce(c) \/ Run(c) \/ FetchFails(c)
      BY <2>3, SdkGoes, CallGoes DEF CallGoesOn
    <3>2. PICK result \in Result :
             /\ CallGoesOn(c, result)
             /\ \/ result = call[c].result
                \/ ~In(c, "idle") /\ result = StatusOf(MsgOf[Request(c)])
      BY <2>3, <3>1, CallGoes DEF CallGoesOn
    <3>3. ~In(c, "idle")
      BY <2>3, <3>2 DEF CallsInv, CallGoesOn
    <3>4. Request(c)' = Request(c) /\ call'[c].result = result
          /\ UNCHANGED <<finalMessages, messages, faults>>
      BY <3>2, <3>3 DEF CallGoesOn, Request, allVars, vars, handlers
    <3>5. QED
      BY <1>1, <1>2, <2>3, <3>2, <3>4
  <2>4. QED
    BY <2>1, <2>2, <2>3
<1>4. QED
  BY <1>3 DEF TellsTrue, Tells, HasSucceeded, Failed

--------------------------------------------------------------------------------
LEMMA SdkStarts == SdkInit => SdkInv
<1> SUFFICES ASSUME SdkInit PROVE SdkInv
  OBVIOUS
<1>1. RelayerInv
  BY RelayerStarts DEF SdkInit
<1>2. TablesInv
  BY DEF SdkInit, RelayerInit, Init, Idle, TablesInv, SuccessIsAlone, SentIsKnown, InWork
<1>3. NotCalled \in Execution /\ NotCalled.pc = "idle" /\ NotCalled.result = "none"
  BY PollsAssumption DEF NotCalled, Execution, Result
<1>4. CallsInv
  BY <1>3 DEF SdkInit, CallsInv, In
<1>5. TellsTrue
  BY <1>3 DEF SdkInit, TellsTrue, Tells
<1>6. QED
  BY <1>1, <1>2, <1>4, <1>5 DEF SdkInv

LEMMA SdkStep == SdkInv /\ [SdkNext]_sdkVars => SdkInv'
<1> SUFFICES ASSUME SdkInv, [SdkNext]_sdkVars PROVE SdkInv'
  OBVIOUS
<1> USE DEF SdkInv
<1>1. [RelayerNext]_allVars /\ CallsInv'
  BY SdkGoes, CallsGoOn
<1>2. RelayerInv'
  BY <1>1, RelayerStep
<1>3. TablesInv'
  BY <1>1, RelayerGoes, TablesStay DEF RelayerInv
<1>4. TellsTrue'
  BY <1>2, TellingStaysTrue
<1>5. QED
  BY <1>1, <1>2, <1>3, <1>4

(* The inductive invariant of the calls over the relayer: its own, what the      *)
(* tables know of successes and of what was sent, and what the calls were told.  *)
THEOREM SdkInvariant == SdkSpec => []SdkInv
BY SdkStarts, SdkStep, PTL DEF SdkSpec

LEMMA InvImpliesAdvance == SdkInv => SuccessAdvancesNonce
<1> SUFFICES ASSUME SdkInv, NEW c \in Clients, call[c].result = "success", foreign = 0
             PROVE  wallet.lastNonce > call[c].nonce
  BY DEF SuccessAdvancesNonce
<1> USE DEF SdkInv, RelayerInv, QueueInv
<1>1. ~In(c, "idle") /\ HasSucceeded(MsgOf[Request(c)])
  BY DEF CallsInv, TellsTrue, Tells
<1>2. PICK i \in DOMAIN finalMessages : finalMessages[i].message = MsgOf[Request(c)] /\ finalMessages[i].tx # 0
  BY <1>1 DEF HasSucceeded
<1>3. NonceOf[finalMessages[i].message] < wallet.lastNonce
  BY <1>2, SuccessSpendsNonce DEF ContestInv
<1>4. NonceOf[finalMessages[i].message] = call[c].nonce /\ call[c].nonce \in Nat /\ wallet.lastNonce \in Nat
  BY <1>1, <1>2, CallHasMessage, MessagesAssumption DEF TypeOK, Storage
<1>5. QED
  BY <1>3, <1>4

LEMMA InvImpliesOneSuccess == SdkInv => OneSuccessPerNonce
<1> SUFFICES ASSUME SdkInv, NEW c \in Clients, NEW d \in Clients, call[c].result = "success"
             PROVE  /\ call[d].result = "success" /\ foreign = 0 /\ call[c].nonce = call[d].nonce
                          => MsgOf[Request(c)] = MsgOf[Request(d)]
                    /\ crashes + faults + foreign = 0 => Executed(MsgOf[Request(c)]) # {}
  BY DEF OneSuccessPerNonce
<1> USE DEF SdkInv, RelayerInv, QueueInv
<1>1. ASSUME NEW e \in Clients, call[e].result = "success"
      PROVE  /\ NonceOf[MsgOf[Request(e)]] = call[e].nonce
             /\ \E i \in DOMAIN finalMessages :
                   finalMessages[i].message = MsgOf[Request(e)] /\ finalMessages[i].tx # 0
  <2>1. ~In(e, "idle") /\ HasSucceeded(MsgOf[Request(e)])
    BY <1>1 DEF CallsInv, TellsTrue, Tells
  <2>2. QED
    BY <2>1, CallHasMessage DEF HasSucceeded
<1>2. PICK i \in DOMAIN finalMessages : finalMessages[i].message = MsgOf[Request(c)] /\ finalMessages[i].tx # 0
  BY <1>1
<1>3. ASSUME call[d].result = "success", foreign = 0, call[c].nonce = call[d].nonce
      PROVE  MsgOf[Request(c)] = MsgOf[Request(d)]
  <2>1. PICK j \in DOMAIN finalMessages : finalMessages[j].message = MsgOf[Request(d)] /\ finalMessages[j].tx # 0
    BY <1>1, <1>3
  <2>2. SameNonce(finalMessages[i].message, finalMessages[j].message)
    BY <1>1, <1>2, <1>3, <2>1 DEF SameNonce
  <2>3. QED
    BY <1>2, <1>3, <2>1, <2>2 DEF TablesInv, SuccessIsAlone
<1>4. ASSUME crashes = 0, faults = 0, foreign = 0 PROVE Executed(MsgOf[Request(c)]) # {}
  <2>1. PICK p \in Messages : /\ Executed(p) # {}
                              /\ p = finalMessages[i].message \/ Failed(p)
    BY <1>2, <1>4 DEF ContestInv, SuccessIsDecided, Decided
  <2>2. ASSUME Failed(p) PROVE FALSE
    <3>1. PICK j \in DOMAIN finalMessages : finalMessages[j].message = p /\ finalMessages[j].error
      BY <2>2 DEF Failed
    <3>2. finalMessages[j].tx = 0
      BY <1>4, <3>1 DEF TablesInv, SentIsKnown
    <3>3. ~Unsent(p)
      BY <2>1 DEF Executed, Unsent
    <3>4. PICK l \in Loops : HasSent(l) /\ loop[l].row = j
      BY <1>4, <3>1, <3>2, <3>3 DEF TablesInv, SentIsKnown
    <3>5. ~Resolved(finalMessages[j])
      BY <3>4 DEF ContestInv, LoopWorksAlone, Working, Busy, HasSent, Current, At
    <3>6. QED
      BY <3>1, <3>5 DEF Resolved
  <2>3. QED
    BY <1>2, <2>1, <2>2
<1>5. crashes + faults + foreign = 0 => crashes = 0 /\ faults = 0 /\ foreign = 0
  BY DEF TypeOK
<1>6. QED
  BY <1>3, <1>4, <1>5

LEMMA InvImpliesToldIsKept == SdkInv => ToldIsKept
BY StatusIsOfRow DEF SdkInv, RelayerInv, QueueInv, TellsTrue, Tells, ToldIsKept

(* A success has used up its nonce, unless the wallet is used through another    *)
(* relayer too (sdk.ts:163-187, MessageQueueService.ts:24-26).                   *)
THEOREM SuccessesAdvance == SdkSpec => []SuccessAdvancesNonce
BY SdkInvariant, InvImpliesAdvance, PTL

(* Of the calls that read one nonce those that are told success are told it of   *)
(* one message, which was executed when nothing has failed (sdk.ts:173-187 has no*)
(* lock around reading, signing and posting).                                    *)
THEOREM SuccessesAreAlone == SdkSpec => []OneSuccessPerNonce
BY SdkInvariant, InvImpliesOneSuccess, PTL

(* What a call was told stays true: an error for ever, a success while no call of*)
(* the loop fails (sdk.ts:163-171, MessageQueueService.ts:24-28).                *)
THEOREM WhatWasToldStaysTrue == SdkSpec => []ToldIsKept
BY SdkInvariant, InvImpliesToldIsKept, PTL
================================================================================
