-------------------------- MODULE WalletContract_proofs --------------------------
(* Proofs of the safety of the wallet contract, for every number of addresses,  *)
(* messages, signatures and nested executions: its invariant, and what          *)
(* executeSigned promises, that is who has signed a message that runs and the   *)
(* ledger of executions that readers of the chain see.                          *)
EXTENDS WalletContract, WalletOps_proofs, FunctionTheorems

(* Accounted looks only at the events and the nonce of the storage, at the      *)
(* nonces of the frames and at which of them are open.                          *)
LEMMA AccountedIsLocal ==
    ASSUME NEW s, NEW fs, NEW t, NEW gs, NEW n \in Nat,
           t.log = s.log, t.lastNonce = s.lastNonce,
           \A i \in 1..n : gs[i].nonce = fs[i].nonce,
           Open(gs, n) = Open(fs, n),
           Accounted(s, fs, n)
    PROVE  Accounted(t, gs, n)
<1>1. \A i \in Open(fs, n) : gs[i].nonce = fs[i].nonce
  BY DEF Open
<1>2. QED
  BY <1>1 DEF Accounted

(* One more frame is open or it is not.                                         *)
LEMMA OneMoreFrame ==
    ASSUME NEW fs, NEW n \in Nat
    PROVE  /\ 1..(n + 1) = 1..n \cup {n + 1} /\ n + 1 \notin 1..n /\ Open(fs, n) \subseteq 1..n
           /\ Open(fs, n + 1) = IF fs[n + 1].status = "refunding" THEN Open(fs, n)
                                ELSE Open(fs, n) \cup {n + 1}
<1>1. 1..(n + 1) = 1..n \cup {n + 1} /\ n + 1 \notin 1..n
  OBVIOUS
<1>2. QED
  BY <1>1 DEF Open

(* A frame whose event is out may be popped.                                    *)
LEMMA RefundedIsAccounted ==
    ASSUME NEW s, NEW fs, NEW n \in Nat, Accounted(s, fs, n + 1), fs[n + 1].status = "refunding"
    PROVE  Accounted(s, fs, n)
<1>1. Open(fs, n + 1) = Open(fs, n) /\ 1..n \subseteq 1..(n + 1)
  BY OneMoreFrame
<1>2. QED
  BY <1>1 DEF Accounted

(* A message that passes the nonce check takes the next number.                 *)
LEMMA TakingTheNonce ==
    ASSUME NEW s \in Storage, NEW fs, NEW n \in Nat, \A i \in 1..n : fs[i].nonce \in Nat,
           Accounted(s, fs, n), fs[n + 1].nonce = s.lastNonce, fs[n + 1].status # "refunding"
    PROVE  /\ IncrementNonce(s) \in Storage
           /\ IncrementNonce(s).log = s.log
           /\ Accounted(IncrementNonce(s), fs, n + 1)
<1> DEFINE t == IncrementNonce(s)
<1>1. /\ t \in Storage /\ t.log = s.log /\ t.lastNonce = s.lastNonce + 1
  BY DEF IncrementNonce, Storage
<1>2. s.lastNonce \in Nat /\ \A e \in s.log : e.nonce \in Nat
  BY DEF Storage
<1>3. /\ 1..(n + 1) = 1..n \cup {n + 1} /\ n + 1 \notin 1..n /\ Open(fs, n) \subseteq 1..n
      /\ Open(fs, n + 1) = Open(fs, n) \cup {n + 1}
  BY OneMoreFrame
<1>4. \A k \in 0..(t.lastNonce - 1) : k \in 0..(s.lastNonce - 1) \/ k = s.lastNonce
  BY <1>1, <1>2
<1>5. \A k \in 0..(t.lastNonce - 1) :
        (\E e \in t.log : e.nonce = k) \/ (\E i \in Open(fs, n + 1) : fs[i].nonce = k)
  BY <1>1, <1>3, <1>4 DEF Accounted
<1>6. \A i \in 1..n : fs[i].nonce < s.lastNonce
  BY DEF Accounted
<1>7. /\ \A e \in t.log : e.nonce < t.lastNonce
      /\ \A i \in 1..(n + 1) : fs[i].nonce < t.lastNonce
  <2>1. \A e \in s.log : e.nonce < s.lastNonce + 1
    BY <1>2 DEF Accounted
  <2>2. \A i \in 1..n : fs[i].nonce < s.lastNonce + 1
    BY <1>2, <1>6 DEF Accounted
  <2>3. QED
    BY <1>1, <1>2, <1>3, <2>1, <2>2
<1>8. \A d, e \in t.log : d.nonce = e.nonce => d = e
  BY <1>1 DEF Accounted
<1>9. \A i, j \in Open(fs, n + 1) : fs[i].nonce = fs[j].nonce => i = j
  <2>1. \A i \in Open(fs, n) : fs[i].nonce # s.lastNonce
    BY <1>2, <1>3, <1>6
  <2>2. QED
    BY <1>3, <2>1 DEF Accounted
<1>10. \A e \in t.log, i \in Open(fs, n + 1) : e.nonce # fs[i].nonce
  BY <1>1, <1>2, <1>3 DEF Accounted
<1>11. QED
  BY <1>1, <1>5, <1>7, <1>8, <1>9, <1>10 DEF Accounted

(* The event of an execution stands for its frame, which is open no longer.     *)
LEMMA RecordingTheEvent ==
    ASSUME NEW s \in Storage, NEW fs, NEW gs, NEW n \in Nat, NEW b \in BOOLEAN,
           fs[n].nonce \in Nat, n \in Open(fs, n), Accounted(s, fs, n),
           \A i \in 1..n : gs[i].nonce = fs[i].nonce,
           Open(gs, n) = Open(fs, n) \ {n}
    PROVE  LET t == EmitExecutedSigned(s, [nonce |-> fs[n].nonce, success |-> b])
           IN  t \in Storage /\ s.log \subseteq t.log /\ Accounted(t, gs, n)
<1> DEFINE event == [nonce |-> fs[n].nonce, success |-> b]
           t == EmitExecutedSigned(s, event)
<1>1. t \in Storage /\ t.log = s.log \cup {event} /\ t.lastNonce = s.lastNonce
  BY DEF EmitExecutedSigned, Storage
<1>2. event.nonce = fs[n].nonce
  OBVIOUS
<1>3. Open(fs, n) \subseteq 1..n /\ \A i \in Open(fs, n) : gs[i].nonce = fs[i].nonce
  BY DEF Open
<1> HIDE DEF event, t
<1>4. \A k \in 0..(t.lastNonce - 1) :
        (\E e \in t.log : e.nonce = k) \/ (\E i \in Open(gs, n) : gs[i].nonce = k)
  BY <1>1, <1>2, <1>3 DEF Accounted
<1>5. /\ \A e \in t.log : e.nonce < t.lastNonce
      /\ \A i \in 1..n : gs[i].nonce < t.lastNonce
  BY <1>1, <1>2, <1>3 DEF Accounted
<1>6. \A d, e \in t.log : d.nonce = e.nonce => d = e
  BY <1>1, <1>2, <1>3 DEF Accounted
<1>7. /\ \A i, j \in Open(gs, n) : gs[i].nonce = gs[j].nonce => i = j
      /\ \A e \in t.log, i \in Open(gs, n) : e.nonce # gs[i].nonce
  BY <1>1, <1>2, <1>3 DEF Accounted
<1>8. QED
  BY <1>1, <1>4, <1>5, <1>6, <1>7 DEF Accounted, event, t

--------------------------------------------------------------------------------
(* What the steps do to the stack: an inner call that ends changes no nonce and *)
(* no snapshot, a frame that ends leaves those below it as they are.            *)
LEMMA FramesHaveNonces ==
    ASSUME NEW fs \in Seq(Frame)
    PROVE  \A i \in 1..Len(fs) : fs[i].nonce \in Nat
<1>1. \A i \in 1..Len(fs) : fs[i] \in Frame
  BY ElementOfSeq
<1>2. QED
  BY <1>1 DEF Frame

LEMMA ReturnedKeepsFrames ==
    ASSUME stack \in Seq(Frame), stack # <<>>, NEW r \in {"ok", "failed", "refunding"}
    PROVE  /\ Returned(r) \in Seq(Frame) /\ Len(Returned(r)) = Len(stack)
           /\ \A i \in 1..Len(stack) :
                 /\ Returned(r)[i].nonce = stack[i].nonce
                 /\ Returned(r)[i].before = stack[i].before
                 /\ Returned(r)[i].status = IF i = Len(stack) THEN r ELSE stack[i].status
<1> DEFINE f == [stack[Len(stack)] EXCEPT !.status = r]
<1>1. Len(stack) \in 1..Len(stack) /\ stack[Len(stack)] \in Frame
  OBVIOUS
<1>2. /\ f \in Frame /\ f.status = r
      /\ f.nonce = stack[Len(stack)].nonce /\ f.before = stack[Len(stack)].before
  BY <1>1 DEF Frame
<1>3. Returned(r) = [stack EXCEPT ![Len(stack)] = f]
  BY DEF Returned
<1> HIDE DEF f
<1>4. /\ Returned(r) \in Seq(Frame) /\ Len(Returned(r)) = Len(stack)
      /\ \A i \in 1..Len(stack) : Returned(r)[i] = IF i = Len(stack) THEN f ELSE stack[i]
  BY <1>1, <1>2, <1>3, ExceptSeq
<1>5. QED
  BY <1>2, <1>4

LEMMA BelowKeepsFrames ==
    ASSUME stack \in Seq(Frame), stack # <<>>
    PROVE  /\ Below \in Seq(Frame) /\ Len(Below) = Len(stack) - 1 /\ Len(stack) - 1 \in Nat
           /\ \A i \in 1..(Len(stack) - 1) : Below[i] = stack[i]
<1>1. Len(stack) \in Nat \ {0}
  BY EmptySeq
<1>2. \A i \in 1..(Len(stack) - 1) : stack[i] \in Frame
  BY <1>1
<1> DEFINE n == Len(stack) - 1
<1>3. n \in Int /\ 1 \in Int /\ \A i \in 1..n : stack[i] \in Frame
  BY <1>1, <1>2
<1> HIDE DEF n
<1>4. /\ SubSeq(stack, 1, n) \in Seq(Frame)
      /\ Len(SubSeq(stack, 1, n)) = IF 1 <= n THEN n - 1 + 1 ELSE 0
      /\ \A i \in 1..(n - 1 + 1) : SubSeq(stack, 1, n)[i] = stack[1 + i - 1]
  BY <1>3, SubSeqProperties
<1>5. n \in Nat /\ n - 1 + 1 = n /\ \A i \in 1..n : 1 + i - 1 = i
  BY <1>1 DEF n
<1>6. QED
  BY <1>4, <1>5 DEF Below, n

(* The top frame, and its snapshot.                                             *)
LEMMA TopIsSound ==
    ASSUME TypeOK, SnapshotsSound, stack # <<>>
    PROVE  /\ Len(stack) \in Nat \ {0} /\ Len(stack) - 1 \in Nat
           /\ Top \in Frame /\ Top.before \in Storage /\ Top.nonce \in Nat
           /\ Top.nonce = Top.before.lastNonce
           /\ Accounted(Top.before, stack, Len(stack) - 1)
           /\ KeysWellCounted(Top.before)
           /\ \A j \in 1..Len(stack) : stack[j].before.log \subseteq Top.before.log
<1>1. Len(stack) \in Nat \ {0} /\ Len(stack) \in 1..Len(stack) /\ Top \in Frame
  BY DEF TypeOK, Top
<1>2. QED
  BY <1>1 DEF SnapshotsSound, Top, Frame

(* A call that ends leaves its frame open, a frame that refunds is not.         *)
LEMMA ReturnedOpens ==
    ASSUME stack \in Seq(Frame), stack # <<>>, Top.status # "refunding",
           NEW r \in {"ok", "failed", "refunding"}
    PROVE  LET n == Len(stack)
           IN  /\ n \in Open(stack, n)
               /\ Open(Returned(r), n) = IF r = "refunding" THEN Open(stack, n) \ {n}
                                         ELSE Open(stack, n)
<1>1. Len(stack) \in 1..Len(stack)
  OBVIOUS
<1>2. \A i \in 1..Len(stack) :
        Returned(r)[i].status = IF i = Len(stack) THEN r ELSE stack[i].status
  BY ReturnedKeepsFrames
<1>3. QED
  BY <1>1, <1>2 DEF Open, Top

LEMMA ReturnedIsAccounted ==
    ASSUME stack \in Seq(Frame), Calling, NEW r \in {"ok", "failed"},
           NEW s, Accounted(s, stack, Len(stack))
    PROVE  Accounted(s, Returned(r), Len(Returned(r)))
<1>1. /\ Len(stack) \in Nat /\ Len(Returned(r)) = Len(stack)
      /\ \A i \in 1..Len(stack) : Returned(r)[i].nonce = stack[i].nonce
  BY LenProperties, ReturnedKeepsFrames DEF Calling
<1>2. Open(Returned(r), Len(stack)) = Open(stack, Len(stack))
  BY ReturnedOpens DEF Calling
<1>3. QED
  BY <1>1, <1>2, AccountedIsLocal

(* The snapshots stay sound when no frame is added, none of those left changes  *)
(* its nonce or snapshot, none below another its status, and the wallet has     *)
(* every event they have.                                                       *)
LEMMA SnapshotsStaySound ==
    ASSUME SnapshotsSound, Len(stack') \in Nat, Len(stack) \in Nat, Len(stack') <= Len(stack),
           \A i \in 1..Len(stack') : /\ stack'[i].nonce = stack[i].nonce
                                     /\ stack'[i].before = stack[i].before
                                     /\ stack[i].before.log \subseteq wallet'.log
                                     /\ i < Len(stack') => stack'[i].status = stack[i].status
    PROVE  SnapshotsSound'
<1> SUFFICES ASSUME NEW i \in 1..Len(stack')
             PROVE  /\ stack'[i].nonce = stack'[i].before.lastNonce
                    /\ Accounted(stack'[i].before, stack', i - 1)
                    /\ KeysWellCounted(stack'[i].before)
                    /\ stack'[i].before.log \subseteq wallet'.log
                    /\ \A j \in 1..i : stack'[j].before.log \subseteq stack'[i].before.log
  BY DEF SnapshotsSound, Accounted, Open, KeysWellCounted
<1>1. i \in 1..Len(stack) /\ i - 1 \in Nat /\ \A j \in 1..i : j \in 1..Len(stack')
  OBVIOUS
<1>2. Accounted(stack[i].before, stack, i - 1)
  BY <1>1 DEF SnapshotsSound
<1>3. \A j \in 1..(i - 1) : /\ stack'[j].nonce = stack[j].nonce
                             /\ stack'[j].status = stack[j].status
  BY <1>1
<1>4. Accounted(stack'[i].before, stack', i - 1)
  <2>1. Open(stack', i - 1) = Open(stack, i - 1)
    BY <1>3 DEF Open
  <2>2. QED
    BY <1>1, <1>2, <1>3, <2>1, AccountedIsLocal
<1>5. QED
  BY <1>1, <1>4 DEF SnapshotsSound

--------------------------------------------------------------------------------
(* The inductive invariant holds of a fresh wallet ...                          *)
LEMMA InitSound == Init => IInv
<1> SUFFICES ASSUME Init PROVE IInv
  OBVIOUS
<1>1. PICK k \in Addr : wallet = Initialized(k)
  BY ActorsAssumption DEF Init
<1>2. stack = <<>> /\ Len(stack) = 0 /\ stack \in Seq(Frame)
  BY EmptySeq DEF Init
<1>3. TypeOK /\ KeyCountWithinOwned /\ wallet.log = {} /\ wallet.lastNonce = 0
  BY <1>1, <1>2, InitializedIsSound DEF TypeOK, KeyCountWithinOwned
<1>4. NoncesAccountedFor
  BY <1>2, <1>3 DEF NoncesAccountedFor, Accounted, Open
<1>5. SnapshotsSound
  BY <1>2 DEF SnapshotsSound
<1>6. QED
  BY <1>3, <1>4, <1>5 DEF IInv

(* ... and every step keeps it.  First the steps in which a method of the       *)
(* wallet runs, called by sender.                                               *)
LEMMA MethodKeepsStorage ==
    ASSUME TypeOK, KeyCountWithinOwned, NEW sender, NEW c \in MsgCalls,
           Allowed(wallet, sender, c), wallet' = Effect(wallet, c)
    PROVE  /\ wallet' \in Storage /\ wallet'.log = wallet.log
           /\ wallet'.lastNonce = wallet.lastNonce /\ KeysWellCounted(wallet')
BY EffectIsSound, ActorsAssumption DEF TypeOK, KeyCountWithinOwned

LEMMA DirectCallKeepsIInv ==
    ASSUME IInv, NEW sender \in Addr, NEW c \in MsgCalls, DirectCall(sender, c)
    PROVE  IInv'
<1>1. /\ wallet' \in Storage /\ wallet'.log = wallet.log
      /\ wallet'.lastNonce = wallet.lastNonce /\ KeysWellCounted(wallet') /\ stack' = stack
  BY MethodKeepsStorage DEF IInv, DirectCall
<1>2. Len(stack) \in Nat
  BY LenProperties DEF IInv, TypeOK
<1>3. TypeOK' /\ KeyCountWithinOwned'
  BY <1>1 DEF IInv, TypeOK, KeyCountWithinOwned, KeysWellCounted
<1>4. NoncesAccountedFor'
  <2>1. Accounted(wallet', stack', Len(stack'))
    BY <1>1, <1>2, AccountedIsLocal DEF IInv, NoncesAccountedFor
  <2>2. QED
    BY <2>1 DEF NoncesAccountedFor, Accounted, Open
<1>5. SnapshotsSound'
  <2>1. \A i \in 1..Len(stack) : stack[i].before.log \subseteq wallet'.log
    BY <1>1 DEF IInv, SnapshotsSound
  <2>2. QED
    BY <1>1, <1>2, <2>1, SnapshotsStaySound DEF IInv
<1>6. QED
  BY <1>3, <1>4, <1>5 DEF IInv

(* Then the steps that end the call of a message, with the storage it left.     *)
LEMMA ReturnKeepsIInv ==
    ASSUME IInv, stack # <<>>, NEW r \in {"ok", "failed", "refunding"}, stack' = Returned(r),
           wallet' \in Storage, KeysWellCounted(wallet'),
           Accounted(wallet', stack', Len(stack')),
           \A i \in 1..Len(stack) : stack[i].before.log \subseteq wallet'.log
    PROVE  IInv'
<1>1. /\ stack' \in Seq(Frame) /\ Len(stack') = Len(stack)
      /\ \A i \in 1..Len(stack) :
            /\ stack'[i].nonce = stack[i].nonce /\ stack'[i].before = stack[i].before
            /\ i < Len(stack') => stack'[i].status = stack[i].status
  BY ReturnedKeepsFrames DEF IInv, TypeOK
<1>2. Len(stack) \in Nat
  BY LenProperties DEF IInv, TypeOK
<1>3. TypeOK' /\ KeyCountWithinOwned'
  BY <1>1 DEF TypeOK, KeyCountWithinOwned, KeysWellCounted
<1>4. NoncesAccountedFor'
  BY DEF NoncesAccountedFor, Accounted, Open
<1>5. SnapshotsSound'
  BY <1>1, <1>2, SnapshotsStaySound DEF IInv
<1>6. QED
  BY <1>3, <1>4, <1>5 DEF IInv

(* And those that end an executeSigned, with the storage it left.               *)
LEMMA PopKeepsIInv ==
    ASSUME IInv, stack # <<>>, stack' = Below,
           wallet' \in Storage, KeysWellCounted(wallet'),
           Accounted(wallet', stack, Len(stack) - 1),
           \A i \in 1..Len(stack) : stack[i].before.log \subseteq wallet'.log
    PROVE  IInv'
<1>1. /\ stack' \in Seq(Frame) /\ Len(stack') = Len(stack) - 1 /\ Len(stack) - 1 \in Nat
      /\ \A i \in 1..(Len(stack) - 1) : stack'[i] = stack[i]
  BY BelowKeepsFrames DEF IInv, TypeOK
<1>2. Len(stack) \in Nat
  BY LenProperties DEF IInv, TypeOK
<1>3. TypeOK' /\ KeyCountWithinOwned'
  BY <1>1 DEF TypeOK, KeyCountWithinOwned, KeysWellCounted
<1>4. Accounted(wallet', stack', Len(stack'))
  <2>1. Open(stack', Len(stack')) = Open(stack, Len(stack'))
    BY <1>1 DEF Open
  <2>2. QED
    BY <1>1, <2>1, AccountedIsLocal
<1>5. NoncesAccountedFor'
  BY <1>4 DEF NoncesAccountedFor, Accounted, Open
<1>6. SnapshotsSound'
  BY <1>1, <1>2, SnapshotsStaySound DEF IInv
<1>7. QED
  BY <1>3, <1>5, <1>6 DEF IInv

(* Entering executeSigned pushes a frame whose snapshot is the storage at that  *)
(* moment and whose nonce is the one the message takes.                         *)
LEMMA EnterKeepsIInv ==
    ASSUME IInv, NEW nonce \in 0..MaxNonce, NEW c \in MsgCall, NEW token \in Contracts \cup {ETHER},
           NEW sigs \in SigSeqs, EnterExecuteSigned(nonce, c, token, sigs)
    PROVE  IInv'
<1> DEFINE n == Len(stack)
           f == [nonce |-> nonce, call |-> c, token |-> token, sigs |-> sigs,
                 before |-> wallet, status |-> "calling"]
<1>1. wallet \in Storage /\ stack \in Seq(Frame) /\ n \in Nat
  BY LenProperties DEF IInv, TypeOK
<1>2. nonce = wallet.lastNonce /\ nonce \in Nat
  BY BoundsAssumption DEF EnterExecuteSigned, ExecuteSignedAllowed
<1>3. sigs \in Seq(Signers)
  BY BoundsAssumption, SeqDef DEF SigSeqs
<1>4. f \in Frame
  BY <1>1, <1>2, <1>3 DEF Frame
<1>5. stack' = Append(stack, f) /\ wallet' = IncrementNonce(wallet)
  BY DEF EnterExecuteSigned
<1>6. f.nonce = wallet.lastNonce /\ f.before = wallet /\ f.status # "refunding"
  BY <1>2
<1> HIDE DEF f
<1>7. /\ stack' \in Seq(Frame) /\ Len(stack') = n + 1 /\ stack'[n + 1] = f
      /\ \A i \in 1..n : stack'[i] = stack[i]
  BY <1>1, <1>4, <1>5, AppendProperties
<1>8. Accounted(wallet, stack', n)
  <2>1. Open(stack', n) = Open(stack, n)
    BY <1>7 DEF Open
  <2>2. QED
    BY <1>1, <1>7, <2>1, AccountedIsLocal DEF IInv, NoncesAccountedFor
<1>9. \A i \in 1..n : stack'[i].nonce \in Nat
  BY <1>1, <1>7, FramesHaveNonces
<1>10. wallet' \in Storage /\ wallet'.log = wallet.log /\ Accounted(wallet', stack', n + 1)
  BY <1>1, <1>5, <1>6, <1>7, <1>8, <1>9, TakingTheNonce
<1>11. TypeOK'
  BY <1>7, <1>10 DEF TypeOK
<1>12. NoncesAccountedFor'
  BY <1>7, <1>10 DEF NoncesAccountedFor, Accounted, Open
<1>13. KeyCountWithinOwned'
  BY <1>1, <1>5 DEF IInv, KeyCountWithinOwned, KeysWellCounted, IncrementNonce, Storage
<1>14. ASSUME NEW i \in 1..(n + 1)
       PROVE  /\ stack'[i].nonce = stack'[i].before.lastNonce
              /\ Accounted(stack'[i].before, stack', i - 1)
              /\ KeysWellCounted(stack'[i].before)
              /\ stack'[i].before.log \subseteq wallet'.log
              /\ \A j \in 1..i : stack'[j].before.log \subseteq stack'[i].before.log
  <2>1. CASE i = n + 1
    <3>1. \A j \in 1..n : stack'[j].before.log \subseteq wallet.log
      BY <1>1, <1>7 DEF IInv, SnapshotsSound
    <3>2. \A j \in 1..(n + 1) : j \in 1..n \/ j = n + 1
      BY <1>1
    <3>3. n + 1 - 1 = n
      BY <1>1
    <3>4. QED
      BY <2>1, <1>6, <1>7, <1>8, <1>10, <3>1, <3>2, <3>3 DEF IInv, KeyCountWithinOwned
  <2>2. CASE i \in 1..n
    <3>1. i - 1 \in Nat /\ \A j \in 1..i : j \in 1..n
      BY <1>1, <2>2
    <3>2. /\ stack[i].nonce = stack[i].before.lastNonce
          /\ Accounted(stack[i].before, stack, i - 1) /\ KeysWellCounted(stack[i].before)
          /\ stack[i].before.log \subseteq wallet.log
          /\ \A j \in 1..i : stack[j].before.log \subseteq stack[i].before.log
      BY <2>2 DEF IInv, SnapshotsSound
    <3>3. \A j \in 1..(i - 1) : stack'[j] = stack[j]
      BY <1>7, <2>2, <3>1
    <3>4. Accounted(stack[i].before, stack', i - 1)
      <4>1. Open(stack', i - 1) = Open(stack, i - 1)
        BY <3>3 DEF Open
      <4>2. QED
        BY <3>1, <3>2, <3>3, <4>1, AccountedIsLocal
    <3>5. QED
      BY <1>7, <1>10, <2>2, <3>1, <3>2, <3>4
  <2>3. QED
    BY <1>1, <2>1, <2>2
<1>15. SnapshotsSound'
  BY <1>7, <1>14 DEF SnapshotsSound, Accounted, Open, KeysWellCounted
<1>16. QED
  BY <1>11, <1>12, <1>13, <1>15 DEF IInv

LEMMA StepKeepsIInv == IInv /\ [Next]_vars => IInv'
<1> SUFFICES ASSUME IInv, [Next]_vars PROVE IInv'
  OBVIOUS
<1> USE DEF IInv
<1>1. ASSUME NEW sender \in Addr, NEW c \in MsgCalls, DirectCall(sender, c) PROVE IInv'
  BY <1>1, DirectCallKeepsIInv
<1>2. ASSUME NEW nonce \in 0..MaxNonce, NEW c \in MsgCall, NEW token \in Contracts \cup {ETHER},
             NEW sigs \in SigSeqs, EnterExecuteSigned(nonce, c, token, sigs)
      PROVE  IInv'
  BY <1>2, EnterKeepsIInv
<1>3. CASE SelfCall
  <2>1. stack # <<>> /\ stack' = Returned("ok") /\ Top.call \in MsgCalls
    BY <1>3, TopIsSound DEF SelfCall, Calling, Frame, MsgCall
  <2>2. /\ wallet' \in Storage /\ wallet'.log = wallet.log
        /\ wallet'.lastNonce = wallet.lastNonce /\ KeysWellCounted(wallet')
    BY <1>3, <2>1, MethodKeepsStorage DEF SelfCall
  <2>3. Accounted(wallet', stack, Len(stack))
    BY <2>1, <2>2, LenProperties, AccountedIsLocal DEF NoncesAccountedFor, TypeOK
  <2>4. Accounted(wallet', stack', Len(stack'))
    BY <1>3, <2>1, <2>3, ReturnedIsAccounted DEF SelfCall, TypeOK
  <2>5. \A i \in 1..Len(stack) : stack[i].before.log \subseteq wallet'.log
    BY <2>2 DEF SnapshotsSound
  <2>6. QED
    BY <2>1, <2>2, <2>4, <2>5, ReturnKeepsIInv
<1>4. CASE ExternalReturns
  <2>1. stack # <<>> /\ stack' = Returned("ok") /\ wallet' = wallet
    BY <1>4 DEF ExternalReturns, Calling
  <2>2. Accounted(wallet', stack, Len(stack)) /\ KeysWellCounted(wallet') /\ wallet' \in Storage
    BY <2>1 DEF NoncesAccountedFor, KeyCountWithinOwned, TypeOK
  <2>3. Accounted(wallet', stack', Len(stack'))
    BY <1>4, <2>1, <2>2, ReturnedIsAccounted DEF ExternalReturns, TypeOK
  <2>4. \A i \in 1..Len(stack) : stack[i].before.log \subseteq wallet'.log
    BY <2>1 DEF SnapshotsSound
  <2>5. QED
    BY <2>1, <2>2, <2>3, <2>4, ReturnKeepsIInv
<1>5. CASE CallReverts
  <2>1. /\ stack # <<>> /\ stack' = Returned("failed") /\ wallet' = IncrementNonce(Top.before)
        /\ Top.status = "calling"
    BY <1>5 DEF CallReverts, Calling
  <2>2. /\ Len(stack) - 1 \in Nat /\ Len(stack) - 1 + 1 = Len(stack)
        /\ stack[Len(stack)].nonce = Top.before.lastNonce
        /\ stack[Len(stack)].status # "refunding"
        /\ Top.before \in Storage /\ Accounted(Top.before, stack, Len(stack) - 1)
    BY <2>1, TopIsSound DEF Top
  <2>3. \A i \in 1..(Len(stack) - 1) : stack[i].nonce \in Nat
    BY <2>2, FramesHaveNonces DEF TypeOK
  <2>4. /\ wallet' \in Storage /\ wallet'.log = Top.before.log
        /\ Accounted(wallet', stack, Len(stack))
    BY <2>1, <2>2, <2>3, TakingTheNonce
  <2>5. Accounted(wallet', stack', Len(stack'))
    BY <1>5, <2>1, <2>4, ReturnedIsAccounted DEF CallReverts, TypeOK
  <2>6. KeysWellCounted(wallet')
    BY <2>1, TopIsSound DEF KeysWellCounted, IncrementNonce, Storage
  <2>7. \A i \in 1..Len(stack) : stack[i].before.log \subseteq wallet'.log
    BY <2>1, <2>4, TopIsSound
  <2>8. QED
    BY <2>1, <2>4, <2>5, <2>6, <2>7, ReturnKeepsIInv
<1>6. CASE RecordExecution
  <2> DEFINE b == Top.status = "ok"
             n == Len(stack)
  <2>1. /\ stack # <<>> /\ stack' = Returned("refunding") /\ Top.status # "refunding"
        /\ wallet' = EmitExecutedSigned(wallet, [nonce |-> stack[n].nonce, success |-> b])
    BY <1>6 DEF RecordExecution, Top
  <2>2. n \in Nat /\ stack[n].nonce \in Nat /\ b \in BOOLEAN
    BY <2>1, TopIsSound DEF Top
  <2>3. /\ Len(stack') = n /\ \A i \in 1..n : stack'[i].nonce = stack[i].nonce
        /\ n \in Open(stack, n) /\ Open(stack', n) = Open(stack, n) \ {n}
    BY <2>1, ReturnedKeepsFrames, ReturnedOpens DEF TypeOK
  <2> HIDE DEF b
  <2>4. /\ wallet' \in Storage /\ wallet.log \subseteq wallet'.log
        /\ Accounted(wallet', stack', Len(stack'))
    BY <2>1, <2>2, <2>3, RecordingTheEvent DEF NoncesAccountedFor, TypeOK
  <2>5. KeysWellCounted(wallet')
    BY <2>1 DEF KeyCountWithinOwned, KeysWellCounted, EmitExecutedSigned, Storage, TypeOK
  <2>6. \A i \in 1..Len(stack) : stack[i].before.log \subseteq wallet'.log
    BY <2>4 DEF SnapshotsSound
  <2>7. QED
    BY <2>1, <2>4, <2>5, <2>6, ReturnKeepsIInv
<1>7. CASE FinishExecuteSigned
  <2>1. stack # <<>> /\ stack' = Below /\ wallet' = wallet /\ stack[Len(stack)].status = "refunding"
    BY <1>7 DEF FinishExecuteSigned, Refunding, Top
  <2>2. Len(stack) - 1 \in Nat /\ Len(stack) - 1 + 1 = Len(stack)
    BY <2>1, TopIsSound
  <2>3. Accounted(wallet', stack, Len(stack) - 1)
    BY <2>1, <2>2, RefundedIsAccounted DEF NoncesAccountedFor
  <2>4. /\ wallet' \in Storage /\ KeysWellCounted(wallet')
        /\ \A i \in 1..Len(stack) : stack[i].before.log \subseteq wallet'.log
    BY <2>1 DEF KeyCountWithinOwned, SnapshotsSound, TypeOK
  <2>5. QED
    BY <2>1, <2>3, <2>4, PopKeepsIInv
<1>8. CASE ExecuteSignedReverts
  <2>1. stack # <<>> /\ stack' = Below /\ wallet' = Top.before
    BY <1>8 DEF ExecuteSignedReverts
  <2>2. QED
    BY <2>1, TopIsSound, PopKeepsIInv
<1>9. CASE UNCHANGED vars
  <2>1. wallet' = wallet /\ stack' = stack
    BY <1>9 DEF vars
  <2>2. TypeOK' /\ KeyCountWithinOwned'
    BY <2>1 DEF TypeOK, KeyCountWithinOwned, KeysWellCounted
  <2>3. NoncesAccountedFor'
    BY <2>1 DEF NoncesAccountedFor, Accounted, Open
  <2>4. SnapshotsSound'
    BY <2>1, LenProperties, SnapshotsStaySound DEF SnapshotsSound, TypeOK
  <2>5. QED
    BY <2>2, <2>3, <2>4
<1>10. QED
  BY <1>1, <1>2, <1>3, <1>4, <1>5, <1>6, <1>7, <1>8, <1>9 DEF Next

(* The inductive invariant holds for every set of addresses and every bound.    *)
THEOREM InductiveInvariant == Spec => []IInv
BY InitSound, StepKeepsIInv, PTL DEF Spec

(* The wallet and the frames in progress keep their types: no count or nonce    *)
(* is ever decremented below zero (KeyHolder.sol:80).                           *)
THEOREM TypesHold == Spec => []TypeOK
<1>1. IInv => TypeOK
  BY DEF IInv
<1>2. QED
  BY <1>1, InductiveInvariant, PTL

(* No nonce is executed twice and none is skipped, however deep executions nest *)
(* and whichever of them revert (ERC1077.sol:114-140).                          *)
THEOREM NoReplay == Spec => []NoncesAccountedFor
<1>1. IInv => NoncesAccountedFor
  BY DEF IInv
<1>2. QED
  BY <1>1, InductiveInvariant, PTL

(* keyCount is never above the number of keys, so setRequiredSignatures, which  *)
(* trusts it, admits no number of signatures that the keys of that moment       *)
(* cannot give (ERC1077.sol:51-55).                                             *)
THEOREM KeyCountIsSafe == Spec => []KeyCountWithinOwned
<1>1. IInv => KeyCountWithinOwned
  BY DEF IInv
<1>2. QED
  BY <1>1, InductiveInvariant, PTL

--------------------------------------------------------------------------------
(* What executeSigned promises.                                                  *)

(* areSignaturesValid compares neighbours only; that is enough to put all the   *)
(* signers in order.                                                            *)
LEMMA NeighboursSuffice ==
    ASSUME NEW n \in Nat, NEW f \in [1..n -> Nat],
           \A i \in 1..n : i > 1 => f[i - 1] < f[i]
    PROVE  \A i, j \in 1..n : i < j => f[i] < f[j]
<1> SUFFICES ASSUME NEW i \in 1..n, NEW m \in 1..n, i < m PROVE f[i] < f[m]
  OBVIOUS
<1>0. \A j \in 1..n : f[j] \in Nat
  OBVIOUS
<1> SUFFICES ASSUME f[m] <= f[i] PROVE FALSE
  BY <1>0
<1> DEFINE Bad == {j \in 1..n : i < j /\ f[j] <= f[i]}
<1>1. Bad \subseteq Nat /\ Bad # {}
  <2>1. m \in Bad
    OBVIOUS
  <2>2. \A j \in Bad : j \in Nat
    OBVIOUS
  <2>3. QED
    BY <2>1, <2>2
<1>2. PICK j \in Bad : \A k \in Bad : ~(k < j)
  <2> DEFINE R == OpToRel(<, Nat)
  <2>1. IsWellFoundedOn(R, Nat)
    BY NatLessThanWellFounded
  <2> HIDE DEF Bad, R
  <2>2. \E j \in Bad : \A k \in Bad : ~(<<k, j>> \in R)
    BY <1>1, <2>1, WFMin
  <2>3. \A k, j \in Bad : k < j => <<k, j>> \in R
    BY <1>1 DEF R, OpToRel
  <2>4. QED
    BY <2>2, <2>3
<1>3. j \in 1..n /\ i < j /\ f[j] <= f[i] /\ j - 1 \in 1..n /\ j > 1
  BY <1>2
<1>4. f[j - 1] < f[j] /\ f[i] \in Nat /\ f[j - 1] \in Nat /\ f[j] \in Nat
  BY <1>0, <1>3
<1>5. j - 1 \in Bad
  <2>1. ASSUME j - 1 = i PROVE FALSE
    <3>1. f[j - 1] = f[i]
      BY <2>1, Zenon
    <3>2. QED
      BY <1>3, <1>4, <3>1
  <2>2. i < j - 1
    BY <1>3, <2>1
  <2>3. f[j - 1] <= f[i]
    BY <1>3, <1>4
  <2>4. QED
    BY <1>3, <2>2, <2>3
<1>6. QED
  BY <1>2, <1>3, <1>5

(* Hence valid signatures are those of as many different keys as there are      *)
(* signatures.                                                                  *)
LEMMA SignersAreDistinct ==
    ASSUME NEW s \in Storage, NEW n \in Nat, NEW sigs \in [1..n -> Signers], Len(sigs) = n,
           areSignaturesValid(s, sigs)
    PROVE  LET signers == {sigs[i] : i \in DOMAIN sigs}
           IN  signers \subseteq s.owned /\ Cardinality(signers) = n
<1> DEFINE signers == {sigs[i] : i \in DOMAIN sigs}
<1>1. /\ signers \subseteq s.owned /\ sigs \in [1..n -> Nat]
      /\ \A i \in 1..n : i > 1 => sigs[i - 1] < sigs[i]
  BY AddrAssumption DEF areSignaturesValid, Storage
<1>2. \A i, j \in 1..n : i < j => sigs[i] < sigs[j]
  BY <1>1, NeighboursSuffice
<1>3. \A i, j \in 1..n : sigs[i] = sigs[j] => i = j
  BY <1>1, <1>2
<1>4. sigs \in [1..n -> signers] /\ \A t \in signers : \E i \in 1..n : sigs[i] = t
  OBVIOUS
<1> HIDE DEF signers
<1>5. sigs \in Bijection(1..n, signers)
  BY <1>3, <1>4, Fun_IsBij
<1>6. ExistsBijection(1..n, signers) /\ IsFiniteSet(1..n) /\ Cardinality(1..n) = n
  BY <1>5, FS_Interval DEF ExistsBijection
<1>7. Cardinality(signers) = n
  BY <1>6, FS_Bijection
<1>8. QED
  BY <1>1, <1>7 DEF signers

(* A step that starts an execution has the signatures of at least as many       *)
(* different keys as the wallet requires (ERC1077.sol:125-128, 151-176).        *)
LEMMA EnterMeetsThreshold ==
    ASSUME IInv, NEW nonce \in 0..MaxNonce, NEW c \in MsgCall, NEW token \in Contracts \cup {ETHER},
           NEW sigs \in SigSeqs, EnterExecuteSigned(nonce, c, token, sigs)
    PROVE  LET signers == {stack'[Len(stack')].sigs[i] : i \in DOMAIN stack'[Len(stack')].sigs}
           IN  /\ signers \subseteq wallet.owned /\ signers # {}
               /\ Cardinality(signers) >= wallet.requiredSignatures
<1> DEFINE f == [nonce |-> nonce, call |-> c, token |-> token, sigs |-> sigs,
                 before |-> wallet, status |-> "calling"]
<1>1. PICK n \in 1..MaxSigs : sigs \in [1..n -> Signers]
  BY DEF SigSeqs
<1>2. n \in Nat /\ n > 0 /\ Len(sigs) = n /\ DOMAIN sigs = 1..n
  BY <1>1, BoundsAssumption
<1>3. areSignaturesValid(wallet, sigs) /\ n >= wallet.requiredSignatures /\ wallet \in Storage
  BY <1>2 DEF EnterExecuteSigned, ExecuteSignedAllowed, IInv, TypeOK
<1>4. stack' = Append(stack, f) /\ Len(stack) \in Nat
  BY LenProperties DEF EnterExecuteSigned, IInv, TypeOK
<1>5. stack'[Len(stack')].sigs = sigs
  BY <1>4
<1>6. {sigs[i] : i \in DOMAIN sigs} # {}
  <2>1. 1 \in DOMAIN sigs
    BY <1>2
  <2>2. sigs[1] \in {sigs[i] : i \in DOMAIN sigs}
    BY <2>1, Zenon
  <2>3. QED
    BY <2>2, Zenon
<1>7. /\ {sigs[i] : i \in DOMAIN sigs} \subseteq wallet.owned
      /\ Cardinality({sigs[i] : i \in DOMAIN sigs}) = n
  BY <1>1, <1>2, <1>3, SignersAreDistinct
<1>8. QED
  BY <1>3, <1>5, <1>6, <1>7

(* No other step makes the stack higher.                                        *)
LEMMA OnlyEnterPushes ==
    ASSUME IInv, [Next]_vars, Len(stack') > Len(stack)
    PROVE  \E nonce \in 0..MaxNonce, c \in MsgCall, token \in Contracts \cup {ETHER}, sigs \in SigSeqs :
               EnterExecuteSigned(nonce, c, token, sigs)
<1>0. Len(stack) \in Nat /\ stack \in Seq(Frame)
  BY LenProperties DEF IInv, TypeOK
<1>1. stack' # stack
  BY <1>0
<1>2. ~SelfCall /\ ~ExternalReturns /\ ~CallReverts /\ ~RecordExecution
  BY <1>0, ReturnedKeepsFrames DEF SelfCall, ExternalReturns, CallReverts, RecordExecution, Calling
<1>3. ~FinishExecuteSigned /\ ~ExecuteSignedReverts
  BY <1>0, BelowKeepsFrames DEF FinishExecuteSigned, ExecuteSignedReverts, Refunding
<1>4. QED
  BY <1>1, <1>2, <1>3 DEF Next, vars, DirectCall

(* No message runs without the signatures of as many different keys of the      *)
(* wallet as it requires at that moment, whatever keys are added and removed,   *)
(* also by the messages that run meanwhile (ERC1077.sol:125-128).               *)
THEOREM NoExecutionBelowThreshold == Spec => ThresholdMet
<1>1. IInv /\ [Next]_vars =>
        [Len(stack') > Len(stack) =>
          LET signers == {stack'[Len(stack')].sigs[i] : i \in DOMAIN stack'[Len(stack')].sigs}
          IN  /\ signers \subseteq wallet.owned /\ signers # {}
              /\ Cardinality(signers) >= wallet.requiredSignatures]_vars
  BY OnlyEnterPushes, EnterMeetsThreshold
<1>2. QED
  BY <1>1, InductiveInvariant, PTL DEF Spec, ThresholdMet

--------------------------------------------------------------------------------
(* With no frame in progress the events are numbered exactly 0 .. lastNonce - 1.*)
LEMMA EventsAreNumbered ==
    ASSUME NEW s \in Storage, NEW fs, Accounted(s, fs, 0)
    PROVE  /\ \A k \in 0..(s.lastNonce - 1) : \E e \in s.log : e.nonce = k
           /\ \A e \in s.log : e.nonce \in 0..(s.lastNonce - 1)
           /\ \A d, e \in s.log : d.nonce = e.nonce => d = e
<1>1. s.lastNonce \in Nat /\ \A e \in s.log : e.nonce \in Nat
  BY DEF Storage
<1>2. 1..0 = {} /\ Open(fs, 0) = {}
  BY DEF Open
<1>3. QED
  BY <1>1, <1>2 DEF Accounted

(* From one storage with no frame in progress to a later one, the ledger grows  *)
(* by a commit.                                                                 *)
LEMMA LaterStorageIsCommit ==
    ASSUME NEW s \in Storage, NEW t \in Storage, NEW fs, NEW gs,
           Accounted(s, fs, 0), Accounted(t, gs, 0),
           s.log \subseteq t.log, s.lastNonce < t.lastNonce
    PROVE  LET new == t.log \ s.log
           IN  /\ t.lastNonce \in Nat /\ t.lastNonce > s.lastNonce
               /\ \A e \in new : e.nonce \in s.lastNonce..(t.lastNonce - 1)
               /\ \A k \in s.lastNonce..(t.lastNonce - 1) : \E e \in new : e.nonce = k
               /\ \A d, e \in new : d.nonce = e.nonce => d = e
<1> DEFINE new == t.log \ s.log
<1>1. /\ s.lastNonce \in Nat /\ t.lastNonce \in Nat
      /\ \A k \in 0..(s.lastNonce - 1) : \E e \in s.log : e.nonce = k
      /\ \A e \in s.log : e.nonce \in 0..(s.lastNonce - 1)
      /\ \A k \in 0..(t.lastNonce - 1) : \E e \in t.log : e.nonce = k
      /\ \A e \in t.log : e.nonce \in 0..(t.lastNonce - 1)
      /\ \A d, e \in t.log : d.nonce = e.nonce => d = e
  BY EventsAreNumbered DEF Storage
<1>2. ASSUME NEW e \in new PROVE e.nonce \in s.lastNonce..(t.lastNonce - 1)
  <2>1. e.nonce \in 0..(t.lastNonce - 1)
    BY <1>1
  <2>2. e.nonce \notin 0..(s.lastNonce - 1)
    BY <1>1
  <2>3. QED
    BY <1>1, <2>1, <2>2
<1>3. ASSUME NEW k \in s.lastNonce..(t.lastNonce - 1) PROVE \E e \in new : e.nonce = k
  <2>1. k \in 0..(t.lastNonce - 1) /\ k \notin 0..(s.lastNonce - 1)
    BY <1>1
  <2>2. PICK e \in t.log : e.nonce = k
    BY <1>1, <2>1
  <2>3. e \notin s.log
    BY <1>1, <2>1, <2>2
  <2>4. QED
    BY <2>2, <2>3
<1>4. QED
  BY <1>1, <1>2, <1>3

(* What is committed changes only when the outermost execution ends well, or a  *)
(* key calls a method between transactions, and then only in its keys.          *)
LEMMA StepIsCommit ==
    ASSUME IInv, IInv', [Next]_vars
    PROVE  [Ledger!Commit]_<<Committed.lastNonce, Committed.log>>
<1>1. wallet \in Storage /\ wallet' \in Storage /\ stack \in Seq(Frame) /\ Len(stack) \in Nat
  BY LenProperties DEF IInv, TypeOK
<1>2. stack # <<>> => 1 \in 1..Len(stack) /\ Committed = stack[1].before
  BY <1>1, EmptySeq DEF Committed
<1>3. stack = <<>> => Committed = wallet
  BY DEF Committed
<1>4. ASSUME NEW sender \in Addr, NEW c \in MsgCalls, DirectCall(sender, c)
      PROVE  UNCHANGED <<Committed.lastNonce, Committed.log>>
  <2>1. wallet'.log = wallet.log /\ wallet'.lastNonce = wallet.lastNonce /\ stack' = stack
    BY <1>4, MethodKeepsStorage DEF IInv, DirectCall
  <2>2. QED
    BY <2>1 DEF Committed
<1>5. ASSUME NEW nonce \in 0..MaxNonce, NEW c \in MsgCall, NEW token \in Contracts \cup {ETHER},
             NEW sigs \in SigSeqs, EnterExecuteSigned(nonce, c, token, sigs)
      PROVE  UNCHANGED Committed
  <2>1. PICK f : stack' = Append(stack, f) /\ f.before = wallet
    <3>1. stack' = Append(stack, [nonce |-> nonce, call |-> c, token |-> token,
                                  sigs |-> sigs, before |-> wallet, status |-> "calling"])
      BY <1>5 DEF EnterExecuteSigned
    <3>2. QED
      BY <3>1
  <2>2. stack' # <<>> /\ stack'[1] = IF stack = <<>> THEN f ELSE stack[1]
    BY <1>1, <1>2, <2>1
  <2>3. QED
    BY <2>1, <2>2 DEF Committed
<1>6. ASSUME NEW r \in {"ok", "failed", "refunding"}, stack # <<>>, stack' = Returned(r)
      PROVE  UNCHANGED Committed
  <2>1. Len(stack') = Len(stack) /\ stack'[1].before = stack[1].before
    BY <1>1, <1>2, <1>6, ReturnedKeepsFrames
  <2>2. stack' # <<>>
    BY <1>1, <1>2, <1>6, <2>1
  <2>3. QED
    BY <1>6, <2>1, <2>2 DEF Committed
<1>7. CASE SelfCall \/ ExternalReturns \/ CallReverts \/ RecordExecution
  BY <1>6, <1>7 DEF SelfCall, ExternalReturns, CallReverts, RecordExecution, Calling
<1>8. ASSUME stack # <<>>, stack' = Below, stack' # <<>> PROVE UNCHANGED Committed
  <2>1. Len(stack) - 1 \in Nat \ {0} /\ stack'[1] = stack[1]
    BY <1>8, BelowKeepsFrames, EmptySeq DEF IInv, TypeOK
  <2>2. QED
    BY <1>8, <2>1 DEF Committed
<1>9. CASE FinishExecuteSigned /\ stack' = <<>>
  <2>1. stack # <<>> /\ Committed = stack[1].before /\ Committed' = wallet'
    BY <1>2, <1>9 DEF FinishExecuteSigned, Refunding, Committed
  <2>2. /\ stack[1].before \in Storage /\ stack[1] \in Frame
        /\ stack[1].nonce = stack[1].before.lastNonce
        /\ Accounted(stack[1].before, stack, 0)
        /\ stack[1].before.log \subseteq wallet.log
    <3>1. 1 \in 1..Len(stack) /\ stack[1] \in Frame /\ 1 - 1 = 0
      BY <1>1, <1>2, <2>1, ElementOfSeq
    <3>2. stack[1].before \in Storage
      BY <3>1 DEF Frame
    <3>3. /\ stack[1].nonce = stack[1].before.lastNonce
          /\ Accounted(stack[1].before, stack, 1 - 1)
          /\ stack[1].before.log \subseteq wallet.log
      BY <3>1 DEF IInv, SnapshotsSound
    <3>4. QED
      BY <3>1, <3>2, <3>3
  <2>3. stack[1].nonce < wallet.lastNonce
    BY <1>1, <1>2, <2>1 DEF IInv, NoncesAccountedFor, Accounted
  <2>4. wallet' = wallet
    BY <1>9 DEF FinishExecuteSigned
  <2>5. Accounted(wallet', stack', 0)
    BY <1>9 DEF IInv, NoncesAccountedFor, Accounted, Open
  <2>6. Committed \in Storage /\ Committed.log \subseteq Committed'.log
    BY <2>1, <2>2, <2>4
  <2>7. LET new == Committed'.log \ Committed.log
        IN  /\ Committed'.lastNonce \in Nat /\ Committed'.lastNonce > Committed.lastNonce
            /\ \A e \in new : e.nonce \in Committed.lastNonce..(Committed'.lastNonce - 1)
            /\ \A k \in Committed.lastNonce..(Committed'.lastNonce - 1) : \E e \in new : e.nonce = k
            /\ \A d, e \in new : d.nonce = e.nonce => d = e
    BY <1>1, <2>1, <2>2, <2>3, <2>4, <2>5, LaterStorageIsCommit
  <2>8. QED
    BY <2>6, <2>7 DEF Ledger!Commit
<1>10. CASE ExecuteSignedReverts /\ stack' = <<>>
  <2>1. stack # <<>> /\ Len(stack) = 1 /\ wallet' = stack[1].before
    <3>1. stack # <<>> /\ stack' = Below /\ wallet' = Top.before
      BY <1>10 DEF ExecuteSignedReverts
    <3>2. Len(stack') = Len(stack) - 1 /\ Len(stack') = 0
      BY <1>1, <1>10, <3>1, BelowKeepsFrames
    <3>3. Len(stack) = 1
      BY <1>1, <3>2
    <3>4. QED
      BY <3>1, <3>3 DEF Top
  <2>2. QED
    BY <1>10, <2>1 DEF Committed
<1>11. CASE UNCHANGED vars
  BY <1>11 DEF vars, Committed
<1>12. CASE FinishExecuteSigned \/ ExecuteSignedReverts
  BY <1>8, <1>9, <1>10, <1>12 DEF FinishExecuteSigned, ExecuteSignedReverts, Refunding
<1>13. QED
  BY <1>4, <1>5, <1>7, <1>11, <1>12 DEF Next

(* Whoever reads the chain sees the ledger: executions numbered without gap or  *)
(* repetition, none of which is ever undone (ERC1077.sol:114-140).              *)
THEOREM ContractImplementsLedger == Spec => ImplementsLedger
<1>1. Init => Ledger!Init
  <2>1. Init => \E k \in Addr : Committed = Initialized(k)
    BY ActorsAssumption DEF Init, Committed
  <2>2. QED
    BY <2>1, InitializedIsSound DEF Ledger!Init
<1>2. IInv /\ IInv' /\ [Next]_vars => [Ledger!Commit]_<<Committed.lastNonce, Committed.log>>
  BY StepIsCommit
<1>3. QED
  BY <1>1, <1>2, InductiveInvariant, PTL DEF Spec, ImplementsLedger, Ledger!Spec
================================================================================
