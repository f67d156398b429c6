---------------------------- MODULE WalletOps_proofs ----------------------------
(* Lemmas about the methods of the wallet contract, which the proofs about the  *)
(* contract and about the relayer that calls it both need.                      *)
EXTENDS WalletOps, FiniteSetTheorems, SequenceTheorems, TLAPS

(* A set of addresses is finite, and so its cardinality a natural number.       *)
LEMMA OwnedIsFinite ==
    ASSUME NEW S \in SUBSET Addr
    PROVE  IsFiniteSet(S) /\ Cardinality(S) \in Nat
BY AddrAssumption, FS_Subset, FS_CardinalityType

(* What a fresh wallet holds.                                                   *)
LEMMA InitializedIsSound ==
    ASSUME NEW k \in Addr
    PROVE  /\ Initialized(k) \in Storage
           /\ KeysWellCounted(Initialized(k))
           /\ Initialized(k).log = {} /\ Initialized(k).lastNonce = 0
<1>1. Initialized(k) \in Storage
  BY PurposeAssumption DEF Initialized, Storage, MANAGEMENT_KEY
<1>2. Cardinality({k}) = 1
  BY FS_Singleton
<1>3. QED
  BY <1>1, <1>2 DEF Initialized, KeysWellCounted

(* The four methods keep the type of the storage, its events and its nonce, and *)
(* the bound on keyCount.                                                       *)
LEMMA AddKeyIsSound ==
    ASSUME NEW s \in Storage, NEW k \in Addr, NEW p \in Purpose, k \notin s.owned
    PROVE  LET t == AddKey(s, k, p)
           IN  /\ t \in Storage /\ t.log = s.log /\ t.lastNonce = s.lastNonce
               /\ KeysWellCounted(s) => KeysWellCounted(t)
<1> DEFINE t == AddKey(s, k, p)
<1>1. t \in Storage
  <2>1. /\ s.purpose \in [Addr -> Purpose] /\ s.keyCount + 1 \in Nat
        /\ s.owned \cup {k} \in SUBSET Addr
    BY DEF Storage
  <2>2. [s.purpose EXCEPT ![k] = p] \in [Addr -> Purpose]
    BY <2>1
  <2>3. t = [s EXCEPT !.owned = s.owned \cup {k}, !.purpose = [s.purpose EXCEPT ![k] = p],
                      !.keyCount = s.keyCount + 1]
    BY DEF AddKey, Storage
  <2>4. QED
    BY <2>1, <2>2, <2>3 DEF Storage
<1>2. /\ t.log = s.log /\ t.lastNonce = s.lastNonce /\ t.owned = s.owned \cup {k}
      /\ t.keyCount = s.keyCount + 1 /\ t.requiredSignatures = s.requiredSignatures
  BY DEF AddKey, Storage
<1>3. Cardinality(s.owned \cup {k}) = Cardinality(s.owned) + 1 /\ Cardinality(s.owned) \in Nat
  <2>1. s.owned \in SUBSET Addr
    BY DEF Storage
  <2>2. IsFiniteSet(s.owned) /\ Cardinality(s.owned) \in Nat
    BY <2>1, OwnedIsFinite
  <2>3. QED
    BY <2>2, FS_AddElement
<1>4. s.keyCount \in Nat
  BY DEF Storage
<1>5. KeysWellCounted(s) => KeysWellCounted(t)
  BY <1>2, <1>3, <1>4 DEF KeysWellCounted
<1>6. QED
  BY <1>1, <1>2, <1>5

LEMMA AddKeysIsSound ==
    ASSUME NEW s \in Storage, NEW S \in SUBSET Addr, NEW new \in [S -> Purpose],
           S \cap s.owned = {}
    PROVE  LET t == AddKeys(s, new)
           IN  /\ t \in Storage /\ t.log = s.log /\ t.lastNonce = s.lastNonce
               /\ KeysWellCounted(s) => KeysWellCounted(t)
<1> DEFINE t == AddKeys(s, new)
<1>0. DOMAIN new = S
  OBVIOUS
<1>1. s.owned \in SUBSET Addr /\ s.keyCount \in Nat /\ s.purpose \in [Addr -> Purpose]
  BY DEF Storage
<1>2. IsFiniteSet(s.owned) /\ Cardinality(s.owned) \in Nat /\ IsFiniteSet(S) /\ Cardinality(S) \in Nat
  BY <1>1, OwnedIsFinite
<1>3. /\ t.log = s.log /\ t.lastNonce = s.lastNonce /\ t.owned = s.owned \cup S
      /\ t.keyCount = s.keyCount + Cardinality(S) /\ t.requiredSignatures = s.requiredSignatures
  BY <1>0 DEF AddKeys, Storage
<1>4. t \in Storage
  <2>1. [a \in Addr |-> IF a \in S THEN new[a] ELSE s.purpose[a]] \in [Addr -> Purpose]
    BY <1>1
  <2>2. s.owned \cup S \in SUBSET Addr /\ s.keyCount + Cardinality(S) \in Nat
    BY <1>1, <1>2
  <2>3. t = [s EXCEPT !.owned = s.owned \cup S,
                      !.purpose = [a \in Addr |-> IF a \in S THEN new[a] ELSE s.purpose[a]],
                      !.keyCount = s.keyCount + Cardinality(S)]
    BY <1>0 DEF AddKeys, Storage
  <2>4. QED
    BY <2>1, <2>2, <2>3 DEF Storage
<1>5. Cardinality(s.owned \cup S) = Cardinality(s.owned) + Cardinality(S)
  <2>1. Cardinality(s.owned \cap S) = 0
    <3>1. s.owned \cap S = {}
      OBVIOUS
    <3>2. QED
      BY <3>1, FS_EmptySet
  <2>2. Cardinality(s.owned \cup S)
          = Cardinality(s.owned) + Cardinality(S) - Cardinality(s.owned \cap S)
    BY <1>2, FS_Union
  <2>3. QED
    BY <1>2, <2>1, <2>2
<1>6. KeysWellCounted(s) => KeysWellCounted(t)
  BY <1>1, <1>2, <1>3, <1>5 DEF KeysWellCounted
<1>7. QED
  BY <1>3, <1>4, <1>6

(* A key that exists leaves both counts one lower; an address that is no key    *)
(* leaves only keyCount lower.                                                  *)
LEMMA RemoveKeyIsSound ==
    ASSUME NEW s \in Storage, NEW k \in Addr, s.keyCount > 0
    PROVE  LET t == RemoveKey(s, k)
           IN  /\ t \in Storage /\ t.log = s.log /\ t.lastNonce = s.lastNonce
               /\ KeysWellCounted(s) => KeysWellCounted(t)
<1> DEFINE t == RemoveKey(s, k)
<1>1. s.owned \in SUBSET Addr /\ s.keyCount \in Nat
  BY DEF Storage
<1>2. t \in Storage
  <2>1. /\ s.purpose \in [Addr -> Purpose] /\ s.keyCount - 1 \in Nat
        /\ s.owned \ {k} \in SUBSET Addr
    BY DEF Storage
  <2>2. [s.purpose EXCEPT ![k] = 0] \in [Addr -> Purpose]
    BY <2>1, PurposeAssumption
  <2>3. t = [s EXCEPT !.owned = s.owned \ {k}, !.purpose = [s.purpose EXCEPT ![k] = 0],
                      !.keyCount = s.keyCount - 1]
    BY DEF RemoveKey, Storage
  <2>4. QED
    BY <2>1, <2>2, <2>3 DEF Storage
<1>3. /\ t.log = s.log /\ t.lastNonce = s.lastNonce /\ t.owned = s.owned \ {k}
      /\ t.keyCount = s.keyCount - 1 /\ t.requiredSignatures = s.requiredSignatures
  BY DEF RemoveKey, Storage
<1>4. Cardinality(s.owned \ {k}) >= Cardinality(s.owned) - 1 /\ Cardinality(s.owned) \in Nat
      /\ Cardinality(s.owned \ {k}) \in Nat
  <2>1. /\ IsFiniteSet(s.owned) /\ Cardinality(s.owned) \in Nat
        /\ Cardinality(s.owned \ {k}) \in Nat
    BY <1>1, OwnedIsFinite
  <2>2. QED
    BY <2>1, FS_RemoveElement
<1>5. KeysWellCounted(s) => KeysWellCounted(t)
  BY <1>1, <1>3, <1>4 DEF KeysWellCounted
<1>6. QED
  BY <1>2, <1>3, <1>5

LEMMA SetRequiredIsSound ==
    ASSUME NEW s \in Storage, NEW n \in Nat, n > 0
    PROVE  LET t == SetRequiredSignatures(s, n)
           IN  /\ t \in Storage /\ t.log = s.log /\ t.lastNonce = s.lastNonce
               /\ KeysWellCounted(s) => KeysWellCounted(t)
BY DEF SetRequiredSignatures, Storage, KeysWellCounted

(* Hence every call to the wallet that is allowed.                              *)
LEMMA EffectIsSound ==
    ASSUME NEW s \in Storage, NEW sender, NEW c \in Call, Allowed(s, sender, c)
    PROVE  LET t == Effect(s, c)
           IN  /\ t \in Storage /\ t.log = s.log /\ t.lastNonce = s.lastNonce
               /\ KeysWellCounted(s) => KeysWellCounted(t)
<1>1. CASE c.op = "addKey"
  <2>1. c.key \in Addr /\ c.purpose \in Purpose /\ Effect(s, c) = AddKey(s, c.key, c.purpose)
    BY <1>1 DEF Call, Effect
  <2>2. c.key \notin s.owned
    BY <1>1 DEF Allowed, AddKeyAllowed
  <2>3. QED
    BY <2>1, <2>2, AddKeyIsSound
<1>2. CASE c.op = "addKeys"
  <2>1. PICK S \in SUBSET Addr : c.new \in [S -> Purpose]
    BY <1>2 DEF Call
  <2>2. S \cap s.owned = {}
    BY <1>2, <2>1 DEF Allowed, AddKeysAllowed
  <2>3. Effect(s, c) = AddKeys(s, c.new)
    BY <1>2 DEF Effect
  <2>4. QED
    BY <2>1, <2>2, <2>3, AddKeysIsSound
<1>3. CASE c.op = "removeKey"
  <2>1. c.key \in Addr /\ Effect(s, c) = RemoveKey(s, c.key)
    BY <1>3 DEF Call, Effect
  <2>2. s.keyCount > 0
    BY <1>3 DEF Allowed, RemoveKeyAllowed
  <2>3. QED
    BY <2>1, <2>2, RemoveKeyIsSound
<1>4. CASE c.op = "setRequiredSignatures"
  <2>1. c.n \in Nat /\ Effect(s, c) = SetRequiredSignatures(s, c.n)
    BY <1>4 DEF Call, Effect
  <2>2. c.n > 0
    BY <1>4 DEF Allowed, SetRequiredAllowed
  <2>3. QED
    BY <2>1, <2>2, SetRequiredIsSound
<1>5. QED
  BY <1>1, <1>2, <1>3, <1>4 DEF Allowed
================================================================================
