------------------------------- MODULE WalletOps -------------------------------
(* The storage of one wallet contract (KeyHolder + ERC1077) and its methods,   *)
(* as operators on that storage.  A method that reverts leaves the storage     *)
(* alone, so a method is a pair: when it is allowed, and what it returns then. *)
(* The modules that run the contract (WalletContract) or call it (the relayer) *)
(* share these operators.                                                      *)
EXTENDS Integers, FiniteSets, Sequences

CONSTANTS
    Addr,           \* addresses other than the wallet's own and 0, as numbers:
                    \* areSignaturesValid compares them
    This,           \* address(this), the sender of a call the wallet makes to itself
    Purpose,        \* the key purposes in use; 0 is that of a key nobody added
    MaxKeysPerAdd   \* MAX_KEYS_PER_ADD

ASSUME AddrAssumption == Addr \subseteq Nat \ {0} /\ IsFiniteSet(Addr) /\ This \notin Addr
ASSUME PurposeAssumption == {0, 1, 2} \subseteq Purpose /\ Purpose \subseteq Nat
ASSUME MaxKeysAssumption == MaxKeysPerAdd \in Nat

MANAGEMENT_KEY == 1
ACTION_KEY == 2

(* keys[a].key is 0 or a, so `owned` is the set of a with keyExist(a) and      *)
(* `purpose` the other half of the mapping.  `log` stands for the              *)
(* ExecutedSigned events: they roll back with the storage.                     *)
Storage == [owned: SUBSET Addr, purpose: [Addr -> Purpose], keyCount: Nat,
            lastNonce: Nat, requiredSignatures: Nat,
            log: SUBSET [nonce: Nat, success: BOOLEAN]]

(* What initialize leaves behind: one management key, and required = 1.        *)
Initialized(k) ==
    [owned |-> {k}, purpose |-> [a \in Addr |-> IF a = k THEN MANAGEMENT_KEY ELSE 0],
     keyCount |-> 1, lastNonce |-> 0, requiredSignatures |-> 1, log |-> {}]

(* onlyManagementKeyOrThisContract *)
Permissioned(s, sender) ==
    sender = This \/ (sender \in Addr /\ s.purpose[sender] = MANAGEMENT_KEY)

(* Mutant: addKey without keyDoesNotExist.                                     *)
AddKeyAgainAllowed(s, sender, k) == Permissioned(s, sender) /\ k # sender

AddKeyAllowed(s, sender, k) == Permissioned(s, sender) /\ k # sender /\ k \notin s.owned

AddKey(s, k, p) ==
    [s EXCEPT !.owned = @ \cup {k}, !.purpose[k] = p, !.keyCount = @ + 1]

(* addKeys adds its keys one by one and reverts as a whole: `new` maps the     *)
(* added keys to their purposes (a list with a repeated key always reverts).   *)
AddKeysAllowed(s, sender, new) ==
    /\ Permissioned(s, sender)
    /\ Cardinality(DOMAIN new) <= MaxKeysPerAdd
    /\ \A k \in DOMAIN new : k # sender /\ k \notin s.owned

AddKeys(s, new) ==
    [s EXCEPT !.owned = @ \cup DOMAIN new,
              !.purpose = [a \in Addr |-> IF a \in DOMAIN new THEN new[a] ELSE @[a]],
              !.keyCount = @ + Cardinality(DOMAIN new)]

(* Mutant: keyCount - 1 for keyCount.sub(1).                                   *)
RemoveKeyUncheckedAllowed(s, sender, k, p) ==
    Permissioned(s, sender) /\ k # sender /\ s.purpose[k] = p

(* The purpose is all that is compared: an address that is no key has purpose  *)
(* 0 and can be "removed" with purpose 0.  keyCount.sub(1) reverts at 0.       *)
RemoveKeyAllowed(s, sender, k, p) ==
    Permissioned(s, sender) /\ k # sender /\ s.purpose[k] = p /\ s.keyCount > 0

RemoveKey(s, k) ==
    [s EXCEPT !.owned = @ \ {k}, !.purpose[k] = 0, !.keyCount = @ - 1]

SetRequiredAllowed(s, sender, n) ==
    /\ Permissioned(s, sender)
    /\ n # s.requiredSignatures /\ n > 0
    /\ n <= s.keyCount

SetRequiredSignatures(s, n) == [s EXCEPT !.requiredSignatures = n]

--------------------------------------------------------------------------------
(* The calls to the wallet a message can carry.                                *)
Call == [op: {"addKey"}, key: Addr, purpose: Purpose]
   \cup [op: {"addKeys"}, new: UNION {[S -> Purpose] : S \in SUBSET Addr}]
   \cup [op: {"removeKey"}, key: Addr, purpose: Purpose]
   \cup [op: {"setRequiredSignatures"}, n: Nat]

Allowed(s, sender, c) ==
    \/ c.op = "addKey" /\ AddKeyAllowed(s, sender, c.key)
    \/ c.op = "addKeys" /\ AddKeysAllowed(s, sender, c.new)
    \/ c.op = "removeKey" /\ RemoveKeyAllowed(s, sender, c.key, c.purpose)
    \/ c.op = "setRequiredSignatures" /\ SetRequiredAllowed(s, sender, c.n)

Effect(s, c) ==
    CASE c.op = "addKey" -> AddKey(s, c.key, c.purpose)
      [] c.op = "addKeys" -> AddKeys(s, c.new)
      [] c.op = "removeKey" -> RemoveKey(s, c.key)
      [] c.op = "setRequiredSignatures" -> SetRequiredSignatures(s, c.n)

--------------------------------------------------------------------------------
(* Mutant: the signers in order, but one may sign twice.                       *)
signersInOrder(s, sigs) ==
    \A i \in 1..Len(sigs) :
        /\ sigs[i] \in s.owned
        /\ i > 1 => sigs[i - 1] <= sigs[i]

(* `sigs` is the sequence of the addresses that ecrecover returns for the      *)
(* signatures over the hash of the message: one that was made over another     *)
(* message, or by no key of the wallet, is an address outside `owned`.         *)
areSignaturesValid(s, sigs) ==
    \A i \in 1..Len(sigs) :
        /\ sigs[i] \in s.owned
        /\ i > 1 => sigs[i - 1] < sigs[i]

(* Mutant: executeSigned without the check of the nonce.                       *)
ExecuteAnyNonceAllowed(s, nonce, sigs) ==
    sigs # <<>> /\ Len(sigs) >= s.requiredSignatures /\ areSignaturesValid(s, sigs)

ExecuteSignedAllowed(s, nonce, sigs) ==
    /\ sigs # <<>>
    /\ Len(sigs) >= s.requiredSignatures
    /\ nonce = s.lastNonce
    /\ areSignaturesValid(s, sigs)

IncrementNonce(s) == [s EXCEPT !.lastNonce = @ + 1]

EmitExecutedSigned(s, event) == [s EXCEPT !.log = @ \cup {event}]

--------------------------------------------------------------------------------
(* A storage in which the bound setRequiredSignatures checks never admits more  *)
(* signatures than there are keys, and some signature is always required.       *)
KeysWellCounted(s) ==
    /\ s.keyCount <= Cardinality(s.owned)
    /\ s.requiredSignatures >= 1
================================================================================
