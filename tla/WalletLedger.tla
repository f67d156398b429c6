------------------------------ MODULE WalletLedger ------------------------------
(* What a wallet contract promises whoever reads the chain: the messages it    *)
(* executed are numbered 0, 1, 2, ... without a gap, each number is used once, *)
(* and an execution on the chain stays there.  A transaction may commit several*)
(* executions, since a message may call a contract that relays another one.    *)
EXTENDS Integers

VARIABLES nonce,    \* the number the next message must carry
          executed  \* the ExecutedSigned events on the chain

Init == nonce = 0 /\ executed = {}

Commit ==
    LET new == executed' \ executed
    IN  /\ nonce' \in Nat /\ nonce' > nonce
        /\ executed \subseteq executed'
        /\ \A e \in new : e.nonce \in nonce..(nonce' - 1)
        /\ \A n \in nonce..(nonce' - 1) : \E e \in new : e.nonce = n
        /\ \A d, e \in new : d.nonce = e.nonce => d = e

Spec == Init /\ [][Commit]_<<nonce, executed>>
================================================================================
