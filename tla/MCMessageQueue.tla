----------------------------- MODULE MCMessageQueue -----------------------------
(* Two messages that fight for one nonce, a third that follows them and takes   *)
(* away the key that signed one of them.                                        *)
EXTENDS MessageQueue

CONSTANTS m1, m2, m3

MCAddr == {1, 2, 3}
MCPurpose == {0, 1, 2}
MCWallet ==
    [owned |-> {1, 2}, purpose |-> [a \in MCAddr |-> IF a = 3 THEN 0 ELSE 1], keyCount |-> 2,
     lastNonce |-> 0, requiredSignatures |-> 1, log |-> {}]
MCNonceOf == [m \in Messages |-> IF m = m3 THEN 1 ELSE 0]
MCCallOf == [m \in Messages |->
    CASE m = m1 -> [op |-> "addKey", key |-> 3, purpose |-> 2]
      [] m = m2 -> External
      [] m = m3 -> [op |-> "removeKey", key |-> 2, purpose |-> 1]]
MCSigsOf == [m \in Messages |-> IF m = m2 THEN <<2>> ELSE <<1>>]
================================================================================
