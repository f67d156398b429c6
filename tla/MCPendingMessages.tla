--------------------------- MODULE MCPendingMessages ---------------------------
(* One message is signed by three keys of a wallet that requires two, another   *)
(* by a key and a stranger.                                                     *)
EXTENDS PendingMessages

CONSTANTS r1, r2, r3, r4, m1, m2

MCAddr == {1, 2, 3}
MCPurpose == {0, 1, 2}
MCMsgOf == [r \in Requests |-> IF r = r4 THEN m2 ELSE m1]
MCKeyOf == [r \in Requests |->
    CASE r = r1 -> 2 [] r = r2 -> 1 [] r = r3 -> 3 [] r = r4 -> 9]
MCSameKeyOf == [r \in Requests |-> 2]
MCWallet ==
    [owned |-> MCAddr, purpose |-> [a \in MCAddr |-> 1], keyCount |-> 3,
     lastNonce |-> 0, requiredSignatures |-> 2, log |-> {}]
MCNoCalls == {}
(* None of these leads back to MCWallet.                                        *)
MCKeyCalls ==
    [op: {"removeKey"}, key: {1}, purpose: {1}]
    \cup [op: {"setRequiredSignatures"}, n: {1, 3}]
================================================================================
