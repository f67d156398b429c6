-------------------------------- MODULE MCRelayer --------------------------------
(* Two devices of a wallet: both sign m1, and one signs m2, which has the nonce  *)
(* of m1.  The wallet requires one signature.                                    *)
EXTENDS Relayer

CONSTANTS r1, r2, r3, m1, m2

MCAddr == {1, 2, 3}
MCPurpose == {0, 1, 2}
MCWallet ==
    [owned |-> {1, 2}, purpose |-> [a \in MCAddr |-> IF a = 3 THEN 0 ELSE 1], keyCount |-> 2,
     lastNonce |-> 0, requiredSignatures |-> 1, log |-> {}]
MCNonceOf == [m \in Messages |-> 0]
MCCallOf == [m \in Messages |->
    IF m = m1 THEN [op |-> "addKey", key |-> 3, purpose |-> 2] ELSE External]
MCSigsOf == [m \in Messages |-> <<>>]
MCMsgOf == [r \in Requests |-> IF r \in {r1, r2} THEN m1 ELSE m2]
MCKeyOf == [r \in Requests |-> IF r \in {r1, r3} THEN 2 ELSE 1]
================================================================================
