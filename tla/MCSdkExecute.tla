------------------------------ MODULE MCSdkExecute ------------------------------
(* Two calls for one wallet, from two devices or one after the other: the first *)
(* adds a key, the second calls a contract.                                     *)
EXTENDS SdkExecute

CONSTANTS c1, c2

MCAddr == {1, 2, 3}
MCPurpose == {0, 1, 2}
MCWallet ==
    [owned |-> {1, 2}, purpose |-> [a \in MCAddr |-> IF a = 3 THEN 0 ELSE 1], keyCount |-> 2,
     lastNonce |-> 0, requiredSignatures |-> 1, log |-> {}]
MCRequests == Clients \X Nonces
MCContentOf == [c \in Clients |->
    IF c = c1 THEN [op |-> "addKey", key |-> 3, purpose |-> 2] ELSE Click]
MCMessages == Clients \X Nonces
MCMsgOf == [r \in Requests |-> r]
MCKeyOf == [r \in Requests |-> IF r[1] = c1 THEN 1 ELSE 2]
MCNonceOf == [m \in Messages |-> m[2]]
MCCallOf == [m \in Messages |-> ContentOf[m[1]]]
MCSigsOf == [m \in Messages |-> <<>>]
================================================================================
