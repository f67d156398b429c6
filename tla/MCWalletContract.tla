---------------------------- MODULE MCWalletContract ----------------------------
(* Two accounts and one contract; an account may sign before it is a key, and  *)
(* after it has ceased to be one.                                              *)
EXTENDS WalletContract

MCAddr == {1, 2, 3}
MCPurpose == {0, 1, 2}
MCFirstKeys == {1}
MCSigners == {1, 2}
MCContracts == {3}
MCMsgCalls ==
    [op: {"addKey"}, key: {2, 3}, purpose: {1}]
    \cup [op: {"addKeys"}, new: {[k \in {2} |-> 2], [k \in {1, 2} |-> 1]}]
    \cup [op: {"removeKey"}, key: {1}, purpose: {1}]
    \cup [op: {"removeKey"}, key: {2}, purpose: {0}]
    \cup [op: {"setRequiredSignatures"}, n: {2}]
================================================================================
