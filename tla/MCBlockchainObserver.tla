-------------------------- MODULE MCBlockchainObserver --------------------------
(* A key is added, and removed and added again in the next block; one listener  *)
(* is for the key and one for every key of the wallet.                          *)
EXTENDS BlockchainObserver

MCContract == {"wallet"}
MCKey == {"key"}
MCFilter == [contract : MCContract, key : MCKey \cup {"undefined"}]
MCEventsIn ==
    LET of(type) == [type |-> type, contract |-> "wallet", key |-> "key"]
    IN  <<{of("KeyAdded")}, {of("KeyRemoved"), of("KeyAdded")}>>
================================================================================
