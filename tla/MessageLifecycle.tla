---------------------------- MODULE MessageLifecycle ----------------------------
(* The life of a message in the relayer as its users see it: signatures are     *)
(* awaited, the message is queued once, and it ends in success or in error for  *)
(* good (docs/modeling/src/relayer/messageState.pml, without the state Pending, *)
(* which the code does not keep).                                               *)
CONSTANT Messages

VARIABLE status

Init == status = [m \in Messages |-> "absent"]

Successors == [absent |-> {"awaitSignature"}, awaitSignature |-> {"queued"},
               queued |-> {"success", "error"}, success |-> {}, error |-> {}]

Advance(m) ==
    \E new \in Successors[status[m]] : status' = [status EXCEPT ![m] = new]

Next == \E m \in Messages : Advance(m)

Spec == Init /\ [][Next]_status
================================================================================
