--------------------------- MODULE RequestLedger ---------------------------
(***************************************************************************)
(* What a credential ledger promises to the people who file recovery       *)
(* requests, whatever happens to the operator in between: the current      *)
(* request only moves to a newer one, and each request (0 stands for the   *)
(* initial provisioning) is good for at most one long-lived token, issued  *)
(* while it is the current one.  OperatorAccount implements this module.   *)
(***************************************************************************)
EXTENDS Naturals

CONSTANT MaxReq     \* bound: requests are numbered 1, 2, ..., MaxReq

VARIABLES
    current,        \* the newest request the ledger has consumed
    tokens          \* how many tokens each request has brought about

Init == current = 0 /\ tokens = [r \in 0 .. MaxReq |-> 0]

\* A newer request is consumed, before anything is done for it.
Consume == \E r \in 1 .. MaxReq : r > current /\ current' = r /\ UNCHANGED tokens

\* The token of the current request.
Issue == /\ tokens[current] = 0
         /\ tokens' = [tokens EXCEPT ![current] = 1]
         /\ UNCHANGED current

Next == Consume \/ Issue
Spec == Init /\ [][Next]_<<current, tokens>>
=============================================================================
