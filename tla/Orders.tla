------------------------------- MODULE Orders -------------------------------
(***************************************************************************)
(* What the detector and the switch promise the main thread: each order to *)
(* block or to free an address is carried out in the end, once, and in the *)
(* order in which it was given.  CatchB implements this as long as the     *)
(* switch does what it is told, although the detector looks at its own     *)
(* list of access controls and skips what is done already.                 *)
(***************************************************************************)
EXTENDS Sequences

CONSTANT Address

VARIABLES
    orders,     \* given and not yet carried out
    blocked     \* what the switch keeps from the network

vars == <<orders, blocked>>

Init == orders = <<>> /\ blocked = {}

Give(a, policy) ==
    /\ orders' = Append(orders, [ip |-> a, policy |-> policy])
    /\ UNCHANGED blocked

CarryOut ==
    /\ orders # <<>>
    /\ LET o == Head(orders)
       IN  blocked' = IF o.policy = "deny" THEN blocked \cup {o.ip} ELSE blocked \ {o.ip}
    /\ orders' = Tail(orders)

Next ==
    \/ \E a \in Address, policy \in {"allow", "deny"} : Give(a, policy)
    \/ CarryOut

Spec == Init /\ [][Next]_vars

FairSpec == Spec /\ WF_vars(CarryOut)
=============================================================================
