---------------------------- MODULE Connections ----------------------------
(***************************************************************************)
(* What the server promises its clients: a connection waits, is served or  *)
(* refused, and is closed only when it is over; at most MaxSession are     *)
(* served at a time.  Sessions, the FTM_SERVER code, implements this.      *)
(***************************************************************************)
EXTENDS Naturals, FiniteSets

CONSTANTS Session, MaxSession

VARIABLE conn

Served == {s \in Session : conn[s] = "served"}

Init == conn = [s \in Session |-> "none"]

Move(s, from, to) == conn[s] = from /\ conn' = [conn EXCEPT ![s] = to]

Connect(s) == Move(s, "none", "waiting")
Serve(s) == Cardinality(Served) < MaxSession /\ Move(s, "waiting", "served")
Refuse(s) == Move(s, "waiting", "over")
Finish(s) == Move(s, "served", "over")
Close(s) == Move(s, "over", "none")

Next == \E s \in Session :
            Connect(s) \/ Serve(s) \/ Refuse(s) \/ Finish(s) \/ Close(s)

Spec == Init /\ [][Next]_conn
=============================================================================
