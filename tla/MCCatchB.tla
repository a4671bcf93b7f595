------------------------------ MODULE MCCatchB ------------------------------
(* CatchB on two cameras with an address each.                             *)
EXTENDS CatchB

CONSTANTS c1, c2, a1, a2, h1, h2

TwoIds == {c1, c2}
OneId == {c1}
TwoIps == {a1, a2}
OneIp == {a1}
NoImpostor == {HalfSeen}
OnePrint == {h1, HalfSeen}
SameFold(id) == id

NoRows == <<>>
Fresh(id, ip) == [i \in {id} |-> [ip |-> ip, hash |-> NoHash]]
Registered(id, ip) == [i \in {id} |-> [ip |-> ip, hash |-> <<ip, h1>>]]

EmptyDb == {NoRows}
FreshDb == {NoRows, Fresh(c1, a1)}
UsedDb == {NoRows, Fresh(c1, a1), Registered(c1, a1)}
MixedPair == {[i \in {c1, c2} |-> IF i = c1 THEN [ip |-> a1, hash |-> NoHash] ELSE [ip |-> a2, hash |-> <<a2, h1>>]]}

AddDel == {"add", "del"}
AddDelReset == {"add", "del", "reset"}
AddDelSetIP == {"add", "del", "setIP"}
NoOps == {}
NoFaults == {}
HaltOnly == {"halt"}
DbFails == {"halt", "db"}
AddResetPolicy == {"add", "reset", "policy"}
HaltSwitchSays == {"halt", "switchError"}
SwitchFails == {"switchError", "switchSilent"}

=============================================================================
