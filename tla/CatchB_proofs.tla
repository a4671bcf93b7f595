---------------------------- MODULE CatchB_proofs ----------------------------
(***************************************************************************)
(* Proofs about CatchB for any cameras, addresses, operators and faults:   *)
(* every variable keeps its type, the analyzer never works on a camera     *)
(* that is gone, and the detector never loses the entry it works on.       *)
(***************************************************************************)
EXTENDS CatchB, ListLemmas, FiniteSetTheorems, WellFoundedInduction

-----------------------------------------------------------------------------
(* Sequences as lists.                                                     *)

\* A search from the head of a list finds an element if there is one
\* (FTM_LIST_get).
LEMMA LeastExists ==
    ASSUME NEW I, I \subseteq Nat, I # {}
    PROVE  Least(I) \in I /\ \A j \in I : Least(I) <= j
<1> DEFINE Less == {p \in Nat \X Nat : p[1] < p[2]}
<1>1. OpToRel(<, Nat) = Less
  BY Zenon DEF OpToRel
<1>2. IsWellFoundedOn(Less, Nat)
  BY <1>1, NatLessThanWellFounded, Zenon
<1>3. PICK x \in I : \A y \in I : ~(<<y, x>> \in Less)
  <2> HIDE DEF Less
  <2> QED
    BY <1>2, WFMin, Zenon
<1>4. ASSUME NEW y \in I, y < x
      PROVE  FALSE
  <2>1. <<y, x>> \in Nat \X Nat /\ <<y, x>>[1] = y /\ <<y, x>>[2] = x
    OBVIOUS
  <2>2. <<y, x>> \in Less
    BY <1>4, <2>1
  <2> QED
    BY <1>3, <2>2
<1>5. \A y \in I : x <= y
  BY <1>4
<1> QED
  BY <1>5 DEF Least

-----------------------------------------------------------------------------
(* The inductive invariant.                                                *)

\* The handler that waits for the analyzer is about a camera of the registry.
MainKnown == main # None => Has(main.id)

\* The chain holds no two IDs that differ in case only.
FoldDistinct ==
    \A i, j \in DOMAIN chain : Fold(chain[i]) = Fold(chain[j]) => i = j

IInv == TypeOK /\ ProbedExists /\ MainKnown /\ FoldDistinct /\ EntryInUse

\* What the registry and the analyzer say of each other.
Chained == ProbedExists /\ MainKnown /\ FoldDistinct

-----------------------------------------------------------------------------
(* The registry.                                                           *)

\* FTM_CATCHB_getCCTV finds a camera that is in the list.
LEMMA GetFinds ==
    ASSUME cctvs \in Seq(Cctv), NEW id, Has(id)
    PROVE  /\ Pos(id) \in 1..Len(cctvs)
           /\ Get(id) = cctvs[Pos(id)]
           /\ Get(id) \in Cctv
           /\ Get(id).id = id
<1> DEFINE I == {i \in DOMAIN cctvs : cctvs[i].id = id}
<1>1. I \subseteq Nat /\ I # {} /\ DOMAIN cctvs = 1..Len(cctvs)
  BY DEF Has, Known
<1>2. Least(I) \in I
  BY <1>1, LeastExists
<1>3. Pos(id) \in I
  BY <1>2 DEF Pos
<1> QED
  BY <1>1, <1>3 DEF Get

\* A camera that is appended is known, and so are the others.
LEMMA AppendCamera ==
    ASSUME cctvs \in Seq(Cctv), NEW c \in Cctv, cctvs' = Append(cctvs, c)
    PROVE  /\ cctvs' \in Seq(Cctv)
           /\ Known \subseteq Known'
           /\ c.id \in Known'
<1>1. /\ cctvs' \in Seq(Cctv)
      /\ Len(cctvs') = Len(cctvs) + 1
      /\ \A i \in 1..Len(cctvs) : cctvs'[i] = cctvs[i]
      /\ cctvs'[Len(cctvs) + 1] = c
  BY AppendProperties
<1>2. /\ DOMAIN cctvs = 1..Len(cctvs)
      /\ DOMAIN cctvs' = 1..(Len(cctvs) + 1)
  BY <1>1
<1>3. ASSUME NEW x \in Known
      PROVE  x \in Known'
  <2>1. PICK i \in 1..Len(cctvs) : x = cctvs[i].id
    BY <1>2 DEF Known
  <2>2. i \in DOMAIN cctvs' /\ cctvs'[i].id = x
    BY <1>1, <1>2, <2>1
  <2> QED
    BY <2>2 DEF Known
<1>4. c.id \in Known'
  <2>1. Len(cctvs) + 1 \in DOMAIN cctvs'
    BY <1>2
  <2> QED
    BY <1>1, <2>1 DEF Known
<1> QED
  BY <1>1, <1>3, <1>4

\* A camera that is changed in place stays known.
LEMMA ChangeCamera ==
    ASSUME cctvs \in Seq(Cctv), NEW id, Has(id), NEW c \in Cctv, c.id = id,
           cctvs' = [cctvs EXCEPT ![Pos(id)] = c]
    PROVE  /\ cctvs' \in Seq(Cctv)
           /\ Known \subseteq Known'
<1>1. Pos(id) \in 1..Len(cctvs) /\ cctvs[Pos(id)].id = id
  BY GetFinds
<1>2. /\ cctvs' \in Seq(Cctv)
      /\ DOMAIN cctvs' = 1..Len(cctvs)
      /\ DOMAIN cctvs = 1..Len(cctvs)
      /\ \A j \in 1..Len(cctvs) : cctvs'[j] = IF j = Pos(id) THEN c ELSE cctvs[j]
  BY <1>1, ExceptSeq
<1>3. \A j \in 1..Len(cctvs) : cctvs'[j].id = cctvs[j].id
  BY <1>1, <1>2
<1> QED
  BY <1>2, <1>3 DEF Known

\* A camera that is taken out leaves the others known.
LEMMA RemoveCamera ==
    ASSUME cctvs \in Seq(Cctv), NEW id, Has(id),
           cctvs' = RemoveAt(cctvs, Pos(id))
    PROVE  /\ cctvs' \in Seq(Cctv)
           /\ \A x \in Known : x # id => x \in Known'
<1>1. Pos(id) \in 1..Len(cctvs) /\ cctvs[Pos(id)].id = id
  BY GetFinds
<1>2. cctvs' \in Seq(Cctv) /\ DOMAIN cctvs' = 1..Len(cctvs')
  BY <1>1, RemoveAtProperties
<1>3. ASSUME NEW x \in Known, x # id
      PROVE  x \in Known'
  <2>1. PICK j \in 1..Len(cctvs) : x = cctvs[j].id
    BY DEF Known
  <2>2. j # Pos(id)
    BY <1>1, <1>3, <2>1
  <2>3. PICK i \in 1..Len(cctvs') : cctvs'[i] = cctvs[j]
    BY <1>1, <2>2, RemoveAtKeeps
  <2> QED
    BY <1>2, <2>1, <2>3 DEF Known
<1> QED
  BY <1>2, <1>3

\* Whatever leaves the chain, the probe and the waiting handler alone and
\* takes no camera away keeps the registry and the analyzer in step.
LEMMA ChainedKept ==
    ASSUME Chained, Known \subseteq Known', UNCHANGED <<main, chain, probe>>
    PROVE  Chained'
BY DEF Chained, ProbedExists, MainKnown, FoldDistinct, Has

\* FTM_MSGQ_timedPop: the queue is left with messages.
LEMMA PopType ==
    ASSUME NEW S, NEW q \in Seq(S), q # <<>>
    PROVE  Head(q) \in S /\ Tail(q) \in Seq(S)
BY HeadTailProperties
\* What a message carries.
LEMMA MsgFields ==
    ASSUME NEW m \in Msg
    PROVE  /\ m.id \in Ids
           /\ m.type \in {"create", "setIP", "found"} => m.ip \in Ips
           /\ m.type = "found" => m.hash \in Hashes \cup {NoHash}
           /\ m.type = "register" => m.hash \in Hashes
           /\ m.type = "setStat" => m.stat \in Stats
BY DEF Msg

-----------------------------------------------------------------------------
(* Steps of the main thread.                                               *)

\* FTM_CATCHB_onCreateCCTV: the camera is known before it is attached.
LEMMA OnCreateStep ==
    ASSUME IInv, OnCreate
    PROVE  IInv'
<1> DEFINE m == Head(inbox)
           c == [id |-> m.id, ip |-> m.ip, hash |-> NoHash, stat |-> "unregistered"]
<1> USE DEF IInv
<1>1. m \in Msg /\ inbox' \in Seq(Msg)
  BY PopType DEF TypeOK, OnCreate, Idle, Pop
<1>2. m.id \in Ids /\ m.ip \in Ips
  BY <1>1, MsgFields DEF OnCreate
<1>3. CASE cctvs' = Append(cctvs, c) /\ main' = [op |-> "attach", id |-> m.id]
           /\ db' = [i \in DOMAIN db \cup {m.id} |->
                       IF i = m.id THEN [ip |-> m.ip, hash |-> NoHash] ELSE db[i]]
  <2>1. c \in Cctv
    BY <1>2 DEF Cctv, Stats
  <2>2. cctvs' \in Seq(Cctv) /\ Known \subseteq Known' /\ m.id \in Known'
    BY <1>3, <2>1, AppendCamera DEF TypeOK
  <2>3. DOMAIN db' \subseteq Ids /\ \A id \in DOMAIN db' : db'[id] \in Row
    BY <1>2, <1>3 DEF TypeOK, Row
  <2>4. main' \in [op : {"attach", "detach", "remove"}, id : Ids]
    BY <1>2, <1>3
  <2>5. TypeOK'
    BY <1>1, <2>2, <2>3, <2>4 DEF TypeOK, OnCreate, aside
  <2>6. ProbedExists'
    BY <1>3, <2>2 DEF ProbedExists, Has, OnCreate
  <2>7. MainKnown'
    BY <1>3, <2>2 DEF MainKnown, Has
  <2>8. FoldDistinct' /\ EntryInUse'
    BY DEF FoldDistinct, EntryInUse, AcPositions, OnCreate, aside
  <2> QED
    BY <2>5, <2>6, <2>7, <2>8
<1>4. CASE UNCHANGED <<cctvs, db, main>>
  <2>1. TypeOK'
    BY <1>1, <1>4 DEF TypeOK, OnCreate, aside
  <2>2. Chained'
    BY <1>4, ChainedKept DEF Chained, OnCreate, Known
  <2>3. EntryInUse'
    BY DEF EntryInUse, AcPositions, OnCreate, aside
  <2> QED
    BY <2>1, <2>2, <2>3 DEF Chained
<1> QED
  BY <1>3, <1>4 DEF OnCreate

\* FTM_CATCHB_onFoundCCTVInDB.
LEMMA OnFoundStep ==
    ASSUME IInv, OnFound
    PROVE  IInv'
<1> DEFINE m == Head(inbox)
           c == [id |-> m.id, ip |-> m.ip, hash |-> m.hash,
                 stat |-> IF m.hash = NoHash THEN "unregistered" ELSE "unused"]
<1> USE DEF IInv
<1>1. m \in Msg /\ inbox' \in Seq(Msg)
  BY PopType DEF TypeOK, OnFound, Idle, Pop
<1>2. m.id \in Ids /\ m.ip \in Ips /\ m.hash \in Hashes \cup {NoHash}
  BY <1>1, MsgFields DEF OnFound
<1>3. cctvs' = Append(cctvs, c) /\ main' = [op |-> "attach", id |-> m.id]
  BY DEF OnFound
<1>4. c \in Cctv
  BY <1>2 DEF Cctv, Stats
<1>5. cctvs' \in Seq(Cctv) /\ Known \subseteq Known' /\ m.id \in Known'
  BY <1>3, <1>4, AppendCamera DEF TypeOK
<1>6. main' \in [op : {"attach", "detach", "remove"}, id : Ids]
  BY <1>2, <1>3
<1>7. TypeOK'
  BY <1>1, <1>5, <1>6 DEF TypeOK, OnFound, aside
<1>8. ProbedExists'
  BY <1>3, <1>5 DEF ProbedExists, Has, OnFound
<1>9. MainKnown'
  BY <1>3, <1>5 DEF MainKnown, Has
<1>10. FoldDistinct' /\ EntryInUse'
  BY DEF FoldDistinct, EntryInUse, AcPositions, OnFound, aside
<1> QED
  BY <1>7, <1>8, <1>9, <1>10

\* FTM_CATCHB_onDeleteCCTV: only a camera that is known is detached.
LEMMA OnDeleteStep ==
    ASSUME IInv, OnDelete
    PROVE  IInv'
<1> DEFINE m == Head(inbox)
<1> USE DEF IInv
<1>1. m \in Msg /\ inbox' \in Seq(Msg)
  BY PopType DEF TypeOK, OnDelete, Idle, Pop
<1>2. m.id \in Ids
  BY <1>1, MsgFields
<1>3. \/ Has(m.id) /\ main' = [op |-> "detach", id |-> m.id]
      \/ main' = None
  BY DEF OnDelete
<1>4. main' \in {None} \cup [op : {"attach", "detach", "remove"}, id : Ids]
  BY <1>2, <1>3
<1>5. Known' = Known
  BY DEF Known, OnDelete
<1>6. TypeOK'
  BY <1>1, <1>4 DEF TypeOK, OnDelete, aside
<1>7. ProbedExists'
  BY <1>3, <1>5 DEF ProbedExists, Has, OnDelete
<1>8. MainKnown'
  BY <1>3, <1>5 DEF MainKnown, Has
<1>9. FoldDistinct' /\ EntryInUse'
  BY DEF FoldDistinct, EntryInUse, AcPositions, OnDelete, aside
<1> QED
  BY <1>6, <1>7, <1>8, <1>9

\* FTM_CATCHB_onDeleteCCTV, last part: the chain no longer holds the camera.
LEMMA UnlistStep ==
    ASSUME IInv, Unlist
    PROVE  IInv'
<1> USE DEF IInv
<1>1. main.id \in Ids /\ Has(main.id) /\ main # None /\ main.op = "remove"
  BY DEF TypeOK, MainKnown, Unlist
<1>2. cctvs' \in Seq(Cctv) /\ \A x \in Known : x # main.id => x \in Known'
  BY <1>1, RemoveCamera DEF TypeOK, Unlist
<1>3. DOMAIN db' \subseteq Ids /\ \A id \in DOMAIN db' : db'[id] \in Row
  <2>1. CASE db' = [i \in DOMAIN db \ {main.id} |-> db[i]]
    BY <2>1 DEF TypeOK
  <2>2. CASE UNCHANGED db
    BY <2>2 DEF TypeOK
  <2> QED
    BY <2>1, <2>2 DEF Unlist
<1>4. TypeOK'
  BY <1>2, <1>3 DEF TypeOK, Unlist, aside
<1>5. ProbedExists'
  <2>1. \A i \in DOMAIN chain : chain[i] \in Known'
    BY <1>1, <1>2 DEF ProbedExists, Has
  <2>2. ASSUME probe # None
        PROVE  probe.id \in Known'
    <3>1. chain # <<>> /\ chain \in Seq(Ids) /\ Head(chain) = probe.id
      BY <2>2 DEF ProbedExists, TypeOK
    <3>2. 1 \in DOMAIN chain /\ chain[1] = probe.id
      BY <3>1
    <3> QED
      BY <2>1, <3>2
  <2> QED
    BY <2>1, <2>2 DEF ProbedExists, Has, Unlist
<1>6. MainKnown' /\ FoldDistinct' /\ EntryInUse'
  BY DEF MainKnown, FoldDistinct, EntryInUse, AcPositions, Unlist, aside
<1> QED
  BY <1>4, <1>5, <1>6

\* FTM_CATCHB_onSetCCTVStat changes a camera in place.
LEMMA OnSetStatStep ==
    ASSUME IInv, OnSetStat
    PROVE  IInv'
<1> DEFINE m == Head(inbox)
           c == Get(m.id)
           order == ControlFor(c.stat, m.stat)
           changed == [c EXCEPT !.stat = m.stat,
                                !.hash = IF m.stat = "unregistered" THEN NoHash ELSE @]
<1> USE DEF IInv
<1>1. m \in Msg /\ inbox' \in Seq(Msg)
  BY PopType DEF TypeOK, OnSetStat, Idle, Pop
<1>2. m.id \in Ids /\ m.stat \in Stats
  BY <1>1, MsgFields DEF OnSetStat
<1>3. EntryInUse'
  BY DEF EntryInUse, AcPositions, OnSetStat, aside
<1>4. CASE ~Has(m.id)
  <2>1. UNCHANGED <<cctvs, detq>>
    BY <1>4 DEF OnSetStat
  <2>2. TypeOK'
    BY <1>1, <2>1 DEF TypeOK, OnSetStat, aside
  <2>3. Chained'
    BY <2>1, ChainedKept DEF Chained, OnSetStat, Known
  <2> QED
    BY <1>3, <2>2, <2>3 DEF Chained
<1>5. CASE Has(m.id)
  <2>1. c \in Cctv /\ c.id = m.id
    BY <1>5, GetFinds DEF TypeOK
  <2>2. /\ cctvs' = [cctvs EXCEPT ![Pos(m.id)] = changed]
        /\ detq' = IF order = "none" THEN detq
                   ELSE Append(detq, [ip |-> c.ip, policy |-> order])
    BY <1>5 DEF OnSetStat
  <2>3. changed \in Cctv /\ changed.id = m.id
    BY <1>2, <2>1 DEF Cctv
  <2>4. cctvs' \in Seq(Cctv) /\ Known \subseteq Known'
    <3> HIDE DEF changed, m
    <3> QED
      BY <1>5, <2>2, <2>3, ChangeCamera DEF TypeOK
  <2>5. order \in {"allow", "deny", "none"}
    BY DEF ControlFor
  <2>6. detq' \in Seq([ip : Ips, policy : {"allow", "deny"}])
    <3>1. c.ip \in Ips
      BY <2>1 DEF Cctv
    <3>2. CASE order = "none"
      BY <2>2, <3>2 DEF TypeOK
    <3>3. CASE order # "none"
      <4>1. [ip |-> c.ip, policy |-> order] \in [ip : Ips, policy : {"allow", "deny"}]
        BY <2>5, <3>1, <3>3
      <4> HIDE DEF c, order
      <4> QED
        BY <2>2, <3>3, <4>1, AppendProperties DEF TypeOK
    <3> QED
      BY <3>2, <3>3
  <2>7. TypeOK'
    BY <1>1, <2>4, <2>6 DEF TypeOK, OnSetStat, aside
  <2>8. Chained'
    BY <2>4, ChainedKept DEF Chained, OnSetStat
  <2> QED
    BY <1>3, <2>7, <2>8 DEF Chained
<1> QED
  BY <1>4, <1>5

\* An UPDATE keeps the table's rows rows.
LEMMA UpdateType ==
    ASSUME TypeOK, NEW id, NEW column, NEW value, Update(id, column, value),
           \/ column = "hash" /\ value \in Hashes \cup {NoHash}
           \/ column = "ip" /\ value \in Ips
    PROVE  DOMAIN db' \subseteq Ids /\ \A i \in DOMAIN db' : db'[i] \in Row
<1>1. CASE UNCHANGED db
  BY <1>1 DEF TypeOK
<1>2. CASE db' = [i \in DOMAIN db |->
                     IF i = id THEN [db[i] EXCEPT ![column] = value] ELSE db[i]]
  <2>1. ASSUME NEW i \in DOMAIN db
        PROVE  [db[i] EXCEPT ![column] = value] \in Row
    <3>1. db[i] \in Row
      BY DEF TypeOK
    <3>2. CASE column = "hash" /\ value \in Hashes \cup {NoHash}
      BY <3>1, <3>2 DEF Row
    <3>3. CASE column = "ip" /\ value \in Ips
      BY <3>1, <3>3 DEF Row
    <3> QED
      BY <3>2, <3>3
  <2> QED
    BY <1>2, <2>1 DEF TypeOK
<1> QED
  BY <1>1, <1>2 DEF Update

\* FTM_CATCHB_onCCTVRegister changes a camera in place.
LEMMA OnRegisterStep ==
    ASSUME IInv, OnRegister
    PROVE  IInv'
<1> DEFINE m == Head(inbox)
           changed == [Get(m.id) EXCEPT !.hash = m.hash]
<1> USE DEF IInv
<1>1. m \in Msg /\ inbox' \in Seq(Msg)
  BY PopType DEF TypeOK, OnRegister, Idle, Pop
<1>2. m.id \in Ids /\ m.hash \in Hashes
  BY <1>1, MsgFields DEF OnRegister
<1>3. EntryInUse'
  BY DEF EntryInUse, AcPositions, OnRegister, aside
<1>4. CASE ~Has(m.id)
  <2>1. UNCHANGED <<cctvs, db>>
    BY <1>4 DEF OnRegister
  <2>2. TypeOK'
    BY <1>1, <2>1 DEF TypeOK, OnRegister, aside
  <2>3. Chained'
    BY <2>1, ChainedKept DEF Chained, OnRegister, Known
  <2> QED
    BY <1>3, <2>2, <2>3 DEF Chained
<1>5. CASE Has(m.id)
  <2>1. /\ Get(m.id) \in Cctv /\ Get(m.id).id = m.id
        /\ Pos(m.id) \in 1..Len(cctvs) /\ Get(m.id) = cctvs[Pos(m.id)]
    BY <1>5, GetFinds DEF TypeOK
  <2>2. cctvs' = [cctvs EXCEPT ![Pos(m.id)] = changed] /\ Update(m.id, "hash", m.hash)
    BY <1>5, <2>1 DEF OnRegister
  <2>3. changed \in Cctv /\ changed.id = m.id
    BY <1>2, <2>1 DEF Cctv
  <2>4. cctvs' \in Seq(Cctv) /\ Known \subseteq Known'
    <3> HIDE DEF changed, m
    <3> QED
      BY <1>5, <2>2, <2>3, ChangeCamera DEF TypeOK
  <2>5. DOMAIN db' \subseteq Ids /\ \A i \in DOMAIN db' : db'[i] \in Row
    BY <1>2, <2>2, UpdateType
  <2>6. TypeOK'
    BY <1>1, <2>4, <2>5 DEF TypeOK, OnRegister, aside
  <2>7. Chained'
    BY <2>4, ChainedKept DEF Chained, OnRegister
  <2> QED
    BY <1>3, <2>6, <2>7 DEF Chained
<1> QED
  BY <1>4, <1>5

\* FTM_CATCHB_onSetCCTVProperties changes a camera in place.
LEMMA OnSetIPStep ==
    ASSUME IInv, OnSetIP
    PROVE  IInv'
<1> DEFINE m == Head(inbox)
           changed == [Get(m.id) EXCEPT !.ip = m.ip]
<1> USE DEF IInv
<1>1. m \in Msg /\ inbox' \in Seq(Msg)
  BY PopType DEF TypeOK, OnSetIP, Idle, Pop
<1>2. m.id \in Ids /\ m.ip \in Ips
  BY <1>1, MsgFields DEF OnSetIP
<1>3. EntryInUse'
  BY DEF EntryInUse, AcPositions, OnSetIP, aside
<1>4. CASE ~Has(m.id)
  <2>1. UNCHANGED <<cctvs, db>>
    BY <1>4 DEF OnSetIP
  <2>2. TypeOK'
    BY <1>1, <2>1 DEF TypeOK, OnSetIP, aside
  <2>3. Chained'
    BY <2>1, ChainedKept DEF Chained, OnSetIP, Known
  <2> QED
    BY <1>3, <2>2, <2>3 DEF Chained
<1>5. CASE Has(m.id)
  <2>1. /\ Get(m.id) \in Cctv /\ Get(m.id).id = m.id
        /\ Pos(m.id) \in 1..Len(cctvs) /\ Get(m.id) = cctvs[Pos(m.id)]
    BY <1>5, GetFinds DEF TypeOK
  <2>2. cctvs' = [cctvs EXCEPT ![Pos(m.id)] = changed] /\ Update(m.id, "ip", m.ip)
    BY <1>5, <2>1 DEF OnSetIP
  <2>3. changed \in Cctv /\ changed.id = m.id
    BY <1>2, <2>1 DEF Cctv
  <2>4. cctvs' \in Seq(Cctv) /\ Known \subseteq Known'
    <3> HIDE DEF changed, m
    <3> QED
      BY <1>5, <2>2, <2>3, ChangeCamera DEF TypeOK
  <2>5. DOMAIN db' \subseteq Ids /\ \A i \in DOMAIN db' : db'[i] \in Row
    BY <1>2, <2>2, UpdateType
  <2>6. TypeOK'
    BY <1>1, <2>4, <2>5 DEF TypeOK, OnSetIP, aside
  <2>7. Chained'
    BY <2>4, ChainedKept DEF Chained, OnSetIP
  <2> QED
    BY <1>3, <2>6, <2>7 DEF Chained
<1> QED
  BY <1>4, <1>5
-----------------------------------------------------------------------------
(* Steps that hold or wait for the analyzer's lock.                        *)

\* FTM_ANALYZER_CCTV_attach: no two IDs of the chain differ in case only.
LEMMA AttachStep ==
    ASSUME IInv, Attach
    PROVE  IInv'
<1> USE DEF IInv
<1>1. main.id \in Ids /\ Has(main.id) /\ chain \in Seq(Ids) /\ Known' = Known
  BY DEF TypeOK, MainKnown, Attach, Known
<1>2. probe = None /\ main' = None /\ UNCHANGED probe
  BY DEF Attach, LockFree
<1>3. EntryInUse'
  BY DEF EntryInUse, AcPositions, Attach, aside
<1>4. CASE Scheduled(main.id)
  <2>1. chain' = chain
    BY <1>4 DEF Attach
  <2> QED
    BY <1>1, <1>2, <1>3, <2>1
    DEF TypeOK, ProbedExists, MainKnown, FoldDistinct, Has, Attach, aside
<1>5. CASE ~Scheduled(main.id)
  <2>1. chain' = Append(chain, main.id)
    BY <1>5 DEF Attach
  <2>2. /\ chain' \in Seq(Ids)
        /\ DOMAIN chain = 1..Len(chain)
        /\ DOMAIN chain' = 1..(Len(chain) + 1)
        /\ \A i \in 1..Len(chain) : chain'[i] = chain[i]
        /\ chain'[Len(chain) + 1] = main.id
    BY <1>1, <2>1, AppendProperties
  <2>3. ASSUME NEW i \in DOMAIN chain'
        PROVE  i \in DOMAIN chain \/ i = Len(chain) + 1
    BY <1>1, <2>2
  <2>4. TypeOK'
    BY <1>2, <2>2 DEF TypeOK, Attach, aside
  <2>5. ProbedExists'
    BY <1>1, <1>2, <2>2, <2>3 DEF ProbedExists, Has
  <2>6. \A i \in DOMAIN chain : Fold(chain[i]) # Fold(main.id)
    BY <1>5 DEF Scheduled
  <2>7. FoldDistinct'
    BY <2>2, <2>3, <2>6 DEF FoldDistinct
  <2> QED
    BY <1>2, <1>3, <2>4, <2>5, <2>7 DEF MainKnown
<1> QED
  BY <1>4, <1>5

\* FTM_ANALYZER_CCTV_detach: what goes is the camera itself, not one whose ID
\* differs in case.
LEMMA DetachStep ==
    ASSUME IInv, Detach
    PROVE  IInv'
<1> USE DEF IInv
<1>1. /\ main.id \in Ids /\ Has(main.id) /\ Known' = Known
      /\ chain \in Seq(Ids) /\ DOMAIN chain = 1..Len(chain)
  BY DEF TypeOK, MainKnown, Detach, Known
<1>2. /\ probe = None /\ UNCHANGED probe
      /\ main' = [main EXCEPT !.op = "remove"]
      /\ main \in [op : {"attach", "detach", "remove"}, id : Ids]
  BY DEF TypeOK, Detach, LockFree
<1>3. /\ main' \in [op : {"attach", "detach", "remove"}, id : Ids]
      /\ main'.id = main.id
  BY <1>2
<1>4. EntryInUse' /\ MainKnown'
  BY <1>1, <1>3 DEF EntryInUse, AcPositions, MainKnown, Has, Detach, aside
<1>5. CASE ~Scheduled(main.id)
  <2>1. chain' = chain
    BY <1>5 DEF Detach
  <2>2. \A i \in DOMAIN chain : chain[i] # main.id
    BY <1>5 DEF Scheduled
  <2>3. TypeOK'
    BY <1>3, <2>1 DEF TypeOK, Detach, aside
  <2>4. ProbedExists' /\ FoldDistinct'
    BY <1>1, <1>2, <1>3, <2>1, <2>2 DEF ProbedExists, FoldDistinct, Has
  <2> QED
    BY <1>4, <2>3, <2>4
<1>6. CASE Scheduled(main.id)
  <2> DEFINE I == {i \in DOMAIN chain : Fold(chain[i]) = Fold(main.id)}
             k == ChainPos(main.id)
  <2>1. chain' = RemoveAt(chain, k)
    BY <1>6 DEF Detach
  <2>2. I \subseteq Nat /\ I # {}
    BY <1>1, <1>6 DEF Scheduled
  <2>3. Least(I) \in I
    BY <2>2, LeastExists
  <2>4. k \in 1..Len(chain) /\ Fold(chain[k]) = Fold(main.id)
    BY <1>1, <2>3 DEF ChainPos
  <2> HIDE DEF k
  <2>5. /\ chain' \in Seq(Ids) /\ DOMAIN chain' = 1..Len(chain')
        /\ Len(chain') = Len(chain) - 1
    <3>1. /\ RemoveAt(chain, k) \in Seq(Ids)
          /\ Len(RemoveAt(chain, k)) = Len(chain) - 1
      BY <1>1, <2>4, RemoveAtProperties
    <3> QED
      BY <2>1, <3>1
  <2>6. ASSUME NEW i \in DOMAIN chain'
        PROVE  \E j \in DOMAIN chain : /\ j # k
                                       /\ j = IF i < k THEN i ELSE i + 1
                                       /\ chain'[i] = chain[j]
    BY <1>1, <2>1, <2>4, <2>5, RemoveAtOrigin
  <2>7. ASSUME NEW i \in DOMAIN chain'
        PROVE  chain'[i] \in Known /\ chain'[i] # main.id
    <3>1. PICK j \in DOMAIN chain : j # k /\ chain'[i] = chain[j]
      BY <2>6
    <3>2. Fold(chain[j]) # Fold(chain[k])
      BY <1>1, <2>4, <3>1 DEF FoldDistinct
    <3> QED
      BY <2>4, <3>1, <3>2 DEF ProbedExists, Has
  <2>8. FoldDistinct'
    <3>1. SUFFICES ASSUME NEW i1 \in DOMAIN chain', NEW i2 \in DOMAIN chain',
                          Fold(chain'[i1]) = Fold(chain'[i2])
                   PROVE  i1 = i2
      BY DEF FoldDistinct
    <3>2. PICK j1 \in DOMAIN chain : /\ j1 # k /\ chain'[i1] = chain[j1]
                                     /\ j1 = IF i1 < k THEN i1 ELSE i1 + 1
      BY <2>6
    <3>3. PICK j2 \in DOMAIN chain : /\ j2 # k /\ chain'[i2] = chain[j2]
                                     /\ j2 = IF i2 < k THEN i2 ELSE i2 + 1
      BY <2>6
    <3>4. j1 = j2
      BY <3>1, <3>2, <3>3 DEF FoldDistinct
    <3> QED
      BY <2>4, <2>5, <3>2, <3>3, <3>4
  <2>9. TypeOK'
    BY <1>3, <2>5 DEF TypeOK, Detach, aside
  <2>10. ProbedExists'
    BY <1>1, <1>2, <1>3, <2>7 DEF ProbedExists, Has
  <2> QED
    BY <1>4, <2>8, <2>9, <2>10
<1> QED
  BY <1>5, <1>6

-----------------------------------------------------------------------------
(* Steps of the analyzer.                                                  *)

\* FTM_ANALYZER_process up to the ping.
LEMMA ProbeBeginStep ==
    ASSUME IInv, ProbeBegin
    PROVE  IInv'
<1> USE DEF IInv
<1>1. chain \in Seq(Ids) /\ chain # <<>> /\ Has(Head(chain)) /\ Known' = Known
  BY DEF TypeOK, ProbeBegin, Known
<1>2. probe' = [id |-> Head(chain), replied |-> world[Get(Head(chain)).ip] # Down,
                hash |-> NoHash]
  BY DEF ProbeBegin
<1>3. (world[Get(Head(chain)).ip] # Down) \in BOOLEAN
  OBVIOUS
<1>4. Head(chain) \in Ids
  BY <1>1, HeadTailProperties
<1>5. probe' \in Probe /\ probe'.id = Head(chain)
  <2> DEFINE r == world[Get(Head(chain)).ip] # Down
  <2>1. r \in BOOLEAN
    BY <1>3
  <2> HIDE DEF r
  <2>2. [id |-> Head(chain), replied |-> r, hash |-> NoHash] \in Probe
    BY <1>4, <2>1 DEF Probe
  <2> QED
    BY <1>2, <2>2 DEF r
<1>6. TypeOK'
  BY <1>5 DEF TypeOK, ProbeBegin, aside
<1>7. ProbedExists' /\ MainKnown' /\ FoldDistinct' /\ EntryInUse'
  BY <1>1, <1>5
  DEF ProbedExists, MainKnown, FoldDistinct, EntryInUse, AcPositions, Has, ProbeBegin, aside
<1> QED
  BY <1>6, <1>7

\* FTM_ANALYZER_process: ARP and ports.
LEMMA ScanStep ==
    ASSUME IInv, Scan
    PROVE  IInv'
<1> USE DEF IInv
<1>1. probe \in Probe /\ Has(probe.id) /\ Known' = Known
  BY DEF TypeOK, ProbedExists, Scan, Known
<1>2. Get(probe.id) \in Cctv
  BY <1>1, GetFinds DEF TypeOK
<1>3. Get(probe.id).ip \in Ips
  BY <1>2 DEF Cctv
<1>4. ASSUME NEW ip \in Ips
      PROVE  Fingerprint(ip) \in Hashes
  <2>1. world[ip] \in Prints \cup {Down}
    BY DEF TypeOK
  <2>2. (IF world[ip] = Down THEN HalfSeen ELSE world[ip]) \in Prints
    BY <2>1, ConstantsAssumption
  <2> QED
    BY <2>2 DEF Fingerprint, Hashes
<1>5. Fingerprint(Get(probe.id).ip) \in Hashes
  BY <1>3, <1>4
<1>6. probe' = [probe EXCEPT !.hash = Fingerprint(Get(probe.id).ip)]
  BY DEF Scan
<1>7. probe' \in Probe /\ probe'.id = probe.id
  <2> DEFINE h == Fingerprint(Get(probe.id).ip)
  <2>1. h \in Hashes
    BY <1>5
  <2> HIDE DEF h
  <2>2. [probe EXCEPT !.hash = h] \in Probe /\ [probe EXCEPT !.hash = h].id = probe.id
    BY <1>1, <2>1 DEF Probe
  <2> QED
    BY <1>6, <2>2 DEF h
<1>8. TypeOK'
  BY <1>7 DEF TypeOK, Scan, aside
<1>9. ProbedExists' /\ MainKnown' /\ FoldDistinct' /\ EntryInUse'
  BY <1>1, <1>7
  DEF ProbedExists, MainKnown, FoldDistinct, EntryInUse, AcPositions, Has, Scan, aside
<1> QED
  BY <1>8, <1>9
\* The report of a probe is a message or nothing, and speaks of a wrong
\* fingerprint only if one was seen.
LEMMA ReportType ==
    ASSUME TypeOK, Scanned, NEW c \in Cctv
    PROVE  /\ Report(c) \in Seq(Msg)
           /\ (\E i \in DOMAIN Report(c) :
                 Report(c)[i].type = "setStat" /\ Report(c)[i].stat = "abnormal")
              => probe.hash \in Hashes
<1> DEFINE unused == [type |-> "setStat", id |-> c.id, stat |-> "unused"]
           register == [type |-> "register", id |-> c.id, hash |-> probe.hash]
           outcome == [type |-> "setStat", id |-> c.id,
                       stat |-> IF c.hash = probe.hash THEN "normal" ELSE "abnormal"]
<1>1. c.id \in Ids /\ probe \in Probe
  BY DEF Cctv, TypeOK, Scanned
<1>2. CASE ~probe.replied
  <2>1. unused \in Msg
    BY <1>1 DEF Msg, Stats
  <2>2. Report(c) = <<>> \/ Report(c) = <<unused>>
    BY <1>2 DEF Report
  <2>3. CASE Report(c) = <<>>
    BY <2>3
  <2>4. CASE Report(c) = <<unused>>
    <3>1. \A i \in DOMAIN Report(c) : Report(c)[i].stat = "unused"
      BY <2>4
    <3> QED
      BY <2>1, <2>4, <3>1
  <2> QED
    BY <2>2, <2>3, <2>4
<1>3. CASE probe.replied
  <2>1. probe.hash \in Hashes
    BY <1>1, <1>3 DEF Probe, Scanned
  <2>2. register \in Msg /\ outcome \in Msg
    BY <1>1, <2>1 DEF Msg, Stats
  <2>3. Report(c) = <<register>> \/ Report(c) = <<outcome>>
    BY <1>3 DEF Report
  <2> HIDE DEF register, outcome
  <2>4. <<register>> \in Seq(Msg) /\ <<outcome>> \in Seq(Msg)
    BY <2>2
  <2>5. Report(c) \in Seq(Msg)
    BY <2>3, <2>4
  <2> QED
    BY <2>1, <2>5
<1> QED
  BY <1>2, <1>3

\* FTM_ANALYZER_process: the chain turns, and keeps its members.
LEMMA ProbeEndStep ==
    ASSUME IInv, ProbeEnd
    PROVE  IInv'
<1> DEFINE c == Get(probe.id)
           report == Report(c)
           wrong == \E i \in DOMAIN report :
                       report[i].type = "setStat" /\ report[i].stat = "abnormal"
<1> USE DEF IInv
<1>1. /\ probe \in Probe /\ Has(probe.id) /\ Known' = Known
      /\ chain \in Seq(Ids) /\ chain # <<>>
  BY DEF TypeOK, ProbedExists, ProbeEnd, Scanned, Known
<1>2. c \in Cctv
  BY <1>1, GetFinds DEF TypeOK
<1>3. report \in Seq(Msg) /\ (wrong => probe.hash \in Hashes)
  BY <1>2, ReportType DEF ProbeEnd
<1>4. inbox' \in Seq(Msg)
  <2>1. inbox' = inbox \o report
    BY DEF ProbeEnd
  <2> HIDE DEF report
  <2> QED
    BY <1>3, <2>1, ConcatProperties DEF TypeOK
<1>5. convicted' \subseteq Ips
  <2>1. convicted' = IF wrong THEN convicted \cup {probe.hash[1]} ELSE convicted
    BY DEF ProbeEnd
  <2>2. wrong => probe.hash[1] \in Ips
    <3> HIDE DEF wrong
    <3> QED
      BY <1>3 DEF Hashes
  <2> HIDE DEF wrong
  <2> QED
    BY <2>1, <2>2 DEF TypeOK
<1>6. chain' = Append(Tail(chain), Head(chain)) /\ probe' = None
  BY DEF ProbeEnd
<1>7. /\ Tail(chain) \in Seq(Ids) /\ Head(chain) \in Ids
      /\ Len(Tail(chain)) = Len(chain) - 1 /\ Head(chain) = chain[1]
      /\ DOMAIN chain = 1..Len(chain) /\ Len(chain) \in Nat \ {0}
      /\ \A i \in 1..(Len(chain) - 1) : Tail(chain)[i] = chain[i+1]
  BY <1>1, HeadTailProperties
<1>8. /\ chain' \in Seq(Ids)
      /\ DOMAIN chain' = 1..Len(chain)
      /\ \A i \in 1..(Len(chain) - 1) : chain'[i] = chain[i+1]
      /\ chain'[Len(chain)] = chain[1]
  BY <1>6, <1>7, AppendProperties
<1> DEFINE from(i) == IF i = Len(chain) THEN 1 ELSE i + 1
<1>9. ASSUME NEW i \in DOMAIN chain'
      PROVE  from(i) \in DOMAIN chain /\ chain'[i] = chain[from(i)]
  <2>1. CASE i = Len(chain)
    BY <1>7, <1>8, <2>1
  <2>2. CASE i # Len(chain)
    <3>1. i \in 1..(Len(chain) - 1) /\ i + 1 \in 1..Len(chain)
      BY <1>7, <1>8, <2>2
    <3> QED
      BY <1>7, <1>8, <2>2, <3>1
  <2> QED
    BY <2>1, <2>2
<1>10. \A i, j \in DOMAIN chain' : from(i) = from(j) => i = j
  BY <1>7, <1>8
<1> HIDE DEF from
<1>11. TypeOK'
  BY <1>4, <1>5, <1>6, <1>8 DEF TypeOK, ProbeEnd, aside
<1>12. ProbedExists'
  BY <1>1, <1>6, <1>9 DEF ProbedExists, Has, ProbeEnd
<1>13. FoldDistinct'
  BY <1>9, <1>10 DEF FoldDistinct
<1>14. MainKnown' /\ EntryInUse'
  BY <1>1 DEF MainKnown, EntryInUse, AcPositions, Has, ProbeEnd, aside
<1> QED
  BY <1>11, <1>12, <1>13, <1>14

-----------------------------------------------------------------------------
(* Start and end of the process.                                           *)

\* Nothing is known and nothing runs before the first start.
LEMMA InitInv ==
    ASSUME Init
    PROVE  IInv
<1>1. /\ cctvs \in Seq(Cctv) /\ inbox \in Seq(Msg) /\ chain \in Seq(Ids)
      /\ detq \in Seq([ip : Ips, policy : {"allow", "deny"}])
      /\ acl \in Seq(Control)
  BY EmptySeq DEF Init
<1>2. running \in BOOLEAN
  BY DEF Init
<1>3. TypeOK
  BY <1>1, <1>2, InitDbAssumption DEF Init, TypeOK
<1>4. DOMAIN chain = {}
  BY DEF Init
<1> QED
  BY <1>3, <1>4
  DEF Init, IInv, ProbedExists, MainKnown, FoldDistinct, EntryInUse

\* FTM_CATCHB_initProcess: every row of the table makes a message.
LEMMA BootStep ==
    ASSUME IInv, Boot
    PROVE  IInv'
<1> USE DEF IInv
<1>1. PICK s \in SetToSeqs(DOMAIN db) : inbox' = [i \in DOMAIN s |-> FoundMsg(s[i])]
  BY DEF Boot
<1>2. DOMAIN db \subseteq Ids /\ Cardinality(DOMAIN db) \in Nat
  <2>1. DOMAIN db \subseteq Ids
    BY DEF TypeOK
  <2>2. IsFiniteSet(DOMAIN db)
    BY <2>1, ConstantsAssumption, FS_Subset
  <2> QED
    BY <2>1, <2>2, FS_CardinalityType
<1>3. s \in [1..Cardinality(DOMAIN db) -> DOMAIN db]
  BY DEF SetToSeqs
<1>4. ASSUME NEW id \in DOMAIN db
      PROVE  FoundMsg(id) \in Msg
  <2>1. id \in Ids /\ db[id] \in Row
    BY DEF TypeOK
  <2> QED
    BY <2>1 DEF FoundMsg, Msg, Row
<1>5. inbox' \in [1..Cardinality(DOMAIN db) -> Msg]
  BY <1>1, <1>3, <1>4
<1>6. inbox' \in Seq(Msg)
  BY <1>2, <1>5
<1>7. running' \in BOOLEAN
  BY DEF Boot
<1>8. TypeOK'
  BY <1>6, <1>7 DEF TypeOK, Boot
<1>9. ProbedExists' /\ MainKnown' /\ FoldDistinct' /\ EntryInUse'
  BY DEF ProbedExists, MainKnown, FoldDistinct, EntryInUse, AcPositions, Has, Known, Boot
<1> QED
  BY <1>8, <1>9

\* Everything in memory is gone at once.
LEMMA HaltStep ==
    ASSUME IInv, Halt
    PROVE  IInv'
<1> USE DEF IInv
<1>1. /\ cctvs' \in Seq(Cctv) /\ inbox' \in Seq(Msg) /\ chain' \in Seq(Ids)
      /\ detq' \in Seq([ip : Ips, policy : {"allow", "deny"}])
      /\ acl' \in Seq(Control)
  BY EmptySeq DEF Halt
<1>2. running' \in BOOLEAN
  BY DEF Halt
<1>3. TypeOK'
  BY <1>1, <1>2 DEF TypeOK, Halt
<1>4. DOMAIN chain' = {}
  BY DEF Halt
<1> QED
  BY <1>3, <1>4 DEF ProbedExists, MainKnown, FoldDistinct, EntryInUse, Halt

-----------------------------------------------------------------------------
(* Steps of the detector.                                                  *)

\* Whatever leaves the registry and the analyzer alone keeps them in step.
LEMMA CoreKept ==
    ASSUME Chained, UNCHANGED core
    PROVE  Chained'
BY DEF Chained, ProbedExists, MainKnown, FoldDistinct, Has, Known, core

\* An entry that is appended hides none of the others.
LEMMA AppendAc ==
    ASSUME acl \in Seq(Control), NEW e \in Control, acl' = Append(acl, e), NEW ip
    PROVE  acl' \in Seq(Control) /\ AcPositions(ip) \subseteq AcPositions(ip)'
<1>1. /\ acl' \in Seq(Control)
      /\ DOMAIN acl = 1..Len(acl)
      /\ DOMAIN acl' = 1..(Len(acl) + 1)
      /\ \A i \in 1..Len(acl) : acl'[i] = acl[i]
  BY AppendProperties
<1>2. \A i \in DOMAIN acl : i \in DOMAIN acl'
  BY <1>1
<1> QED
  BY <1>1, <1>2 DEF AcPositions

\* FTM_DETECTOR_onSetControl: an order to allow needs an entry.
LEMMA OnSetControlStep ==
    ASSUME IInv, OnSetControl
    PROVE  IInv'
<1> DEFINE m == Head(detq)
           Order == [ip : Ips, policy : {"allow", "deny"}]
<1> USE DEF IInv
<1>1. m \in Order /\ detq' \in Seq(Order)
  BY PopType DEF TypeOK, OnSetControl
<1>2. \A ip : AcPositions(ip)' = AcPositions(ip)
  BY DEF AcPositions, OnSetControl
<1>3. Chained'
  BY CoreKept DEF Chained, OnSetControl
<1>4. CASE m.policy = "deny" /\ switching' = [step |-> "add", ip |-> m.ip, policy |-> "deny"]
  <2>1. switching' \in Switching
    BY <1>1, <1>4 DEF Switching
  <2>2. TypeOK'
    BY <1>1, <2>1 DEF TypeOK, OnSetControl, core
  <2>3. EntryInUse'
    BY <1>4 DEF EntryInUse
  <2> QED
    BY <1>3, <2>2, <2>3 DEF Chained
<1>5. CASE /\ AcPositions(m.ip) # {}
           /\ switching' = [step |-> "apply", ip |-> m.ip, policy |-> "allow"]
  <2>1. switching' \in Switching
    BY <1>1, <1>5 DEF Switching
  <2>2. TypeOK'
    BY <1>1, <2>1 DEF TypeOK, OnSetControl, core
  <2>3. EntryInUse'
    BY <1>2, <1>5 DEF EntryInUse
  <2> QED
    BY <1>3, <2>2, <2>3 DEF Chained
<1>6. CASE UNCHANGED switching
  <2>1. TypeOK'
    BY <1>1, <1>6 DEF TypeOK, OnSetControl, core
  <2>2. EntryInUse'
    BY <1>2, <1>6 DEF EntryInUse
  <2> QED
    BY <1>3, <2>1, <2>2 DEF Chained
<1> QED
  BY <1>4, <1>5, <1>6 DEF OnSetControl

\* FTM_SWITCH_addAC, the entry.
LEMMA AddEntryStep ==
    ASSUME IInv, AddEntry
    PROVE  IInv'
<1> USE DEF IInv
<1>1. switching \in Switching /\ switching' = [switching EXCEPT !.step = "apply"]
  BY DEF TypeOK, AddEntry
<1>2. switching' \in Switching /\ switching'.ip = switching.ip
                               /\ switching'.policy = switching.policy
  BY <1>1 DEF Switching
<1> DEFINE e == [ip |-> switching.ip, policy |-> switching.policy]
<1>3. e \in Control
  BY <1>1 DEF Control, Switching
<1>4. acl' \in Seq(Control) /\ \A ip : AcPositions(ip) \subseteq AcPositions(ip)'
  <2>1. acl' = Append(acl, e)
    BY DEF AddEntry
  <2> HIDE DEF e
  <2> QED
    BY <1>3, <2>1, AppendAc DEF TypeOK
<1>5. TypeOK'
  BY <1>2, <1>4 DEF TypeOK, AddEntry, core
<1>6. EntryInUse'
  BY <1>2, <1>4 DEF EntryInUse, AddEntry
<1>7. Chained'
  BY CoreKept DEF Chained, AddEntry
<1> QED
  BY <1>5, <1>6, <1>7 DEF Chained

\* FTM_SWITCH_addAC, the switch.
LEMMA ApplyDenyStep ==
    ASSUME IInv, ApplyDeny
    PROVE  IInv'
<1> USE DEF IInv
<1>1. switching \in Switching /\ switching' = None
  BY DEF TypeOK, ApplyDeny
<1>2. rules' \subseteq Ips
  BY <1>1 DEF TypeOK, ApplyDeny, SetAC, Switching
<1>3. TypeOK'
  BY <1>1, <1>2 DEF TypeOK, ApplyDeny, core
<1>4. EntryInUse'
  BY <1>1 DEF EntryInUse
<1>5. Chained'
  BY CoreKept DEF Chained, ApplyDeny
<1> QED
  BY <1>3, <1>4, <1>5 DEF Chained

\* FTM_SWITCH_deleteAC, the switch.
LEMMA ApplyAllowStep ==
    ASSUME IInv, ApplyAllow
    PROVE  IInv'
<1> USE DEF IInv
<1>1. /\ switching \in Switching /\ switching # None
      /\ switching' = [switching EXCEPT !.step = "remove"] \/ switching' = None
  BY DEF TypeOK, ApplyAllow, SetAC
<1>2. rules' \subseteq Ips
  BY <1>1 DEF TypeOK, ApplyAllow, SetAC
<1>3. switching.step = "apply" /\ switching.policy = "allow"
  BY DEF ApplyAllow
<1>4. \/ switching' = None
      \/ /\ switching' \in Switching /\ switching'.ip = switching.ip
         /\ switching'.policy = switching.policy
  <2>1. switching \in [step : {"apply", "remove"}, ip : Ips, policy : {"allow"}]
    BY <1>1, <1>3 DEF Switching
  <2>2. [switching EXCEPT !.step = "remove"] \in Switching
    BY <2>1 DEF Switching
  <2>3. /\ [switching EXCEPT !.step = "remove"].ip = switching.ip
        /\ [switching EXCEPT !.step = "remove"].policy = switching.policy
    BY <2>1
  <2> QED
    BY <1>1, <2>2, <2>3
<1>5. TypeOK'
  BY <1>2, <1>4 DEF TypeOK, ApplyAllow, core
<1>6. EntryInUse'
  BY <1>1, <1>4 DEF EntryInUse, AcPositions, ApplyAllow
<1>7. Chained'
  BY CoreKept DEF Chained, ApplyAllow
<1> QED
  BY <1>5, <1>6, <1>7 DEF Chained

\* FTM_SWITCH_deleteAC, the entry.
LEMMA RemoveEntryStep ==
    ASSUME IInv, RemoveEntry
    PROVE  IInv'
<1> USE DEF IInv
<1>1. switching' = None /\ acl' = RemoveAt(acl, FirstAc(switching.ip))
  BY DEF RemoveEntry
<1>2. switching.policy = "allow"
  BY DEF TypeOK, RemoveEntry, Switching
<1>3. AcPositions(switching.ip) # {}
  BY <1>2 DEF EntryInUse, RemoveEntry
<1>4. FirstAc(switching.ip) \in 1..Len(acl)
  <2>1. acl \in Seq(Control) /\ AcPositions(switching.ip) \subseteq 1..Len(acl)
    BY DEF TypeOK, AcPositions
  <2>2. FirstAc(switching.ip) \in AcPositions(switching.ip)
    BY <1>3, <2>1, LeastExists DEF FirstAc
  <2> QED
    BY <2>1, <2>2
<1>5. acl' \in Seq(Control)
  <2>1. acl \in Seq(Control)
    BY DEF TypeOK
  <2>2. RemoveAt(acl, FirstAc(switching.ip)) \in Seq(Control)
    BY <1>4, <2>1, RemoveAtProperties
  <2> QED
    BY <1>1, <2>2
<1>6. TypeOK'
  BY <1>1, <1>5 DEF TypeOK, RemoveEntry, core
<1>7. EntryInUse'
  BY <1>1 DEF EntryInUse
<1>8. Chained'
  BY CoreKept DEF Chained, RemoveEntry
<1> QED
  BY <1>6, <1>7, <1>8 DEF Chained

-----------------------------------------------------------------------------
(* Requests of operators, and the devices.                                 *)

\* A message that is posted finds its place in the queue.
LEMMA PostKeeps ==
    ASSUME IInv, NEW m \in Msg, Post(m), session' \in {None} \cup Session
    PROVE  IInv'
<1> USE DEF IInv
<1>1. inbox' \in Seq(Msg)
  <2>1. inbox' = Append(inbox, m)
    BY DEF Post
  <2> QED
    BY <2>1, AppendProperties DEF TypeOK
<1>2. TypeOK'
  BY <1>1 DEF TypeOK, Post
<1>3. ProbedExists' /\ MainKnown' /\ FoldDistinct' /\ EntryInUse'
  BY DEF ProbedExists, MainKnown, FoldDistinct, EntryInUse, AcPositions, Has, Known, Post
<1> QED
  BY <1>2, <1>3

\* FTM_SERVER_CCTV_add and FTM_SERVER_CCTV_setProperties only post.
LEMMA RequestPostStep ==
    ASSUME IInv, NEW id \in Ids, NEW ip \in Ips,
           RequestAdd(id, ip) \/ RequestSetIP(id, ip)
    PROVE  IInv'
<1>1. session' \in {None} \cup Session
  BY DEF IInv, TypeOK, RequestAdd, RequestSetIP
<1>2. /\ [type |-> "create", id |-> id, ip |-> ip] \in Msg
      /\ [type |-> "setIP", id |-> id, ip |-> ip] \in Msg
  BY DEF Msg
<1> QED
  BY <1>1, <1>2, PostKeeps DEF RequestAdd, RequestSetIP

\* FTM_SERVER_CCTV_del.
LEMMA RequestDelStep ==
    ASSUME IInv, NEW id \in Ids, RequestDel(id)
    PROVE  IInv'
<1>1. session' \in {None} \cup Session
  BY DEF IInv, TypeOK, RequestDel
<1>2. [type |-> "delete", id |-> id] \in Msg
  BY DEF Msg
<1> QED
  BY <1>1, <1>2, PostKeeps DEF RequestDel

\* A session that leaves the registry alone and takes nothing out of the list
\* of access controls disturbs nobody.
LEMMA SessionKeeps ==
    ASSUME IInv, UNCHANGED <<core, detq, switching>>,
           session' \in {None} \cup Session, rules' \subseteq Ips,
           \/ UNCHANGED acl
           \/ \E e \in Control : acl' = Append(acl, e)
    PROVE  IInv'
<1> USE DEF IInv
<1>1. acl' \in Seq(Control) /\ \A ip : AcPositions(ip) \subseteq AcPositions(ip)'
  <2>1. CASE UNCHANGED acl
    BY <2>1 DEF TypeOK, AcPositions
  <2>2. CASE \E e \in Control : acl' = Append(acl, e)
    BY <2>2, AppendAc DEF TypeOK
  <2> QED
    BY <2>1, <2>2
<1>2. TypeOK'
  BY <1>1 DEF TypeOK, core
<1>3. EntryInUse'
  BY <1>1 DEF EntryInUse
<1>4. Chained'
  BY CoreKept DEF Chained
<1> QED
  BY <1>2, <1>3, <1>4 DEF Chained

\* FTM_SERVER_CCTV_reset up to the switch.
LEMMA RequestResetStep ==
    ASSUME IInv, NEW id \in Ids, RequestReset(id)
    PROVE  IInv'
<1> DEFINE e == [ip |-> id, policy |-> "allow"]
           abnormal == Get(id).stat = "abnormal"
<1>1. e \in Control
  BY DEF Control
<1>2. UNCHANGED acl \/ \E x \in Control : acl' = Append(acl, x)
  <2>1. acl' = Append(acl, e) \/ acl' = acl
    BY DEF RequestReset
  <2> QED
    BY <1>1, <2>1
<1>3. session' \in Session
  <2>1. \/ session' = [op |-> "reset", step |-> "apply", id |-> id, ip |-> id,
                       policy |-> "allow"]
        \/ session' = [op |-> "reset", step |-> "post", id |-> id, ip |-> id,
                       policy |-> "allow"]
    BY DEF RequestReset
  <2> QED
    BY <2>1 DEF Session
<1>4. rules' \subseteq Ips /\ UNCHANGED <<core, detq, switching>>
  BY DEF IInv, TypeOK, RequestReset
<1> QED
  BY <1>2, <1>3, <1>4, SessionKeeps

\* FTM_SERVER_CCTV_setPolicy up to the switch.
LEMMA RequestPolicyStep ==
    ASSUME IInv, NEW id \in Ids, NEW policy \in {"allow", "deny"},
           RequestPolicy(id, policy)
    PROVE  IInv'
<1> DEFINE e == [ip |-> Get(id).ip, policy |-> policy]
<1>1. Get(id) \in Cctv
  BY GetFinds DEF IInv, TypeOK, RequestPolicy
<1>2. Get(id).ip \in Ips
  BY <1>1 DEF Cctv
<1>3. e \in Control
  BY <1>2 DEF Control
<1>4. \E x \in Control : acl' = Append(acl, x)
  BY <1>3 DEF RequestPolicy
<1>5. session' \in Session
  BY <1>2 DEF RequestPolicy, Session
<1>6. rules' \subseteq Ips /\ UNCHANGED <<core, detq, switching>>
  BY DEF IInv, TypeOK, RequestPolicy
<1> QED
  BY <1>4, <1>5, <1>6, SessionKeeps

\* The switch's script, run from a session's thread.
LEMMA SessionApplyStep ==
    ASSUME IInv, SessionApply
    PROVE  IInv'
<1>1. session \in Session /\ session.step = "apply"
  BY DEF IInv, TypeOK, SessionApply
<1>2. rules' \subseteq Ips
  BY <1>1 DEF IInv, TypeOK, SessionApply, SetAC, Session
<1>3. session' \in {None} \cup Session
  <2>1. CASE session.op = "reset"
    <3>1. session \in [op : {"reset"}, step : {"apply", "post"}, id : Ids, ip : Ids,
                       policy : {"allow"}]
      BY <1>1, <2>1 DEF Session
    <3>2. [session EXCEPT !.step = "post"] \in Session
      BY <3>1 DEF Session
    <3> QED
      BY <2>1, <3>2 DEF SessionApply
  <2>2. CASE session.op # "reset"
    BY <2>2 DEF SessionApply
  <2> QED
    BY <2>1, <2>2
<1>4. UNCHANGED <<core, detq, switching, acl>>
  BY DEF SessionApply
<1> QED
  BY <1>2, <1>3, <1>4, SessionKeeps

\* FTM_CATCHB_resetCCTV.
LEMMA SendResetStep ==
    ASSUME IInv, SendReset
    PROVE  IInv'
<1>1. session \in Session
  BY DEF IInv, TypeOK, SendReset
<1>2. [type |-> "setStat", id |-> session.id, stat |-> "unregistered"] \in Msg
  BY <1>1 DEF Session, Msg, Stats
<1> QED
  BY <1>2, PostKeeps DEF SendReset

\* What the network does to a device is no matter of the daemon's.
LEMMA DeviceStep ==
    ASSUME IInv, NEW ip \in Ips, Device(ip)
    PROVE  IInv'
<1> USE DEF IInv
<1>1. world' \in [Ips -> Prints \cup {Down}]
  BY DEF TypeOK, Device
<1>2. UNCHANGED memory
  BY DEF Device
<1>3. TypeOK'
  BY <1>1, <1>2 DEF TypeOK, Device, memory
<1>4. ProbedExists' /\ MainKnown' /\ FoldDistinct' /\ EntryInUse'
  BY <1>2
  DEF ProbedExists, MainKnown, FoldDistinct, EntryInUse, AcPositions, Has, Known, memory
<1> QED
  BY <1>3, <1>4

-----------------------------------------------------------------------------
(* The theorems.                                                           *)

\* A step that changes nothing.
LEMMA StutterStep ==
    ASSUME IInv, UNCHANGED vars
    PROVE  IInv'
<1> USE DEF IInv
<1>1. TypeOK'
  BY DEF TypeOK, vars, memory
<1>2. ProbedExists' /\ MainKnown' /\ FoldDistinct' /\ EntryInUse'
  BY DEF ProbedExists, MainKnown, FoldDistinct, EntryInUse, AcPositions, Has, Known,
         vars, memory
<1> QED
  BY <1>1, <1>2

\* The invariant is inductive: one handler, one lemma.
LEMMA NextKeeps ==
    ASSUME IInv, [Next]_vars
    PROVE  IInv'
<1>1. CASE Boot \/ Halt
  BY <1>1, BootStep, HaltStep
<1>2. CASE MainStep
  BY <1>2, OnCreateStep, OnFoundStep, OnDeleteStep, UnlistStep, OnSetStatStep,
     OnRegisterStep, OnSetIPStep DEF MainStep
<1>3. CASE Attach \/ Detach
  BY <1>3, AttachStep, DetachStep
<1>4. CASE AnalyzerStep
  BY <1>4, ProbeBeginStep, ScanStep, ProbeEndStep DEF AnalyzerStep
<1>5. CASE DetectorStep
  BY <1>5, OnSetControlStep, AddEntryStep, ApplyDenyStep, ApplyAllowStep,
     RemoveEntryStep DEF DetectorStep
<1>6. CASE Request
  <2>1. CASE \E id \in Ids, ip \in Ips : RequestAdd(id, ip) \/ RequestSetIP(id, ip)
    BY <2>1, RequestPostStep
  <2>2. CASE \E id \in Ids : RequestDel(id) \/ RequestReset(id)
    <3>1. PICK id \in Ids : RequestDel(id) \/ RequestReset(id)
      BY <2>2
    <3>2. CASE RequestDel(id)
      BY <3>2, RequestDelStep
    <3>3. CASE RequestReset(id)
      BY <3>3, RequestResetStep
    <3> QED
      BY <3>1, <3>2, <3>3
  <2>3. CASE \E id \in Ids, policy \in {"allow", "deny"} : RequestPolicy(id, policy)
    BY <2>3, RequestPolicyStep
  <2> QED
    BY <1>6, <2>1, <2>2, <2>3 DEF Request
<1>7. CASE SessionStep
  BY <1>7, SessionApplyStep, SendResetStep DEF SessionStep
<1>8. CASE \E ip \in Ips : Device(ip)
  BY <1>8, DeviceStep
<1>9. CASE UNCHANGED vars
  BY <1>9, StutterStep
<1> QED
  BY <1>1, <1>2, <1>3, <1>4, <1>5, <1>6, <1>7, <1>8, <1>9 DEF Next

\* The invariant that carries the theorems holds in every reachable state.
LEMMA Invariance == Spec => []IInv
<1>1. Init => IInv
  BY InitInv
<1>2. IInv /\ [Next]_vars => IInv'
  BY NextKeeps
<1> QED
  BY <1>1, <1>2, PTL DEF Spec

\* Whatever the operators ask, the devices do and the switch or the database
\* fails at, every variable of the daemon keeps its type (FTM_CATCHB,
\* FTM_ANALYZER, FTM_SWITCH).
THEOREM TypeCorrect == Spec => []TypeOK
<1>1. IInv => TypeOK
  BY DEF IInv
<1> QED
  BY <1>1, Invariance, PTL

\* FTM_ANALYZER_process never touches a camera that FTM_CATCHB_onDeleteCCTV
\* has taken out of the registry, however adds and deletes, IDs that differ in
\* letter case only, restarts and probes interleave.
THEOREM ProbedExistsCorrect == Spec => []ProbedExists
<1>1. IInv => ProbedExists
  BY DEF IInv
<1> QED
  BY <1>1, Invariance, PTL

\* The access control that FTM_SWITCH_deleteAC has looked up is still there
\* when it removes and frees it, whatever session threads add meanwhile.
THEOREM EntryInUseCorrect == Spec => []EntryInUse
<1>1. IInv => EntryInUse
  BY DEF IInv
<1> QED
  BY <1>1, Invariance, PTL
=============================================================================
