------------------------- MODULE CatchB_lists_proofs -------------------------
(***************************************************************************)
(* The lists of the daemon beside what they stand for: the registry beside *)
(* the table and the analyzer's chain, the access controls beside the      *)
(* rules of the switch.  Two cameras never share an ID, for the check that *)
(* FTM_CATCHB_onFoundCCTVInDB does not make is made by the order of the    *)
(* main thread's queue.  What the switch blocks the daemon knows of, for   *)
(* the order in which FTM_SWITCH_addAC and FTM_SWITCH_deleteAC touch list  *)
(* and switch, so that the switch carries out what it is ordered; and who  *)
(* is blocked has been convicted and is at fault.                          *)
(***************************************************************************)
EXTENDS CatchB_proofs

-----------------------------------------------------------------------------
(* The registry.                                                           *)

\* No two cameras of the list share an ID.
Distinct == \A i, j \in DOMAIN cctvs : cctvs[i].id = cctvs[j].id => i = j

\* What the table announces is new, and ahead of everything else.
Announced ==
    \A i \in DOMAIN inbox : inbox[i].type = "found" =>
        /\ ~Has(inbox[i].id)
        /\ \A j \in DOMAIN inbox :
              j < i => inbox[j].type = "found" /\ inbox[j].id # inbox[i].id

\* A daemon that is down knows nothing: what it will find has not been posted.
DownEmpty == ~running => cctvs = <<>>

UInv == Distinct /\ Announced /\ DownEmpty

\* The list holds the same IDs at the same places.
SameIds ==
    DOMAIN cctvs' = DOMAIN cctvs /\ \A i \in DOMAIN cctvs : cctvs'[i].id = cctvs[i].id

-----------------------------------------------------------------------------
\* A camera that is changed in place keeps its ID.
LEMMA InPlace ==
    ASSUME cctvs \in Seq(Cctv), NEW id, Has(id), NEW c, c.id = id,
           cctvs' = [cctvs EXCEPT ![Pos(id)] = c]
    PROVE  SameIds
<1>1. Pos(id) \in 1..Len(cctvs) /\ cctvs[Pos(id)].id = id
  BY GetFinds
<1> QED
  BY <1>1 DEF SameIds

\* The same IDs are as distinct as before, and as many are known.
LEMMA SameIdsKeep ==
    ASSUME Distinct, SameIds
    PROVE  Distinct' /\ Known' = Known
BY DEF Distinct, SameIds, Known

\* Taking a message while nothing but its own camera becomes known.
LEMMA PopKeeps ==
    ASSUME Announced, inbox \in Seq(Msg), inbox # <<>>, inbox' = Tail(inbox),
           Known' \subseteq Known \cup {Head(inbox).id}
    PROVE  Announced'
<1>1. /\ DOMAIN inbox = 1..Len(inbox) /\ Len(inbox) \in Nat \ {0}
      /\ DOMAIN inbox' = 1..(Len(inbox) - 1)
      /\ \A i \in 1..(Len(inbox) - 1) : inbox'[i] = inbox[i+1]
      /\ Head(inbox) = inbox[1]
  BY HeadTailProperties
<1>2. SUFFICES ASSUME NEW i \in DOMAIN inbox', inbox'[i].type = "found"
               PROVE  /\ inbox'[i].id \notin Known'
                      /\ \A j \in DOMAIN inbox' :
                            j < i => /\ inbox'[j].type = "found"
                                     /\ inbox'[j].id # inbox'[i].id
  BY DEF Announced, Has
<1>3. i + 1 \in DOMAIN inbox /\ 1 \in DOMAIN inbox /\ 1 < i + 1
      /\ inbox'[i] = inbox[i+1]
  BY <1>1
<1>4. inbox[i+1].id \notin Known /\ inbox[1].id # inbox[i+1].id
  BY <1>2, <1>3 DEF Announced, Has
<1>5. ASSUME NEW j \in DOMAIN inbox', j < i
      PROVE  inbox'[j].type = "found" /\ inbox'[j].id # inbox'[i].id
  <2>1. j + 1 \in DOMAIN inbox /\ j + 1 < i + 1 /\ inbox'[j] = inbox[j+1]
    BY <1>1, <1>5
  <2> QED
    BY <1>2, <1>3, <2>1 DEF Announced
<1> QED
  BY <1>1, <1>3, <1>4, <1>5

\* Posting anything that is not found in the table.
LEMMA PostAfter ==
    ASSUME Announced, inbox \in Seq(Msg), NEW r \in Seq(Msg), inbox' = inbox \o r,
           \A i \in DOMAIN r : r[i].type # "found",
           Known' \subseteq Known
    PROVE  Announced'
<1>1. /\ DOMAIN inbox = 1..Len(inbox) /\ DOMAIN r = 1..Len(r)
      /\ DOMAIN inbox' = 1..(Len(inbox) + Len(r))
      /\ Len(inbox) \in Nat /\ Len(r) \in Nat
      /\ \A i \in 1..(Len(inbox) + Len(r)) :
            inbox'[i] = IF i <= Len(inbox) THEN inbox[i] ELSE r[i - Len(inbox)]
  BY ConcatProperties
<1>2. ASSUME NEW i \in DOMAIN inbox', inbox'[i].type = "found"
      PROVE  i \in DOMAIN inbox /\ inbox'[i] = inbox[i]
  <2>1. CASE i <= Len(inbox)
    BY <1>1, <2>1
  <2>2. CASE ~(i <= Len(inbox))
    <3>1. i - Len(inbox) \in DOMAIN r /\ inbox'[i] = r[i - Len(inbox)]
      BY <1>1, <2>2
    <3> QED
      BY <1>2, <3>1
  <2> QED
    BY <2>1, <2>2
<1>3. \A i \in DOMAIN inbox : i \in DOMAIN inbox' /\ inbox'[i] = inbox[i]
  BY <1>1
<1>4. SUFFICES ASSUME NEW i \in DOMAIN inbox', inbox'[i].type = "found"
               PROVE  /\ inbox'[i].id \notin Known'
                      /\ \A j \in DOMAIN inbox' :
                            j < i => /\ inbox'[j].type = "found"
                                     /\ inbox'[j].id # inbox'[i].id
  BY DEF Announced, Has
<1>5. i \in DOMAIN inbox /\ inbox'[i] = inbox[i]
  BY <1>2, <1>4
<1>6. inbox'[i].id \notin Known'
  BY <1>4, <1>5 DEF Announced, Has
<1>7. ASSUME NEW j \in DOMAIN inbox', j < i
      PROVE  inbox'[j].type = "found" /\ inbox'[j].id # inbox'[i].id
  <2>1. j \in DOMAIN inbox
    BY <1>1, <1>5, <1>7
  <2> QED
    BY <1>3, <1>4, <1>5, <1>7, <2>1 DEF Announced
<1> QED
  BY <1>6, <1>7

\* A session's request is posted.
LEMMA PostOne ==
    ASSUME TypeOK, UInv, NEW m \in Msg, m.type # "found", Post(m)
    PROVE  UInv'
<1>1. <<m>> \in Seq(Msg) /\ \A i \in DOMAIN <<m>> : <<m>>[i].type # "found"
  OBVIOUS
<1>2. inbox' = inbox \o <<m>>
  BY DEF Post, TypeOK
<1>3. Known' = Known /\ Distinct' /\ DownEmpty'
  BY DEF Post, Known, UInv, Distinct, DownEmpty
<1>4. Announced'
  BY <1>1, <1>2, <1>3, PostAfter DEF TypeOK, UInv
<1> QED
  BY <1>3, <1>4 DEF UInv

\* What leaves the registry and its queue alone leaves them in order.
LEMMA RegistryKept ==
    ASSUME UInv, UNCHANGED <<cctvs, inbox, running>>
    PROVE  UInv'
BY DEF UInv, Distinct, Announced, DownEmpty, Has, Known

-----------------------------------------------------------------------------
(* Steps that change the list.                                             *)

\* A new ID is appended.
LEMMA AppendNewCamera ==
    ASSUME cctvs \in Seq(Cctv), Distinct, NEW c \in Cctv, c.id \notin Known,
           cctvs' = Append(cctvs, c)
    PROVE  Distinct' /\ Known' \subseteq Known \cup {c.id}
<1>1. /\ DOMAIN cctvs = 1..Len(cctvs)
      /\ DOMAIN cctvs' = 1..(Len(cctvs) + 1)
      /\ \A i \in 1..Len(cctvs) : cctvs'[i] = cctvs[i]
      /\ cctvs'[Len(cctvs) + 1] = c
      /\ Len(cctvs) \in Nat
  BY AppendProperties
<1>2. \A i \in DOMAIN cctvs' : \/ i \in DOMAIN cctvs /\ cctvs'[i] = cctvs[i]
                               \/ i = Len(cctvs) + 1 /\ cctvs'[i] = c
  BY <1>1
<1>3. \A i \in DOMAIN cctvs : cctvs[i].id # c.id
  BY DEF Known
<1>4. Distinct'
  BY <1>2, <1>3 DEF Distinct
<1> QED
  BY <1>2, <1>4 DEF Known

\* A camera is taken out.
LEMMA RemoveOne ==
    ASSUME cctvs \in Seq(Cctv), Distinct, NEW id, Has(id),
           cctvs' = RemoveAt(cctvs, Pos(id))
    PROVE  Distinct' /\ Known' \subseteq Known
<1> DEFINE k == Pos(id)
<1>1. k \in 1..Len(cctvs)
  BY GetFinds
<1> HIDE DEF k
<1>2. DOMAIN cctvs' = 1..Len(cctvs') /\ DOMAIN cctvs = 1..Len(cctvs)
  <2>1. RemoveAt(cctvs, k) \in Seq(Cctv)
    BY <1>1, RemoveAtProperties
  <2> QED
    BY <2>1 DEF k
<1>3. ASSUME NEW i \in DOMAIN cctvs'
      PROVE  \E j \in DOMAIN cctvs : /\ j # k
                                     /\ j = IF i < k THEN i ELSE i + 1
                                     /\ cctvs'[i] = cctvs[j]
  BY <1>1, <1>2, RemoveAtOrigin DEF k
<1>4. Distinct'
  <2>1. SUFFICES ASSUME NEW i1 \in DOMAIN cctvs', NEW i2 \in DOMAIN cctvs',
                        cctvs'[i1].id = cctvs'[i2].id
                 PROVE  i1 = i2
    BY DEF Distinct
  <2>2. PICK j1 \in DOMAIN cctvs : /\ j1 # k /\ cctvs'[i1] = cctvs[j1]
                                   /\ j1 = IF i1 < k THEN i1 ELSE i1 + 1
    BY <1>3
  <2>3. PICK j2 \in DOMAIN cctvs : /\ j2 # k /\ cctvs'[i2] = cctvs[j2]
                                   /\ j2 = IF i2 < k THEN i2 ELSE i2 + 1
    BY <1>3
  <2>4. j1 = j2
    BY <2>1, <2>2, <2>3 DEF Distinct
  <2> QED
    BY <1>1, <1>2, <2>2, <2>3, <2>4
<1>5. Known' \subseteq Known
  BY <1>3 DEF Known
<1> QED
  BY <1>4, <1>5

\* FTM_CATCHB_onCreateCCTV asks the list first.
LEMMA OnCreateUnique ==
    ASSUME IInv, UInv, OnCreate
    PROVE  UInv'
<1> DEFINE m == Head(inbox)
           c == [id |-> m.id, ip |-> m.ip, hash |-> NoHash, stat |-> "unregistered"]
<1>1. inbox \in Seq(Msg) /\ inbox # <<>> /\ inbox' = Tail(inbox) /\ cctvs \in Seq(Cctv)
  BY DEF IInv, TypeOK, OnCreate, Idle, Pop
<1>2. DownEmpty'
  BY DEF DownEmpty, OnCreate, Idle, aside
<1>3. CASE cctvs' = Append(cctvs, c) /\ ~Has(m.id)
  <2>1. m \in Msg
    BY <1>1, HeadTailProperties
  <2>2. m.id \in Ids /\ m.ip \in Ips
    BY <2>1, MsgFields DEF OnCreate
  <2>3. c \in Cctv /\ c.id = m.id /\ c.id \notin Known
    BY <1>3, <2>2 DEF Cctv, Stats, Has
  <2>4. Distinct' /\ Known' \subseteq Known \cup {m.id}
    <3> HIDE DEF c
    <3> QED
      BY <1>1, <1>3, <2>3, AppendNewCamera DEF UInv
  <2>5. Announced'
    BY <1>1, <2>4, PopKeeps DEF UInv
  <2> QED
    BY <1>2, <2>4, <2>5 DEF UInv
<1>4. CASE UNCHANGED cctvs
  <2>1. Known' \subseteq Known \cup {m.id} /\ Distinct'
    BY <1>4 DEF Known, Distinct, UInv
  <2>2. Announced'
    BY <1>1, <2>1, PopKeeps DEF UInv
  <2> QED
    BY <1>2, <2>1, <2>2 DEF UInv
<1> QED
  BY <1>3, <1>4 DEF OnCreate

\* FTM_CATCHB_onFoundCCTVInDB need not ask: no camera has its ID yet.
LEMMA OnFoundUnique ==
    ASSUME IInv, UInv, OnFound
    PROVE  UInv'
<1> DEFINE m == Head(inbox)
           c == [id |-> m.id, ip |-> m.ip, hash |-> m.hash,
                 stat |-> IF m.hash = NoHash THEN "unregistered" ELSE "unused"]
<1>1. inbox \in Seq(Msg) /\ inbox # <<>> /\ inbox' = Tail(inbox) /\ cctvs \in Seq(Cctv)
  BY DEF IInv, TypeOK, OnFound, Idle, Pop
<1>2. DownEmpty'
  BY DEF DownEmpty, OnFound, Idle, aside
<1>3. m \in Msg /\ m = inbox[1] /\ 1 \in DOMAIN inbox /\ m.type = "found"
  BY <1>1, HeadTailProperties DEF OnFound
<1>4. m.id \notin Known
  BY <1>3 DEF UInv, Announced, Has
<1>5. m.id \in Ids /\ m.ip \in Ips /\ m.hash \in Hashes \cup {NoHash}
  BY <1>3, MsgFields
<1>6. c \in Cctv /\ c.id = m.id
  BY <1>5 DEF Cctv, Stats
<1>7. cctvs' = Append(cctvs, c)
  BY DEF OnFound
<1>8. Distinct' /\ Known' \subseteq Known \cup {m.id}
  <2> HIDE DEF c, m
  <2> QED
    BY <1>1, <1>4, <1>6, <1>7, AppendNewCamera DEF UInv
<1>9. Announced'
  BY <1>1, <1>8, PopKeeps DEF UInv
<1> QED
  BY <1>2, <1>8, <1>9 DEF UInv

\* Taking a message that leaves the IDs of the list alone.
LEMMA PopUnique ==
    ASSUME IInv, UInv, Idle, Pop, UNCHANGED running, SameIds
    PROVE  UInv'
<1>1. inbox \in Seq(Msg) /\ inbox # <<>> /\ inbox' = Tail(inbox)
  BY DEF IInv, TypeOK, Idle, Pop
<1>2. Distinct' /\ Known' = Known
  BY SameIdsKeep DEF UInv
<1>3. Announced'
  BY <1>1, <1>2, PopKeeps DEF UInv
<1>4. DownEmpty'
  BY DEF DownEmpty, Idle
<1> QED
  BY <1>2, <1>3, <1>4 DEF UInv

\* A camera that is changed by a handler of the main thread keeps its ID.
LEMMA ChangeSameIds ==
    ASSUME IInv, OnDelete \/ OnSetStat \/ OnRegister \/ OnSetIP
    PROVE  SameIds
<1> DEFINE m == Head(inbox)
<1>2. ASSUME UNCHANGED cctvs
      PROVE  SameIds
  BY <1>2 DEF SameIds
<1>3. ASSUME Has(m.id), NEW c, c.id = m.id, cctvs' = [cctvs EXCEPT ![Pos(m.id)] = c]
      PROVE  SameIds
  <2> HIDE DEF m
  <2> QED
    BY <1>3, InPlace DEF IInv, TypeOK
<1>4. ASSUME Has(m.id)
      PROVE  Get(m.id) \in Cctv /\ Get(m.id).id = m.id
             /\ Get(m.id) = cctvs[Pos(m.id)] /\ Pos(m.id) \in 1..Len(cctvs)
  BY <1>4, GetFinds DEF IInv, TypeOK
<1>5. CASE OnDelete
  BY <1>2, <1>5 DEF OnDelete
<1>6. CASE OnSetStat
  <2>1. CASE ~Has(m.id)
    BY <1>2, <1>6, <2>1 DEF OnSetStat
  <2>2. CASE Has(m.id)
    <3> DEFINE changed == [Get(m.id) EXCEPT !.stat = m.stat,
                               !.hash = IF m.stat = "unregistered" THEN NoHash ELSE @]
    <3>1. cctvs' = [cctvs EXCEPT ![Pos(m.id)] = changed]
      BY <1>6, <2>2 DEF OnSetStat
    <3>2. changed.id = m.id
      BY <1>4, <2>2 DEF Cctv
    <3> HIDE DEF changed
    <3> QED
      BY <1>3, <2>2, <3>1, <3>2
  <2> QED
    BY <2>1, <2>2
<1>7. CASE OnRegister
  <2>1. CASE ~Has(m.id)
    BY <1>2, <1>7, <2>1 DEF OnRegister
  <2>2. CASE Has(m.id)
    <3> DEFINE changed == [Get(m.id) EXCEPT !.hash = m.hash]
    <3>1. cctvs' = [cctvs EXCEPT ![Pos(m.id)] = changed]
      BY <1>4, <1>7, <2>2 DEF OnRegister
    <3>2. changed.id = m.id
      BY <1>4, <2>2 DEF Cctv
    <3> HIDE DEF changed
    <3> QED
      BY <1>3, <2>2, <3>1, <3>2
  <2> QED
    BY <2>1, <2>2
<1>8. CASE OnSetIP
  <2>1. CASE ~Has(m.id)
    BY <1>2, <1>8, <2>1 DEF OnSetIP
  <2>2. CASE Has(m.id)
    <3> DEFINE changed == [Get(m.id) EXCEPT !.ip = m.ip]
    <3>1. cctvs' = [cctvs EXCEPT ![Pos(m.id)] = changed]
      BY <1>4, <1>8, <2>2 DEF OnSetIP
    <3>2. changed.id = m.id
      BY <1>4, <2>2 DEF Cctv
    <3> HIDE DEF changed
    <3> QED
      BY <1>3, <2>2, <3>1, <3>2
  <2> QED
    BY <2>1, <2>2
<1> QED
  BY <1>5, <1>6, <1>7, <1>8

\* And so the list stays in order.
LEMMA OnChangeUnique ==
    ASSUME IInv, UInv, OnDelete \/ OnSetStat \/ OnRegister \/ OnSetIP
    PROVE  UInv'
<1>1. Idle /\ Pop /\ UNCHANGED running
  BY DEF OnDelete, OnSetStat, OnRegister, OnSetIP, aside
<1> QED
  BY <1>1, ChangeSameIds, PopUnique

\* FTM_CATCHB_onDeleteCCTV takes a camera out.
LEMMA UnlistUnique ==
    ASSUME IInv, UInv, Unlist
    PROVE  UInv'
<1>1. cctvs \in Seq(Cctv) /\ Has(main.id) /\ cctvs' = RemoveAt(cctvs, Pos(main.id))
  BY DEF IInv, TypeOK, MainKnown, Unlist
<1>2. Distinct' /\ Known' \subseteq Known
  BY <1>1, RemoveOne DEF UInv
<1>3. Announced'
  BY <1>2 DEF UInv, Announced, Has, Unlist
<1>4. DownEmpty'
  BY DEF DownEmpty, Unlist, aside
<1> QED
  BY <1>2, <1>3, <1>4 DEF UInv

\* FTM_ANALYZER_process posts reports only.
LEMMA ProbeEndUnique ==
    ASSUME IInv, UInv, ProbeEnd
    PROVE  UInv'
<1> DEFINE report == Report(Get(probe.id))
<1>1. probe # None /\ Has(probe.id) /\ Scanned
  BY DEF IInv, ProbedExists, ProbeEnd, Scanned
<1>2. Get(probe.id) \in Cctv
  BY <1>1, GetFinds DEF IInv, TypeOK
<1>3. report \in Seq(Msg)
  BY <1>1, <1>2, ReportType DEF IInv
<1>4. \A i \in DOMAIN report : report[i].type # "found"
  BY DEF Report
<1>5. Distinct' /\ DownEmpty' /\ Known' = Known
  BY DEF ProbeEnd, UInv, Distinct, DownEmpty, Known, aside
<1>6. inbox' = inbox \o report /\ inbox \in Seq(Msg)
  BY DEF ProbeEnd, IInv, TypeOK
<1> HIDE DEF report
<1>7. Announced'
  BY <1>3, <1>4, <1>5, <1>6, PostAfter DEF UInv
<1> QED
  BY <1>5, <1>7 DEF UInv

\* FTM_CATCHB_initProcess: the table has a row for an ID once.
LEMMA BootUnique ==
    ASSUME IInv, UInv, Boot
    PROVE  UInv'
<1> DEFINE D == 1..Cardinality(DOMAIN db)
<1>1. PICK s \in SetToSeqs(DOMAIN db) : inbox' = [i \in DOMAIN s |-> FoundMsg(s[i])]
  BY DEF Boot
<1>2. /\ s \in [D -> DOMAIN db]
      /\ \A i, j \in D : i # j => s[i] # s[j]
  BY DEF SetToSeqs
<1>3. \A id \in DOMAIN db : FoundMsg(id).type = "found" /\ FoundMsg(id).id = id
  BY DEF FoundMsg
<1> HIDE DEF D
<1>4. /\ DOMAIN inbox' = D
      /\ \A i \in D : inbox'[i].type = "found" /\ inbox'[i].id = s[i]
  BY <1>1, <1>2, <1>3
<1>5. cctvs = <<>> /\ cctvs' = cctvs /\ running'
  BY DEF Boot, UInv, DownEmpty
<1>6. Known' = {}
  BY <1>5 DEF Known
<1>7. Announced'
  <2>1. \A i, j \in D : j < i => j # i
    BY DEF D
  <2> QED
    BY <1>2, <1>4, <1>6, <2>1 DEF Announced, Has
<1> QED
  BY <1>5, <1>7 DEF UInv, Distinct, DownEmpty

\* The end of the process leaves nothing behind.
LEMMA HaltUnique ==
    ASSUME Halt
    PROVE  UInv'
<1>1. cctvs' = <<>> /\ inbox' = <<>>
  BY DEF Halt
<1> QED
  BY <1>1 DEF UInv, Distinct, Announced, DownEmpty

-----------------------------------------------------------------------------
(* The theorem.                                                            *)

\* Every handler keeps IDs distinct and announcements ahead.
LEMMA NextUnique ==
    ASSUME IInv, UInv, [Next]_vars
    PROVE  UInv'
<1>1. CASE Boot \/ Halt
  BY <1>1, BootUnique, HaltUnique
<1>2. CASE MainStep
  BY <1>2, OnCreateUnique, OnFoundUnique, OnChangeUnique, UnlistUnique DEF MainStep
<1>3. CASE Attach \/ Detach
  BY <1>3, RegistryKept DEF Attach, Detach, aside
<1>4. CASE AnalyzerStep
  <2>1. CASE ProbeBegin \/ Scan
    BY <2>1, RegistryKept DEF ProbeBegin, Scan, aside
  <2> QED
    BY <1>4, <2>1, ProbeEndUnique DEF AnalyzerStep
<1>5. CASE DetectorStep
  BY <1>5, RegistryKept
  DEF DetectorStep, OnSetControl, AddEntry, ApplyDeny, ApplyAllow, RemoveEntry, core
<1>6. CASE Request
  <2>1. CASE \E id \in Ids, ip \in Ips : RequestAdd(id, ip) \/ RequestSetIP(id, ip)
    <3>1. PICK id \in Ids, ip \in Ips : RequestAdd(id, ip) \/ RequestSetIP(id, ip)
      BY <2>1
    <3>2. /\ [type |-> "create", id |-> id, ip |-> ip] \in Msg
          /\ [type |-> "setIP", id |-> id, ip |-> ip] \in Msg
      BY DEF Msg
    <3> QED
      BY <3>1, <3>2, PostOne DEF RequestAdd, RequestSetIP, IInv
  <2>2. CASE \E id \in Ids : RequestDel(id)
    <3>1. PICK id \in Ids : RequestDel(id)
      BY <2>2
    <3>2. [type |-> "delete", id |-> id] \in Msg
      BY DEF Msg
    <3> QED
      BY <3>1, <3>2, PostOne DEF RequestDel, IInv
  <2>3. CASE \E id \in Ids : RequestReset(id)
    BY <2>3, RegistryKept DEF RequestReset, core
  <2>4. CASE \E id \in Ids, policy \in {"allow", "deny"} : RequestPolicy(id, policy)
    BY <2>4, RegistryKept DEF RequestPolicy, core
  <2> QED
    BY <1>6, <2>1, <2>2, <2>3, <2>4 DEF Request
<1>7. CASE SessionStep
  <2>1. CASE SessionApply
    BY <2>1, RegistryKept DEF SessionApply, core
  <2>2. CASE SendReset
    <3>1. session \in Session
      BY <2>2 DEF IInv, TypeOK, SendReset
    <3>2. [type |-> "setStat", id |-> session.id, stat |-> "unregistered"] \in Msg
      BY <3>1 DEF Session, Msg, Stats
    <3> QED
      BY <2>2, <3>2, PostOne DEF SendReset, IInv
  <2> QED
    BY <1>7, <2>1, <2>2 DEF SessionStep
<1>8. CASE \E ip \in Ips : Device(ip)
  BY <1>8, RegistryKept DEF Device, memory
<1>9. CASE UNCHANGED vars
  BY <1>9, RegistryKept DEF vars, memory
<1> QED
  BY <1>1, <1>2, <1>3, <1>4, <1>5, <1>6, <1>7, <1>8, <1>9 DEF Next

\* No two cameras ever share an ID, although FTM_CATCHB_onFoundCCTVInDB does
\* not look: what FTM_CATCHB_initProcess posts is ahead of whatever an operator
\* can add, through any restart and any failure of the database.
THEOREM UniqueIdsCorrect == Spec => []UniqueIds
<1>1. Init => UInv
  BY DEF Init, UInv, Distinct, Announced, DownEmpty
<1>2. IInv /\ UInv /\ [Next]_vars => UInv'
  BY NextUnique
<1>3. UInv => UniqueIds
  BY DEF UInv, Distinct, Announced, UniqueIds
<1> QED
  BY <1>1, <1>2, <1>3, Invariance, PTL DEF Spec

-----------------------------------------------------------------------------
(* The access controls.                                                    *)


\* The switch's scripts report their failures, and operators set no policies of
\* their own beside the detector's.
Undisturbed == "switchSilent" \notin Faults /\ "policy" \notin Ops

\* An address has a denial in the list.
Listed(ip) == \E i \in DOMAIN acl : acl[i] = [ip |-> ip, policy |-> "deny"]

\* addAC has its entry before it blocks, deleteAC has freed before it removes,
\* and sessions only allow.
LInv ==
    /\ \A ip \in rules : Listed(ip)
    /\ switching # None /\ switching.policy = "deny" /\ switching.step = "apply"
          => Listed(switching.ip)
    /\ switching # None /\ switching.step = "remove" => switching.ip \notin rules
    /\ session # None => session.policy = "allow"

-----------------------------------------------------------------------------
\* What leaves the list, the switch and the work on it alone.
LEMMA SwitchKept ==
    ASSUME LInv, UNCHANGED <<switching, acl, rules>>,
           UNCHANGED session \/ session' = None
    PROVE  LInv'
BY DEF LInv, Listed

\* An entry that is appended hides no denial.
LEMMA AppendListed ==
    ASSUME acl \in Seq(Control), NEW e \in Control, acl' = Append(acl, e)
    PROVE  /\ \A ip : Listed(ip) => Listed(ip)'
           /\ Listed(e.ip)' \/ e.policy # "deny"
<1>1. /\ DOMAIN acl = 1..Len(acl)
      /\ DOMAIN acl' = 1..(Len(acl) + 1)
      /\ \A i \in 1..Len(acl) : acl'[i] = acl[i]
      /\ acl'[Len(acl) + 1] = e
      /\ Len(acl) + 1 \in 1..(Len(acl) + 1)
  BY AppendProperties
<1>2. \A i \in DOMAIN acl : i \in DOMAIN acl' /\ acl'[i] = acl[i]
  BY <1>1
<1>3. ASSUME e.policy = "deny"
      PROVE  e = [ip |-> e.ip, policy |-> "deny"]
  BY <1>3 DEF Control
<1> QED
  BY <1>1, <1>2, <1>3 DEF Listed

\* Taking out the entry of one address leaves the denials of the others.
LEMMA RemoveListed ==
    ASSUME acl \in Seq(Control), NEW k \in 1..Len(acl), acl' = RemoveAt(acl, k),
           NEW ip, ip # acl[k].ip, Listed(ip)
    PROVE  Listed(ip)'
<1>1. PICK j \in DOMAIN acl : acl[j] = [ip |-> ip, policy |-> "deny"]
  BY DEF Listed
<1>2. j \in 1..Len(acl) /\ j # k
  BY <1>1
<1>3. PICK i \in 1..Len(acl') : acl'[i] = acl[j]
  BY <1>2, RemoveAtKeeps
<1>4. DOMAIN acl' = 1..Len(acl')
  <2>1. RemoveAt(acl, k) \in Seq(Control)
    BY RemoveAtProperties
  <2> QED
    BY <2>1
<1> QED
  BY <1>1, <1>3, <1>4 DEF Listed

-----------------------------------------------------------------------------
(* Steps of the detector and of the sessions.                              *)

\* FTM_DETECTOR_onSetControl starts an addition or a removal.
LEMMA OnSetControlListed ==
    ASSUME LInv, OnSetControl
    PROVE  LInv'
<1>1. UNCHANGED <<acl, rules, session>>
  BY DEF OnSetControl
<1>2. \/ UNCHANGED switching
      \/ switching'.step = "add"
      \/ switching'.step = "apply" /\ switching'.policy = "allow"
  BY DEF OnSetControl
<1> QED
  BY <1>1, <1>2 DEF LInv, Listed

\* FTM_SWITCH_addAC: the entry.
LEMMA AddEntryListed ==
    ASSUME IInv, LInv, AddEntry
    PROVE  LInv'
<1>1. switching \in [step : {"add", "apply"}, ip : Ips, policy : {"deny"}]
  BY DEF IInv, TypeOK, AddEntry, Switching
<1>2. PICK e \in Control : e = [ip |-> switching.ip, policy |-> "deny"]
  BY <1>1 DEF Control
<1>3. acl' = Append(acl, e) /\ acl \in Seq(Control)
  BY <1>1, <1>2 DEF AddEntry, IInv, TypeOK
<1>4. (\A ip : Listed(ip) => Listed(ip)') /\ Listed(e.ip)'
  BY <1>2, <1>3, AppendListed
<1>5. switching'.step = "apply" /\ switching'.ip = e.ip /\ UNCHANGED <<rules, session>>
  BY <1>1, <1>2 DEF AddEntry
<1> QED
  BY <1>4, <1>5 DEF LInv, Listed

\* FTM_SWITCH_addAC: the switch.
LEMMA ApplyDenyListed ==
    ASSUME LInv, ApplyDeny
    PROVE  LInv'
<1>1. /\ rules' \subseteq rules \cup {switching.ip}
      /\ switching' = None /\ UNCHANGED <<acl, session>>
  BY DEF ApplyDeny, SetAC
<1>2. Listed(switching.ip)
  BY DEF LInv, ApplyDeny
<1> QED
  BY <1>1, <1>2 DEF LInv, Listed

\* FTM_SWITCH_deleteAC: the switch.
LEMMA ApplyAllowListed ==
    ASSUME Undisturbed, IInv, LInv, ApplyAllow
    PROVE  LInv'
<1>1. switching \in [step : {"apply", "remove"}, ip : Ips, policy : {"allow"}]
  BY DEF IInv, TypeOK, ApplyAllow, Switching
<1>2. UNCHANGED <<acl, session>>
  BY DEF ApplyAllow
<1>3. \/ switching' = None /\ UNCHANGED rules
      \/ /\ switching' = [switching EXCEPT !.step = "remove"]
         /\ rules' = rules \ {switching.ip}
  BY DEF ApplyAllow, SetAC, Undisturbed
<1>4. CASE switching' = None /\ UNCHANGED rules
  BY <1>2, <1>4 DEF LInv, Listed
<1>5. CASE /\ switching' = [switching EXCEPT !.step = "remove"]
           /\ rules' = rules \ {switching.ip}
  <2>1. switching'.ip = switching.ip /\ switching'.policy = "allow"
    BY <1>1, <1>5
  <2> QED
    BY <1>2, <1>5, <2>1 DEF LInv, Listed
<1> QED
  BY <1>3, <1>4, <1>5

\* FTM_SWITCH_deleteAC: the entry.
LEMMA RemoveEntryListed ==
    ASSUME IInv, LInv, RemoveEntry
    PROVE  LInv'
<1> DEFINE k == FirstAc(switching.ip)
<1>1. /\ switching' = None /\ acl' = RemoveAt(acl, k) /\ UNCHANGED <<rules, session>>
      /\ switching # None /\ switching.step = "remove" /\ acl \in Seq(Control)
  BY DEF RemoveEntry, IInv, TypeOK
<1>2. k \in 1..Len(acl) /\ acl[k].ip = switching.ip
  <2>1. switching.policy = "allow"
    BY <1>1 DEF IInv, TypeOK, Switching
  <2>2. AcPositions(switching.ip) # {} /\ AcPositions(switching.ip) \subseteq Nat
    BY <1>1, <2>1 DEF IInv, EntryInUse, AcPositions
  <2>3. k \in AcPositions(switching.ip)
    BY <2>2, LeastExists DEF FirstAc
  <2> QED
    BY <1>1, <2>3 DEF AcPositions
<1>3. switching.ip \notin rules
  BY <1>1 DEF LInv
<1>4. ASSUME NEW ip \in rules
      PROVE  Listed(ip)'
  <2>1. ip # acl[k].ip /\ Listed(ip)
    BY <1>2, <1>3 DEF LInv
  <2> HIDE DEF k
  <2> QED
    BY <1>1, <1>2, <2>1, RemoveListed
<1> QED
  BY <1>1, <1>4 DEF LInv

\* FTM_SERVER_CCTV_reset only ever adds an entry that allows.
LEMMA RequestResetListed ==
    ASSUME IInv, LInv, NEW id \in Ids, RequestReset(id)
    PROVE  LInv'
<1>1. PICK e \in Control : e = [ip |-> id, policy |-> "allow"]
  BY DEF Control
<1>2. \A ip : Listed(ip) => Listed(ip)'
  <2>1. acl' = acl \/ acl' = Append(acl, e)
    BY <1>1 DEF RequestReset
  <2>2. CASE acl' = acl
    BY <2>2 DEF Listed
  <2>3. CASE acl' = Append(acl, e)
    BY <1>1, <2>3, AppendListed DEF IInv, TypeOK
  <2> QED
    BY <2>1, <2>2, <2>3
<1>3. session'.policy = "allow" /\ UNCHANGED <<switching, rules>>
  BY DEF RequestReset
<1> QED
  BY <1>2, <1>3 DEF LInv, Listed

\* The session's script only frees.
LEMMA SessionApplyListed ==
    ASSUME IInv, LInv, SessionApply
    PROVE  LInv'
<1>1. session \in Session /\ session.policy = "allow"
  BY DEF IInv, TypeOK, LInv, SessionApply
<1>2. rules' \subseteq rules /\ UNCHANGED <<switching, acl>>
  BY <1>1 DEF SessionApply, SetAC
<1>3. session' # None => session'.policy = "allow"
  <2>1. CASE session.op = "reset"
    <3>1. session \in [op : {"reset"}, step : {"apply", "post"}, id : Ids, ip : Ids,
                       policy : {"allow"}]
      BY <1>1, <2>1 DEF Session
    <3> QED
      BY <2>1, <3>1 DEF SessionApply
  <2>2. CASE session.op # "reset"
    BY <2>2 DEF SessionApply
  <2> QED
    BY <2>1, <2>2
<1> QED
  BY <1>2, <1>3 DEF LInv, Listed

-----------------------------------------------------------------------------
(* The theorem.                                                            *)

\* Every step but the end of the process keeps the list ahead of the switch.
LEMMA NextListed ==
    ASSUME Undisturbed, IInv, LInv, [Next]_vars
    PROVE  LInv' \/ halts' # 0
<1>1. CASE Boot
  BY <1>1, SwitchKept DEF Boot
<1>2. CASE Halt
  BY <1>2 DEF Halt, IInv, TypeOK
<1>3. CASE MainStep \/ Attach \/ Detach
  BY <1>3, SwitchKept
  DEF MainStep, OnCreate, OnFound, OnDelete, Unlist, OnSetStat, OnRegister, OnSetIP,
      Attach, Detach, aside
<1>4. CASE AnalyzerStep
  BY <1>4, SwitchKept DEF AnalyzerStep, ProbeBegin, Scan, ProbeEnd, aside
<1>5. CASE DetectorStep
  BY <1>5, OnSetControlListed, AddEntryListed, ApplyDenyListed, ApplyAllowListed,
     RemoveEntryListed DEF DetectorStep
<1>6. CASE Request
  <2>1. CASE \E id \in Ids, ip \in Ips : RequestAdd(id, ip) \/ RequestSetIP(id, ip)
    BY <2>1, SwitchKept DEF RequestAdd, RequestSetIP, Post
  <2>2. CASE \E id \in Ids : RequestDel(id)
    BY <2>2, SwitchKept DEF RequestDel, Post
  <2>3. CASE \E id \in Ids : RequestReset(id)
    BY <2>3, RequestResetListed
  <2>4. CASE \E id \in Ids, policy \in {"allow", "deny"} : RequestPolicy(id, policy)
    BY <2>4 DEF RequestPolicy, Undisturbed
  <2> QED
    BY <1>6, <2>1, <2>2, <2>3, <2>4 DEF Request
<1>7. CASE SessionStep
  <2>1. CASE SendReset
    BY <2>1, SwitchKept DEF SendReset, Post
  <2> QED
    BY <1>7, <2>1, SessionApplyListed DEF SessionStep
<1>8. CASE \E ip \in Ips : Device(ip)
  BY <1>8, SwitchKept DEF Device, memory
<1>9. CASE UNCHANGED vars
  BY <1>9, SwitchKept DEF vars, memory
<1> QED
  BY <1>1, <1>3, <1>4, <1>5, <1>6, <1>7, <1>8, <1>9, <1>2 DEF Next

\* A process that has ended once stays a process that has ended.
LEMMA HaltsStay ==
    ASSUME IInv, [Next]_vars, halts # 0
    PROVE  halts' # 0
<1>1. UNCHANGED halts \/ Halt
  BY DEF Next, Boot, MainStep, OnCreate, OnFound, OnDelete, Unlist, OnSetStat, OnRegister,
     OnSetIP, Attach, Detach, AnalyzerStep, ProbeBegin, Scan, ProbeEnd, DetectorStep,
     OnSetControl, AddEntry, ApplyDeny, ApplyAllow, RemoveEntry, Request, RequestAdd,
     RequestSetIP, RequestDel, RequestReset, RequestPolicy, Post, SessionStep, SessionApply,
     SendReset, Device, aside, core, vars
<1> QED
  BY <1>1 DEF Halt, IInv, TypeOK

\* At every moment of FTM_SWITCH_addAC and FTM_SWITCH_deleteAC, whatever the
\* switch blocks has its denial in the list, so that a later order to allow
\* finds what to undo: until the process ends, as long as the scripts report their
\* failures and no operator sets a policy by hand.
THEOREM BlocksAreListedCorrect ==
    ASSUME Undisturbed
    PROVE  Spec => []BlocksAreListed
<1>1. Init => LInv
  BY DEF Init, LInv
<1>2. IInv /\ (halts = 0 => LInv) /\ [Next]_vars => (halts = 0 => LInv)'
  BY NextListed, HaltsStay
<1>3. (halts = 0 => LInv) => BlocksAreListed
  BY DEF LInv, Listed, BlocksAreListed
<1> QED
  BY <1>1, <1>2, <1>3, Invariance, PTL DEF Spec

-----------------------------------------------------------------------------
(* The registry, the queue and the table as sets.                          *)

Cams == ToSet(cctvs)
FoundMsgs == {m \in ToSet(inbox) : m.type = "found"}
FoundIds == {m.id : m \in FoundMsgs}

\* The table's row agrees with the camera in memory.
Mirrored(c) == db[c.id].ip = c.ip /\ (c.hash # NoHash => db[c.id].hash = c.hash)

\* Each camera, known or announced, has a row ...
Stored == Known \cup FoundIds \subseteq DOMAIN db

\* ... which says the same, and there are no other rows.
Mirror ==
    /\ running => DOMAIN db \subseteq Known \cup FoundIds
    /\ \A c \in Cams : Mirrored(c)
    /\ \A m \in FoundMsgs : m = FoundMsg(m.id)

DInv == Stored /\ ("db" \notin Faults => Mirror)

\* The IDs of the list are those of its cameras.
LEMMA KnownIds == Known = {c.id : c \in Cams} /\ Known' = {c.id : c \in Cams'}
BY DEF Known, Cams, ToSet

\* No announced camera is known.
LEMMA AnnouncedUnknown ==
    ASSUME Announced
    PROVE  \A m \in FoundMsgs : m.id \notin Known
BY DEF Announced, FoundMsgs, ToSet, Has

\* A message is taken: if it announces a camera, that one is announced no more.
LEMMA PopFound ==
    ASSUME inbox \in Seq(Msg), inbox # <<>>, inbox' = Tail(inbox), Announced
    PROVE  /\ FoundMsgs' \subseteq FoundMsgs /\ FoundIds' \subseteq FoundIds
           /\ Head(inbox).type # "found" => FoundMsgs' = FoundMsgs /\ FoundIds' = FoundIds
           /\ Head(inbox).type = "found" =>
                 /\ Head(inbox) \in FoundMsgs
                 /\ FoundIds = FoundIds' \cup {Head(inbox).id}
<1>1. ToSet(inbox) = ToSet(inbox') \cup {Head(inbox)}
  BY TailSet
<1>2. FoundMsgs' \subseteq FoundMsgs
  BY <1>1 DEF FoundMsgs
<1>3. CASE Head(inbox).type # "found"
  BY <1>1, <1>2, <1>3 DEF FoundMsgs, FoundIds
<1>4. CASE Head(inbox).type = "found"
  BY <1>1, <1>2, <1>4 DEF FoundMsgs, FoundIds
<1> QED
  BY <1>3, <1>4

\* What is posted after the start announces nothing.
LEMMA PostFound ==
    ASSUME inbox \in Seq(Msg), NEW r \in Seq(Msg), inbox' = inbox \o r,
           \A i \in DOMAIN r : r[i].type # "found"
    PROVE  FoundMsgs' = FoundMsgs /\ FoundIds' = FoundIds
<1>1. ToSet(inbox') = ToSet(inbox) \cup ToSet(r)
  BY ConcatSet
<1>2. \A m \in ToSet(r) : m.type # "found"
  BY DEF ToSet
<1>3. FoundMsgs' = FoundMsgs
  BY <1>1, <1>2 DEF FoundMsgs
<1> QED
  BY <1>3 DEF FoundIds

\* What leaves the registry, the announcements and the table alone.
LEMMA RowsKept ==
    ASSUME DInv, Cams' = Cams, FoundMsgs' = FoundMsgs, UNCHANGED db,
           running' => running
    PROVE  DInv'
<1>1. Known' = Known /\ FoundIds' = FoundIds
  BY KnownIds DEF FoundIds
<1> QED
  BY <1>1 DEF DInv, Stored, Mirror, Mirrored, FoundMsg

\* A session's request is posted.
LEMMA PostRows ==
    ASSUME IInv, DInv, NEW m \in Msg, m.type # "found", Post(m)
    PROVE  DInv'
<1>1. <<m>> \in Seq(Msg) /\ \A i \in DOMAIN <<m>> : <<m>>[i].type # "found"
  OBVIOUS
<1>2. inbox' = inbox \o <<m>> /\ inbox \in Seq(Msg)
  BY DEF Post, IInv, TypeOK
<1>3. FoundMsgs' = FoundMsgs
  BY <1>1, <1>2, PostFound
<1> QED
  BY <1>3, RowsKept DEF Post, Cams

-----------------------------------------------------------------------------
(* Handlers and the table.                                                 *)

\* A camera that is changed in place: it alone is another.
LEMMA ChangeCams ==
    ASSUME cctvs \in Seq(Cctv), Distinct, NEW id, Has(id), NEW c \in Cctv, c.id = id,
           cctvs' = [cctvs EXCEPT ![Pos(id)] = c]
    PROVE  /\ \A d \in Cams' : d = c \/ (d \in Cams /\ d.id # id)
           /\ Known' = Known
<1>1. Pos(id) \in 1..Len(cctvs) /\ cctvs[Pos(id)].id = id
  BY GetFinds
<1>2. /\ DOMAIN cctvs' = 1..Len(cctvs) /\ DOMAIN cctvs = 1..Len(cctvs)
      /\ \A j \in 1..Len(cctvs) : cctvs'[j] = IF j = Pos(id) THEN c ELSE cctvs[j]
  BY <1>1, ExceptSeq
<1>3. \A d \in Cams' : d = c \/ (d \in Cams /\ d.id # id)
  BY <1>1, <1>2 DEF Cams, ToSet, Distinct
<1>4. SameIds
  BY InPlace
<1> QED
  BY <1>3, <1>4, SameIdsKeep

\* A camera is taken out: it alone is gone.
LEMMA RemoveCams ==
    ASSUME cctvs \in Seq(Cctv), Distinct, NEW id, Has(id),
           cctvs' = RemoveAt(cctvs, Pos(id))
    PROVE  /\ \A d \in Cams' : d \in Cams /\ d.id # id
           /\ Known' = Known \ {id}
<1>1. Pos(id) \in 1..Len(cctvs) /\ cctvs[Pos(id)].id = id
  BY GetFinds
<1>2. DOMAIN cctvs' = 1..Len(cctvs') /\ DOMAIN cctvs = 1..Len(cctvs)
  <2>1. RemoveAt(cctvs, Pos(id)) \in Seq(Cctv)
    BY <1>1, RemoveAtProperties
  <2> QED
    BY <2>1
<1>3. ASSUME NEW i \in DOMAIN cctvs'
      PROVE  \E j \in DOMAIN cctvs : j # Pos(id) /\ cctvs'[i] = cctvs[j]
  BY <1>1, <1>2, RemoveAtOrigin
<1>4. \A d \in Cams' : d \in Cams /\ d.id # id
  BY <1>1, <1>2, <1>3 DEF Cams, ToSet, Distinct
<1>5. \A x \in Known : x # id => x \in Known'
  BY RemoveCamera
<1> QED
  BY <1>4, <1>5, KnownIds

\* FTM_CATCHB_onCreateCCTV: camera and row come together.
LEMMA OnCreateRows ==
    ASSUME IInv, UInv, DInv, OnCreate
    PROVE  DInv'
<1> DEFINE m == Head(inbox)
           c == [id |-> m.id, ip |-> m.ip, hash |-> NoHash, stat |-> "unregistered"]
<1>1. inbox \in Seq(Msg) /\ inbox # <<>> /\ inbox' = Tail(inbox) /\ m.type = "create"
      /\ cctvs \in Seq(Cctv) /\ UNCHANGED running
  BY DEF IInv, TypeOK, OnCreate, Idle, Pop, aside
<1>2. FoundMsgs' = FoundMsgs /\ FoundIds' = FoundIds
  BY <1>1, PopFound DEF UInv
<1>3. CASE /\ ~Has(m.id) /\ m.id \notin DOMAIN db /\ cctvs' = Append(cctvs, c)
           /\ db' = [i \in DOMAIN db \cup {m.id} |->
                       IF i = m.id THEN [ip |-> m.ip, hash |-> NoHash] ELSE db[i]]
  <2>1. m \in Msg
    BY <1>1, PopType
  <2>2. c \in Cctv /\ c.id = m.id /\ c.ip = m.ip /\ c.hash = NoHash
    BY <1>1, <2>1, MsgFields DEF Cctv, Stats
  <2>3. Cams' = Cams \cup {c}
    <3> HIDE DEF c
    <3> QED
      BY <1>1, <1>3, <2>2, AppendSet DEF Cams
  <2>4. Known' = Known \cup {m.id}
    BY <2>2, <2>3, KnownIds
  <2>5. DOMAIN db' = DOMAIN db \cup {m.id} /\ \A i \in DOMAIN db : db'[i] = db[i]
    BY <1>3
  <2>6. Stored'
    BY <1>2, <2>4, <2>5 DEF DInv, Stored
  <2>7. ASSUME Mirror
        PROVE  Mirror'
    <3>1. \A d \in Cams : d.id \in DOMAIN db
      BY KnownIds DEF DInv, Stored
    <3>2. \A d \in Cams' : Mirrored(d)'
      <4>1. db'[m.id].ip = m.ip
        BY <1>3
      <4> HIDE DEF c
      <4> QED
        BY <2>2, <2>3, <2>5, <2>7, <3>1, <4>1 DEF Mirror, Mirrored
    <3>3. \A k \in FoundMsgs' : k = FoundMsg(k.id)'
      <4>1. \A k \in FoundMsgs : k.id \in DOMAIN db
        BY DEF DInv, Stored, FoundIds
      <4> QED
        BY <1>2, <2>5, <2>7, <4>1 DEF Mirror, FoundMsg
    <3>4. running' => DOMAIN db' \subseteq Known' \cup FoundIds'
      BY <1>1, <1>2, <2>4, <2>5, <2>7 DEF Mirror
    <3> QED
      BY <3>2, <3>3, <3>4 DEF Mirror
  <2> QED
    BY <2>6, <2>7 DEF DInv
<1>4. CASE UNCHANGED <<cctvs, db>>
  BY <1>1, <1>2, <1>4, RowsKept DEF Cams
<1> QED
  BY <1>3, <1>4 DEF OnCreate

\* FTM_CATCHB_onFoundCCTVInDB: the camera is what its row says.
LEMMA OnFoundRows ==
    ASSUME IInv, UInv, DInv, OnFound
    PROVE  DInv'
<1> DEFINE m == Head(inbox)
           c == [id |-> m.id, ip |-> m.ip, hash |-> m.hash,
                 stat |-> IF m.hash = NoHash THEN "unregistered" ELSE "unused"]
<1>1. inbox \in Seq(Msg) /\ inbox # <<>> /\ inbox' = Tail(inbox) /\ m.type = "found"
      /\ cctvs \in Seq(Cctv) /\ UNCHANGED <<running, db>> /\ cctvs' = Append(cctvs, c)
  BY DEF IInv, TypeOK, OnFound, Idle, Pop, aside
<1>2. /\ FoundMsgs' \subseteq FoundMsgs /\ m \in FoundMsgs
      /\ FoundIds = FoundIds' \cup {m.id}
  BY <1>1, PopFound DEF UInv
<1>3. m \in Msg
  BY <1>1, PopType
<1>4. c \in Cctv /\ c.id = m.id /\ c.ip = m.ip /\ c.hash = m.hash
  BY <1>1, <1>3, MsgFields DEF Cctv, Stats
<1>5. Cams' = Cams \cup {c}
  <2> HIDE DEF c
  <2> QED
    BY <1>1, <1>4, AppendSet DEF Cams
<1>6. Known' = Known \cup {m.id}
  BY <1>4, <1>5, KnownIds
<1>7. Known' \cup FoundIds' = Known \cup FoundIds
  BY <1>2, <1>6
<1>8. ASSUME Mirror
      PROVE  Mirror'
  <2>1. db[m.id].ip = m.ip /\ db[m.id].hash = m.hash
    <3>1. m = FoundMsg(m.id)
      BY <1>2, <1>8 DEF Mirror
    <3> QED
      BY <3>1 DEF FoundMsg
  <2> HIDE DEF c, m
  <2>2. \A d \in Cams' : Mirrored(d)'
    BY <1>1, <1>4, <1>5, <1>8, <2>1 DEF Mirror, Mirrored
  <2>3. \A k \in FoundMsgs' : k = FoundMsg(k.id)'
    BY <1>1, <1>2, <1>8 DEF Mirror, FoundMsg
  <2> QED
    BY <1>1, <1>7, <1>8, <2>2, <2>3 DEF Mirror
<1> QED
  BY <1>1, <1>7, <1>8 DEF DInv, Stored

\* FTM_CATCHB_onDeleteCCTV: the row goes with the camera, or stays alone.
LEMMA UnlistRows ==
    ASSUME IInv, UInv, DInv, Unlist
    PROVE  DInv'
<1> DEFINE id == main.id
<1>1. /\ cctvs \in Seq(Cctv) /\ Has(id) /\ cctvs' = RemoveAt(cctvs, Pos(id))
      /\ UNCHANGED <<running, inbox>>
  BY DEF IInv, TypeOK, MainKnown, Unlist, aside
<1>2. (\A d \in Cams' : d \in Cams /\ d.id # id) /\ Known' = Known \ {id}
  BY <1>1, RemoveCams DEF UInv
<1>3. FoundMsgs' = FoundMsgs /\ FoundIds' = FoundIds /\ id \notin FoundIds
  BY <1>1, AnnouncedUnknown DEF FoundMsgs, FoundIds, UInv, Has
<1>4. \/ db' = [i \in DOMAIN db \ {id} |-> db[i]]
      \/ "db" \in Faults /\ UNCHANGED db
  BY DEF Unlist
<1>5. /\ DOMAIN db \ {id} \subseteq DOMAIN db'
      /\ \A i \in DOMAIN db \ {id} : db'[i] = db[i]
      /\ "db" \notin Faults => DOMAIN db' = DOMAIN db \ {id}
  BY <1>4
<1>6. Stored'
  BY <1>2, <1>3, <1>5 DEF DInv, Stored
<1>7. ASSUME "db" \notin Faults, Mirror
      PROVE  Mirror'
  <2>1. \A d \in Cams' : d.id \in DOMAIN db \ {id}
    BY <1>2, KnownIds DEF DInv, Stored
  <2>2. \A d \in Cams' : Mirrored(d)'
    BY <1>2, <1>5, <1>7, <2>1 DEF Mirror, Mirrored
  <2>3. \A k \in FoundMsgs : k.id \in DOMAIN db \ {id}
    BY <1>3 DEF DInv, Stored, FoundIds
  <2>4. \A k \in FoundMsgs' : k = FoundMsg(k.id)'
    BY <1>3, <1>5, <1>7, <2>3 DEF Mirror, FoundMsg
  <2> QED
    BY <1>1, <1>2, <1>3, <1>5, <1>7, <2>2, <2>4 DEF Mirror
<1> QED
  BY <1>6, <1>7 DEF DInv

\* A state, a fingerprint or an address is set, in memory and then in the row.
LEMMA SetRows ==
    ASSUME IInv, UInv, DInv, NEW id, Has(id), NEW c \in Cctv, c.id = id,
           cctvs' = [cctvs EXCEPT ![Pos(id)] = c], UNCHANGED running,
           FoundMsgs' = FoundMsgs,
           DOMAIN db' = DOMAIN db, \A i \in DOMAIN db \ {id} : db'[i] = db[i],
           "db" \notin Faults /\ Mirror =>
              db'[id].ip = c.ip /\ (c.hash # NoHash => db'[id].hash = c.hash)
    PROVE  DInv'
<1>1. (\A d \in Cams' : d = c \/ (d \in Cams /\ d.id # id)) /\ Known' = Known
  BY ChangeCams DEF IInv, TypeOK, UInv
<1>2. FoundIds' = FoundIds /\ id \notin FoundIds
  BY AnnouncedUnknown DEF FoundIds, UInv, Has
<1>3. ASSUME "db" \notin Faults, Mirror
      PROVE  Mirror'
  <2>1. \A d \in Cams : d.id \in DOMAIN db
    BY KnownIds DEF DInv, Stored
  <2>2. \A d \in Cams' : Mirrored(d)'
    BY <1>1, <1>3, <2>1 DEF Mirror, Mirrored
  <2>3. \A k \in FoundMsgs : k.id \in DOMAIN db \ {id}
    BY <1>2 DEF DInv, Stored, FoundIds
  <2>4. \A k \in FoundMsgs' : k = FoundMsg(k.id)'
    BY <1>3, <2>3 DEF Mirror, FoundMsg
  <2> QED
    BY <1>1, <1>2, <1>3, <2>2, <2>4 DEF Mirror
<1> QED
  BY <1>1, <1>2, <1>3 DEF DInv, Stored

\* What an UPDATE does to the table (FTM_DB_CCTV_setHash, FTM_DB_CCTV_setIP).
LEMMA UpdateRows ==
    ASSUME NEW id \in DOMAIN db, db[id] \in Row, NEW column, NEW value,
           Update(id, column, value)
    PROVE  /\ DOMAIN db' = DOMAIN db /\ \A i \in DOMAIN db \ {id} : db'[i] = db[i]
           /\ "db" \notin Faults /\ column = "hash" =>
                 db'[id].hash = value /\ db'[id].ip = db[id].ip
           /\ "db" \notin Faults /\ column = "ip" =>
                 db'[id].ip = value /\ db'[id].hash = db[id].hash
<1>1. CASE UNCHANGED db /\ "db" \in Faults
  BY <1>1
<1>2. CASE db' = [i \in DOMAIN db |->
                     IF i = id THEN [db[i] EXCEPT ![column] = value] ELSE db[i]]
  <2>1. /\ DOMAIN db' = DOMAIN db /\ \A i \in DOMAIN db \ {id} : db'[i] = db[i]
        /\ db'[id] = [db[id] EXCEPT ![column] = value]
    BY <1>2
  <2>2. CASE column = "hash"
    BY <2>1, <2>2 DEF Row
  <2>3. CASE column = "ip"
    BY <2>1, <2>3 DEF Row
  <2> QED
    BY <2>1, <2>2, <2>3
<1> QED
  BY <1>1, <1>2 DEF Update

\* FTM_CATCHB_onSetCCTVStat: the row's fingerprint may stay where the camera's goes.
LEMMA OnSetStatRows ==
    ASSUME IInv, UInv, DInv, OnSetStat
    PROVE  DInv'
<1> DEFINE m == Head(inbox)
           c == Get(m.id)
           changed == [c EXCEPT !.stat = m.stat,
                                !.hash = IF m.stat = "unregistered" THEN NoHash ELSE @]
<1>1. inbox \in Seq(Msg) /\ inbox # <<>> /\ inbox' = Tail(inbox) /\ m.type = "setStat"
      /\ UNCHANGED <<running, db>>
  BY DEF IInv, TypeOK, OnSetStat, Idle, Pop, aside
<1>2. FoundMsgs' = FoundMsgs
  BY <1>1, PopFound DEF UInv
<1>3. CASE ~Has(m.id)
  BY <1>1, <1>2, <1>3, RowsKept DEF OnSetStat, Cams
<1>4. CASE Has(m.id)
  <2>1. m \in Msg /\ m.stat \in Stats
    BY <1>1, PopType, MsgFields
  <2>2. c \in Cctv /\ c.id = m.id /\ c \in Cams
    BY <1>4, GetFinds DEF IInv, TypeOK, Cams, ToSet
  <2>3. cctvs' = [cctvs EXCEPT ![Pos(m.id)] = changed]
    BY <1>4 DEF OnSetStat
  <2>4. /\ changed \in Cctv /\ changed.id = m.id /\ changed.ip = c.ip
        /\ changed.hash = c.hash \/ changed.hash = NoHash
    BY <2>1, <2>2 DEF Cctv
  <2>5. Mirror => /\ db'[m.id].ip = changed.ip
                  /\ changed.hash # NoHash => db'[m.id].hash = changed.hash
    <3> HIDE DEF changed, c, m
    <3> QED
      BY <1>1, <2>2, <2>4 DEF Mirror, Mirrored
  <2> HIDE DEF changed, m
  <2> QED
    BY <1>1, <1>2, <1>4, <2>3, <2>4, <2>5, SetRows
<1> QED
  BY <1>3, <1>4

\* FTM_CATCHB_onRegisterCCTV, FTM_CATCHB_onSetCCTVProperties.
LEMMA OnUpdateRows ==
    ASSUME IInv, UInv, DInv, OnRegister \/ OnSetIP
    PROVE  DInv'
<1> DEFINE m == Head(inbox)
           c == Get(m.id)
<1>1. inbox \in Seq(Msg) /\ inbox # <<>> /\ inbox' = Tail(inbox) /\ m.type # "found"
      /\ UNCHANGED running
  BY DEF IInv, TypeOK, OnRegister, OnSetIP, Idle, Pop, aside
<1>2. FoundMsgs' = FoundMsgs
  BY <1>1, PopFound DEF UInv
<1>3. CASE ~Has(m.id)
  <2>1. UNCHANGED <<cctvs, db>>
    BY <1>3 DEF OnRegister, OnSetIP
  <2> QED
    BY <1>1, <1>2, <2>1, RowsKept DEF Cams
<1>4. CASE Has(m.id)
  <2>1. m \in Msg
    BY <1>1, PopType
  <2>2. /\ c \in Cctv /\ c.id = m.id /\ c \in Cams
        /\ c = cctvs[Pos(m.id)] /\ Pos(m.id) \in 1..Len(cctvs)
    BY <1>4, GetFinds DEF IInv, TypeOK, Cams, ToSet
  <2>3. m.id \in DOMAIN db /\ db[m.id] \in Row
    BY <2>2, KnownIds DEF DInv, Stored, IInv, TypeOK
  <2>4. CASE OnRegister
    <3> DEFINE changed == [c EXCEPT !.hash = m.hash]
    <3>1. cctvs' = [cctvs EXCEPT ![Pos(m.id)] = changed] /\ Update(m.id, "hash", m.hash)
      BY <1>4, <2>2, <2>4 DEF OnRegister
    <3>2. m.hash \in Hashes
      BY <2>1, <2>4, MsgFields DEF OnRegister
    <3>3. changed \in Cctv /\ changed.id = m.id /\ changed.ip = c.ip /\ changed.hash = m.hash
      BY <2>2, <3>2 DEF Cctv
    <3>4. /\ DOMAIN db' = DOMAIN db /\ \A i \in DOMAIN db \ {m.id} : db'[i] = db[i]
          /\ "db" \notin Faults => db'[m.id].hash = m.hash /\ db'[m.id].ip = db[m.id].ip
      <4> HIDE DEF m
      <4> QED
        BY <2>3, <3>1, UpdateRows
    <3>5. "db" \notin Faults /\ Mirror =>
             /\ db'[m.id].ip = changed.ip
             /\ changed.hash # NoHash => db'[m.id].hash = changed.hash
      <4> HIDE DEF changed, c, m
      <4> QED
        BY <2>2, <3>3, <3>4 DEF Mirror, Mirrored
    <3> HIDE DEF changed, m
    <3> QED
      BY <1>1, <1>2, <1>4, <3>1, <3>3, <3>4, <3>5, SetRows
  <2>5. CASE OnSetIP
    <3> DEFINE changed == [c EXCEPT !.ip = m.ip]
    <3>1. cctvs' = [cctvs EXCEPT ![Pos(m.id)] = changed] /\ Update(m.id, "ip", m.ip)
      BY <1>4, <2>2, <2>5 DEF OnSetIP
    <3>2. m.ip \in Ips
      BY <2>1, <2>5, MsgFields DEF OnSetIP
    <3>3. changed \in Cctv /\ changed.id = m.id /\ changed.ip = m.ip /\ changed.hash = c.hash
      BY <2>2, <3>2 DEF Cctv
    <3>4. /\ DOMAIN db' = DOMAIN db /\ \A i \in DOMAIN db \ {m.id} : db'[i] = db[i]
          /\ "db" \notin Faults => db'[m.id].ip = m.ip /\ db'[m.id].hash = db[m.id].hash
      <4> HIDE DEF m
      <4> QED
        BY <2>3, <3>1, UpdateRows
    <3>5. "db" \notin Faults /\ Mirror =>
             /\ db'[m.id].ip = changed.ip
             /\ changed.hash # NoHash => db'[m.id].hash = changed.hash
      <4> HIDE DEF changed, c, m
      <4> QED
        BY <2>2, <3>3, <3>4 DEF Mirror, Mirrored
    <3> HIDE DEF changed, m
    <3> QED
      BY <1>1, <1>2, <1>4, <3>1, <3>3, <3>4, <3>5, SetRows
  <2> QED
    BY <2>4, <2>5
<1> QED
  BY <1>3, <1>4

\* FTM_CATCHB_onDeleteCCTV up to the lock.
LEMMA OnDeleteRows ==
    ASSUME IInv, UInv, DInv, OnDelete
    PROVE  DInv'
<1>1. inbox \in Seq(Msg) /\ inbox # <<>> /\ inbox' = Tail(inbox) /\ Head(inbox).type # "found"
      /\ UNCHANGED <<running, cctvs, db>>
  BY DEF IInv, TypeOK, OnDelete, Idle, Pop, aside
<1>2. FoundMsgs' = FoundMsgs
  BY <1>1, PopFound DEF UInv
<1> QED
  BY <1>1, <1>2, RowsKept DEF Cams

\* FTM_ANALYZER_process announces nothing.
LEMMA ProbeEndRows ==
    ASSUME IInv, DInv, ProbeEnd
    PROVE  DInv'
<1> DEFINE report == Report(Get(probe.id))
<1>1. probe # None /\ Has(probe.id) /\ Scanned
  BY DEF IInv, ProbedExists, ProbeEnd, Scanned
<1>2. report \in Seq(Msg)
  BY <1>1, GetFinds, ReportType DEF IInv, TypeOK
<1>3. \A i \in DOMAIN report : report[i].type # "found"
  BY DEF Report
<1>4. inbox' = inbox \o report /\ inbox \in Seq(Msg) /\ UNCHANGED <<running, cctvs, db>>
  BY DEF ProbeEnd, IInv, TypeOK, aside
<1> HIDE DEF report
<1>5. FoundMsgs' = FoundMsgs
  BY <1>2, <1>3, <1>4, PostFound
<1> QED
  BY <1>4, <1>5, RowsKept DEF Cams

\* FTM_CATCHB_initProcess: each row is announced, as it is.
LEMMA BootRows ==
    ASSUME IInv, UInv, Boot
    PROVE  DInv'
<1> DEFINE n == Cardinality(DOMAIN db)
<1>1. PICK s \in SetToSeqs(DOMAIN db) : inbox' = [i \in DOMAIN s |-> FoundMsg(s[i])]
  BY DEF Boot
<1>2. IsFiniteSet(DOMAIN db) /\ n \in Nat
  <2>1. IsFiniteSet(DOMAIN db)
    BY ConstantsAssumption, FS_Subset DEF IInv, TypeOK
  <2> QED
    BY <2>1, FS_CardinalityType
<1>3. s \in [1..n -> DOMAIN db] /\ \A i, j \in 1..n : i # j => s[i] # s[j]
  BY DEF SetToSeqs
<1>4. IsFiniteSet(1..n) /\ Cardinality(1..n) = n
  BY <1>2, FS_Interval
<1> HIDE DEF n
<1>5. ASSUME NEW id \in DOMAIN db
      PROVE  \E i \in 1..n : s[i] = id
  <2>1. SUFFICES ASSUME \A i \in 1..n : s[i] # id
                 PROVE  FALSE
    OBVIOUS
  <2> DEFINE T == DOMAIN db \ {id}
  <2>2. IsFiniteSet(T) /\ Cardinality(T) = n - 1
    BY <1>2, <1>5, FS_RemoveElement DEF n
  <2>3. s \in [1..n -> T]
    BY <1>3, <2>1
  <2> HIDE DEF T
  <2>4. \E x, y \in 1..n : x # y /\ s[x] = s[y]
    BY <1>2, <1>4, <2>2, <2>3, FS_PigeonHole
  <2> QED
    BY <1>3, <2>4
<1>6. FoundMsgs' = {FoundMsg(id) : id \in DOMAIN db}
  <2>1. ToSet(inbox') = {FoundMsg(s[i]) : i \in 1..n}
    BY <1>1, <1>3 DEF ToSet
  <2>2. \A id \in DOMAIN db : FoundMsg(id).type = "found"
    BY DEF FoundMsg
  <2> QED
    BY <1>3, <1>5, <2>1, <2>2 DEF FoundMsgs
<1>7. FoundIds' = DOMAIN db /\ \A m \in FoundMsgs' : m = FoundMsg(m.id)
  <2>1. \A id \in DOMAIN db : FoundMsg(id).id = id
    BY DEF FoundMsg
  <2> QED
    BY <1>6, <2>1 DEF FoundIds
<1>8. Cams' = {} /\ Known' = {} /\ UNCHANGED db
  BY DEF Boot, UInv, DownEmpty, Cams, Known, ToSet
<1>9. \A m \in FoundMsgs' : m = FoundMsg(m.id)'
  BY <1>7, <1>8 DEF FoundMsg
<1> QED
  BY <1>7, <1>8, <1>9 DEF DInv, Stored, Mirror

\* The end of the process leaves the table alone.
LEMMA HaltRows ==
    ASSUME Halt
    PROVE  DInv'
<1>1. running' = FALSE /\ cctvs' = <<>> /\ inbox' = <<>>
  BY DEF Halt
<1>2. Cams' = {} /\ Known' = {} /\ FoundMsgs' = {} /\ FoundIds' = {}
  BY <1>1 DEF Cams, Known, FoundMsgs, FoundIds, ToSet
<1> QED
  BY <1>1, <1>2 DEF DInv, Stored, Mirror

\* Every handler keeps memory and table in step.
LEMMA NextRows ==
    ASSUME IInv, UInv, DInv, [Next]_vars
    PROVE  DInv'
<1>1. ASSUME UNCHANGED <<running, cctvs, inbox, db>>
      PROVE  DInv'
  BY <1>1, RowsKept DEF Cams, FoundMsgs
<1>2. CASE Boot \/ Halt
  BY <1>2, BootRows, HaltRows
<1>3. CASE MainStep
  BY <1>3, OnCreateRows, OnFoundRows, OnDeleteRows, UnlistRows, OnSetStatRows, OnUpdateRows
  DEF MainStep
<1>4. CASE Attach \/ Detach
  BY <1>1, <1>4 DEF Attach, Detach, aside
<1>5. CASE AnalyzerStep
  <2>1. CASE ProbeBegin \/ Scan
    BY <1>1, <2>1 DEF ProbeBegin, Scan, aside
  <2> QED
    BY <1>5, <2>1, ProbeEndRows DEF AnalyzerStep
<1>6. CASE DetectorStep
  BY <1>1, <1>6
  DEF DetectorStep, OnSetControl, AddEntry, ApplyDeny, ApplyAllow, RemoveEntry, core
<1>7. CASE Request
  <2>1. CASE \E id \in Ids, ip \in Ips : RequestAdd(id, ip) \/ RequestSetIP(id, ip)
    <3>1. PICK id \in Ids, ip \in Ips : RequestAdd(id, ip) \/ RequestSetIP(id, ip)
      BY <2>1
    <3>2. /\ [type |-> "create", id |-> id, ip |-> ip] \in Msg
          /\ [type |-> "setIP", id |-> id, ip |-> ip] \in Msg
      BY DEF Msg
    <3> QED
      BY <3>1, <3>2, PostRows DEF RequestAdd, RequestSetIP
  <2>2. CASE \E id \in Ids : RequestDel(id)
    <3>1. PICK id \in Ids : RequestDel(id)
      BY <2>2
    <3>2. [type |-> "delete", id |-> id] \in Msg
      BY DEF Msg
    <3> QED
      BY <3>1, <3>2, PostRows DEF RequestDel
  <2>3. CASE \E id \in Ids : RequestReset(id)
    BY <1>1, <2>3 DEF RequestReset, core
  <2>4. CASE \E id \in Ids, policy \in {"allow", "deny"} : RequestPolicy(id, policy)
    BY <1>1, <2>4 DEF RequestPolicy, core
  <2> QED
    BY <1>7, <2>1, <2>2, <2>3, <2>4 DEF Request
<1>8. CASE SessionStep
  <2>1. CASE SessionApply
    BY <1>1, <2>1 DEF SessionApply, core
  <2>2. CASE SendReset
    <3>1. session \in Session
      BY <2>2 DEF IInv, TypeOK, SendReset
    <3>2. [type |-> "setStat", id |-> session.id, stat |-> "unregistered"] \in Msg
      BY <3>1 DEF Session, Msg, Stats
    <3> QED
      BY <2>2, <3>2, PostRows DEF SendReset
  <2> QED
    BY <1>8, <2>1, <2>2 DEF SessionStep
<1>9. CASE \E ip \in Ips : Device(ip)
  BY <1>1, <1>9 DEF Device, memory
<1>10. CASE UNCHANGED vars
  BY <1>1, <1>10 DEF vars, memory
<1> QED
  BY <1>2, <1>3, <1>4, <1>5, <1>6, <1>7, <1>8, <1>9, <1>10 DEF Next

\* What UniqueIds needs holds in every reachable state.
LEMMA UniqueInvariance == Spec => []UInv
<1>1. Init => UInv
  BY DEF Init, UInv, Distinct, Announced, DownEmpty
<1>2. IInv /\ UInv /\ [Next]_vars => UInv'
  BY NextUnique
<1> QED
  BY <1>1, <1>2, Invariance, PTL DEF Spec

\* And so does what the table needs.
LEMMA RowsInvariance == Spec => []DInv
<1>1. Init => DInv
  <2>1. Init => /\ running = FALSE /\ Cams = {} /\ Known = {}
                /\ FoundMsgs = {} /\ FoundIds = {}
    BY DEF Init, Cams, Known, FoundMsgs, FoundIds, ToSet
  <2> QED
    BY <2>1 DEF DInv, Stored, Mirror
<1>2. IInv /\ UInv /\ DInv /\ [Next]_vars => DInv'
  BY NextRows
<1> QED
  BY <1>1, <1>2, Invariance, UniqueInvariance, PTL DEF Spec

\* However the statements of the database fail, each camera in memory or on
\* its way there has a row: FTM_CATCHB_onCreateCCTV takes a camera without one
\* back, and FTM_CATCHB_onDeleteCCTV frees the camera whatever becomes of its row.
THEOREM StoredInDbCorrect == Spec => []StoredInDb
<1>1. DInv => StoredInDb
  <2>1. \A i \in DOMAIN inbox : inbox[i].type = "found" => inbox[i].id \in FoundIds
    BY DEF FoundIds, FoundMsgs, ToSet
  <2> QED
    BY <2>1 DEF DInv, Stored, StoredInDb
<1> QED
  BY <1>1, RowsInvariance, PTL

\* With a database that works, what a restart would bring back is what is
\* there, address and fingerprint included, through every interleaving of
\* operators, late findings, resets and restarts.
THEOREM DbMirrorsCorrect ==
    ASSUME "db" \notin Faults
    PROVE  Spec => []DbMirrors
<1>1. DInv => DbMirrors
  <2>1. FoundIds = {inbox[i].id : i \in {j \in DOMAIN inbox : inbox[j].type = "found"}}
    BY DEF FoundIds, FoundMsgs, ToSet
  <2>2. \A i \in DOMAIN cctvs : cctvs[i] \in Cams
    BY DEF Cams, ToSet
  <2>3. DInv => Stored /\ Mirror
    BY DEF DInv
  <2> QED
    BY <2>1, <2>2, <2>3 DEF Stored, Mirror, Mirrored, DbMirrors
<1> QED
  BY <1>1, RowsInvariance, PTL

-----------------------------------------------------------------------------
(* The chain of the analyzer and the registry.                             *)

\* IDs differ in more than letter case.
CaseMatters == \A x, y \in Ids : Fold(x) = Fold(y) => x = y

\* The camera whose handler waits to attach it, or has detached it.
Awaited == IF main # None /\ main.op \in {"attach", "remove"} THEN {main.id} ELSE {}

\* The chain holds every other camera of the registry.
SInv == ToSet(chain) = Known \ Awaited

\* The chain is left alone.
LEMMA ChainKept ==
    ASSUME SInv, UNCHANGED chain, Known' \ Awaited' = Known \ Awaited
    PROVE  SInv'
BY DEF SInv

\* The same cameras in another order, or the same order.
LEMMA SameChain ==
    ASSUME SInv, UNCHANGED <<cctvs, main>>, ToSet(chain') = ToSet(chain)
    PROVE  SInv'
BY DEF SInv, Known, Awaited

\* FTM_CATCHB_onCreateCCTV, FTM_CATCHB_onFoundCCTVInDB: a new camera waits.
LEMMA NewWaits ==
    ASSUME IInv, UInv, SInv, OnCreate \/ OnFound
    PROVE  SInv'
<1> DEFINE m == Head(inbox)
<1>1. /\ inbox \in Seq(Msg) /\ inbox # <<>> /\ cctvs \in Seq(Cctv)
      /\ main = None /\ UNCHANGED chain
  BY DEF IInv, TypeOK, OnCreate, OnFound, Idle
<1>2. m \in Msg /\ m \in ToSet(inbox)
  BY <1>1, PopType, TailSet
<1>3. CASE UNCHANGED <<cctvs, main>>
  BY <1>1, <1>3, SameChain
<1>4. ASSUME NEW c \in Cctv, c.id = m.id, m.id \notin Known,
             cctvs' = Append(cctvs, c), main' = [op |-> "attach", id |-> m.id]
      PROVE  SInv'
  <2>1. Cams' = Cams \cup {c}
    BY <1>1, <1>4, AppendSet DEF Cams
  <2>2. Known' = Known \cup {m.id}
    BY <1>4, <2>1, KnownIds
  <2>3. Awaited = {}
    BY <1>1 DEF Awaited
  <2>4. Awaited' = {m.id}
    <3>1. main' \in [op : {"attach", "detach", "remove"}, id : Ids]
      BY <1>2, <1>4, MsgFields
    <3> QED
      BY <1>4, <3>1, NoneAssumption DEF Awaited
  <2> QED
    BY <1>1, <1>4, <2>2, <2>3, <2>4 DEF SInv
<1>5. CASE OnCreate /\ ~UNCHANGED <<cctvs, main>>
  <2> DEFINE c == [id |-> m.id, ip |-> m.ip, hash |-> NoHash, stat |-> "unregistered"]
  <2>1. m.id \in Ids /\ m.ip \in Ips
    BY <1>2, <1>5, MsgFields DEF OnCreate
  <2>2. c \in Cctv /\ c.id = m.id
    BY <2>1 DEF Cctv, Stats
  <2>3. /\ m.id \notin Known /\ cctvs' = Append(cctvs, c)
        /\ main' = [op |-> "attach", id |-> m.id]
    BY <1>5 DEF OnCreate, Has
  <2> HIDE DEF c
  <2> QED
    BY <1>4, <2>2, <2>3
<1>6. CASE OnFound
  <2> DEFINE c == [id |-> m.id, ip |-> m.ip, hash |-> m.hash,
                   stat |-> IF m.hash = NoHash THEN "unregistered" ELSE "unused"]
  <2>1. m.id \in Ids /\ m.ip \in Ips /\ m.hash \in Hashes \cup {NoHash}
    BY <1>2, <1>6, MsgFields DEF OnFound
  <2>2. c \in Cctv /\ c.id = m.id
    BY <2>1 DEF Cctv, Stats
  <2>3. cctvs' = Append(cctvs, c) /\ main' = [op |-> "attach", id |-> m.id]
    BY <1>6 DEF OnFound
  <2>4. m.id \notin Known
    BY <1>2, <1>6, AnnouncedUnknown DEF OnFound, FoundMsgs, UInv
  <2> HIDE DEF c
  <2> QED
    BY <1>4, <2>2, <2>3, <2>4
<1> QED
  BY <1>3, <1>5, <1>6

\* A chain whose IDs differ in more than letter case holds each once.
LEMMA ChainInjective ==
    ASSUME FoldDistinct
    PROVE  IsInjective(chain)
BY DEF FoldDistinct, IsInjective

\* FTM_ANALYZER_CCTV_attach: the new camera is at the chain's end.
LEMMA AttachScheduled ==
    ASSUME CaseMatters, IInv, SInv, Attach
    PROVE  SInv'
<1> DEFINE id == main.id
<1>1. /\ chain \in Seq(Ids) /\ id \in Ids /\ id \in Known
      /\ main # None /\ main.op = "attach" /\ main' = None /\ UNCHANGED cctvs
  BY DEF IInv, TypeOK, MainKnown, Has, Attach
<1>2. ToSet(chain) = Known \ {id}
  BY <1>1 DEF SInv, Awaited
<1>3. ~Scheduled(id)
  <2>1. ASSUME NEW i \in DOMAIN chain, Fold(chain[i]) = Fold(id)
        PROVE  FALSE
    <3>1. chain[i] \in Ids
      BY <1>1
    <3>2. chain[i] = id
      BY <1>1, <2>1, <3>1 DEF CaseMatters
    <3> QED
      BY <1>2, <3>2 DEF ToSet
  <2> QED
    BY <2>1 DEF Scheduled
<1>4. chain' = Append(chain, id)
  BY <1>3 DEF Attach
<1>5. ToSet(chain') = ToSet(chain) \cup {id}
  BY <1>1, <1>4, AppendSet
<1>6. Awaited' = {} /\ Known' = Known
  BY <1>1 DEF Awaited, Known
<1> QED
  BY <1>1, <1>2, <1>5, <1>6 DEF SInv

\* FTM_ANALYZER_CCTV_detach: it takes out the camera it was asked to.
LEMMA DetachScheduled ==
    ASSUME CaseMatters, IInv, SInv, Detach
    PROVE  SInv'
<1> DEFINE id == main.id
           k == ChainPos(id)
           I == {i \in DOMAIN chain : Fold(chain[i]) = Fold(id)}
<1>1. /\ chain \in Seq(Ids) /\ id \in Ids /\ id \in Known /\ UNCHANGED cctvs
      /\ main \in [op : {"attach", "detach", "remove"}, id : Ids]
      /\ main # None /\ main.op = "detach" /\ main' = [main EXCEPT !.op = "remove"]
  BY DEF IInv, TypeOK, MainKnown, Has, Detach
<1>2. ToSet(chain) = Known
  BY <1>1 DEF SInv, Awaited
<1>3. DOMAIN chain = 1..Len(chain)
  BY <1>1
<1>4. I # {} /\ I \subseteq Nat
  BY <1>1, <1>2, <1>3 DEF ToSet
<1>5. k \in I
  BY <1>4, LeastExists DEF ChainPos
<1>6. k \in 1..Len(chain) /\ chain[k] = id
  <2>1. k \in 1..Len(chain) /\ chain[k] \in Ids /\ Fold(chain[k]) = Fold(id)
    BY <1>1, <1>3, <1>5
  <2> QED
    BY <1>1, <2>1 DEF CaseMatters
<1>7. chain' = RemoveAt(chain, k)
  BY <1>4 DEF Detach, Scheduled
<1>8. ToSet(chain') = ToSet(chain) \ {id}
  <2>1. IsInjective(chain)
    BY ChainInjective DEF IInv
  <2> HIDE DEF k
  <2> QED
    BY <1>1, <1>6, <1>7, <2>1, RemoveAtInjective
<1>9. main' \in [op : {"attach", "detach", "remove"}, id : Ids]
      /\ main'.op = "remove" /\ main'.id = id
  BY <1>1
<1>10. Awaited' = {id} /\ Known' = Known
  BY <1>1, <1>9, NoneAssumption DEF Awaited, Known
<1> QED
  BY <1>2, <1>8, <1>10 DEF SInv

\* FTM_CATCHB_onDeleteCCTV: the camera is in the chain until the lock is free,
\* and then no longer in the list either.
LEMMA DeleteScheduled ==
    ASSUME IInv, UInv, SInv, OnDelete \/ Unlist
    PROVE  SInv'
<1>1. CASE OnDelete
  <2>1. main = None /\ UNCHANGED <<cctvs, chain>>
    BY <1>1 DEF OnDelete, Idle
  <2>2. main' = None \/ main'.op = "detach"
    BY <1>1 DEF OnDelete
  <2>3. Awaited' = Awaited /\ Known' = Known
    BY <2>1, <2>2 DEF Awaited, Known
  <2> QED
    BY <2>1, <2>3, ChainKept
<1>2. CASE Unlist
  <2>1. /\ cctvs \in Seq(Cctv) /\ Has(main.id) /\ cctvs' = RemoveAt(cctvs, Pos(main.id))
        /\ main # None /\ main.op = "remove" /\ main' = None /\ UNCHANGED chain
    BY <1>2 DEF IInv, TypeOK, MainKnown, Unlist
  <2>2. Known' = Known \ {main.id}
    BY <2>1, RemoveCams DEF UInv
  <2>3. Awaited = {main.id} /\ Awaited' = {}
    BY <2>1 DEF Awaited
  <2> QED
    BY <2>1, <2>2, <2>3, ChainKept
<1> QED
  BY <1>1, <1>2

\* FTM_CATCHB_onSetCCTVStat, FTM_CATCHB_onRegisterCCTV, FTM_CATCHB_onSetCCTVProperties:
\* the cameras are the same.
LEMMA ChangeScheduled ==
    ASSUME IInv, UInv, SInv, OnSetStat \/ OnRegister \/ OnSetIP
    PROVE  SInv'
<1>1. SameIds
  BY ChangeSameIds DEF IInv
<1>2. Known' = Known
  BY <1>1, SameIdsKeep DEF UInv
<1>3. UNCHANGED <<main, chain>>
  BY DEF OnSetStat, OnRegister, OnSetIP
<1> QED
  BY <1>2, <1>3, ChainKept DEF Awaited

\* FTM_ANALYZER_process: the head becomes the last.
LEMMA ProbeEndScheduled ==
    ASSUME IInv, SInv, ProbeEnd
    PROVE  SInv'
<1>1. chain \in Seq(Ids) /\ chain # <<>>
  BY DEF IInv, TypeOK, ProbedExists, ProbeEnd, Scanned
<1>2. Head(chain) \in Ids /\ Tail(chain) \in Seq(Ids)
  BY <1>1, PopType
<1>3. chain' = Append(Tail(chain), Head(chain)) /\ UNCHANGED <<cctvs, main>>
  BY DEF ProbeEnd
<1>4. ToSet(chain') = ToSet(Tail(chain)) \cup {Head(chain)}
  <2> DEFINE q == Tail(chain)
             e == Head(chain)
  <2> HIDE DEF q, e
  <2>1. q \in Seq(Ids) /\ e \in Ids /\ chain' = Append(q, e)
    BY <1>2, <1>3 DEF q, e
  <2>2. ToSet(chain') = ToSet(q) \cup {e}
    BY <2>1, AppendSet
  <2> QED
    BY <2>2 DEF q, e
<1>5. ToSet(chain) = ToSet(Tail(chain)) \cup {Head(chain)}
  BY <1>1, TailSet
<1> QED
  BY <1>3, <1>4, <1>5, SameChain

\* Every step keeps the chain in step with the registry.
LEMMA NextScheduled ==
    ASSUME CaseMatters, IInv, UInv, SInv, [Next]_vars
    PROVE  SInv'
<1>1. ASSUME UNCHANGED <<cctvs, main, chain>>
      PROVE  SInv'
  BY <1>1, SameChain
<1>2. CASE Halt
  <2>1. cctvs' = <<>> /\ main' = None /\ chain' = <<>>
    BY <1>2 DEF Halt
  <2> QED
    BY <2>1 DEF SInv, Known, Awaited, ToSet
<1>3. CASE MainStep
  BY <1>3, NewWaits, DeleteScheduled, ChangeScheduled DEF MainStep
<1>4. CASE Attach \/ Detach
  BY <1>4, AttachScheduled, DetachScheduled
<1>5. CASE AnalyzerStep
  BY <1>1, <1>5, ProbeEndScheduled DEF AnalyzerStep, ProbeBegin, Scan
<1>6. CASE Boot \/ DetectorStep
  BY <1>1, <1>6
  DEF Boot, DetectorStep, OnSetControl, AddEntry, ApplyDeny, ApplyAllow, RemoveEntry, core
<1>7. CASE Request
  BY <1>1, <1>7
  DEF Request, RequestAdd, RequestSetIP, RequestDel, RequestReset, RequestPolicy, Post, core
<1>8. CASE SessionStep
  BY <1>1, <1>8 DEF SessionStep, SessionApply, SendReset, Post, core
<1>9. CASE (\E ip \in Ips : Device(ip)) \/ UNCHANGED vars
  BY <1>1, <1>9 DEF Device, vars, memory
<1> QED
  BY <1>2, <1>3, <1>4, <1>5, <1>6, <1>7, <1>8, <1>9 DEF Next

\* Every camera of the registry is in the analyzer's chain exactly once, but for
\* the one whose handler waits for the analyzer's lock: no camera is forgotten
\* or probed twice as often, however operators and probes interleave.  IDs must
\* differ in more than letter case (FTM_ANALYZER_CCTV_attach compares without).
THEOREM EachScheduledOnceCorrect ==
    ASSUME CaseMatters
    PROVE  Spec => []EachScheduledOnce
<1>1. Init => SInv
  BY DEF Init, SInv, Known, Awaited, ToSet
<1>2. IInv /\ UInv /\ SInv /\ [Next]_vars => SInv'
  BY NextScheduled
<1>3. IInv /\ SInv => EachScheduledOnce
  <2> SUFFICES ASSUME IInv, SInv
               PROVE  EachScheduledOnce
    OBVIOUS
  <2>1. \A i, j \in DOMAIN chain : chain[i] = chain[j] => i = j
    BY DEF IInv, FoldDistinct
  <2>2. {id \in Ids : main \in [op : {"attach", "remove"}, id : {id}]} = Awaited
    <3>1. CASE main = None
      <4>1. \A id \in Ids : main \notin [op : {"attach", "remove"}, id : {id}]
        BY <3>1, NoneAssumption
      <4> QED
        BY <3>1, <4>1 DEF Awaited
    <3>2. CASE main # None
      <4>1. main \in [op : {"attach", "detach", "remove"}, id : Ids]
        BY <3>2 DEF IInv, TypeOK
      <4> QED
        BY <3>2, <4>1 DEF Awaited
    <3> QED
      BY <3>1, <3>2
  <2> QED
    BY <2>1, <2>2 DEF SInv, EachScheduledOnce
<1> QED
  BY <1>1, <1>2, <1>3, Invariance, UniqueInvariance, PTL DEF Spec

-----------------------------------------------------------------------------
(* The list of access controls beside an obedient switch.                  *)

\* The switch does as it is told, the process does not end, and the detector is
\* the only one to work on the switch.
Obedient ==
    /\ Faults \cap {"halt", "switchError", "switchSilent"} = {}
    /\ Ops \cap {"reset", "policy"} = {}

\* The addresses that have an entry, and that they have one each.
Entered == {e.ip : e \in ToSet(acl)}
OneEach == \A i, j \in DOMAIN acl : acl[i].ip = acl[j].ip => i = j

\* Entries and rules agree, but for the address the detector is at work on: it
\* has an entry from the moment addAC has made one until deleteAC, which has freed
\* the address by then, takes it out.
AInv ==
    /\ session = None
    /\ OneEach /\ \A e \in ToSet(acl) : e.policy = "deny"
    /\ \A ip \in Ips : switching = None \/ switching.ip # ip =>
          (ip \in rules <=> ip \in Entered)
    /\ switching # None =>
          /\ switching.step = "add" => switching.ip \notin Entered \cup rules
          /\ switching.step # "add" => switching.ip \in Entered
          /\ switching.step = "remove" => switching.ip \notin rules

\* FTM_SWITCH_getAC finds an entry if the address has one.
LEMMA EnteredFound ==
    /\ \A ip : AcPositions(ip) # {} <=> ip \in Entered
    /\ \A ip : AcPositions(ip)' # {} <=> ip \in Entered'
BY DEF AcPositions, Entered, ToSet

\* What leaves the list, the switch and the work on it alone.
LEMMA EntriesKept ==
    ASSUME AInv, UNCHANGED <<session, switching, acl, rules>>
    PROVE  AInv'
BY DEF AInv, Entered, OneEach, ToSet

\* FTM_DETECTOR_onSetControl starts what the entry does not already say.
LEMMA OnSetControlAcl ==
    ASSUME IInv, AInv, OnSetControl
    PROVE  AInv'
<1> DEFINE m == Head(detq)
<1>1. /\ m \in [ip : Ips, policy : {"allow", "deny"}]
      /\ switching = None /\ UNCHANGED <<session, acl, rules>>
  BY PopType DEF IInv, TypeOK, OnSetControl
<1>2. \/ UNCHANGED switching
      \/ /\ switching' = [step |-> "add", ip |-> m.ip, policy |-> "deny"]
         /\ m.ip \notin Entered
      \/ /\ switching' = [step |-> "apply", ip |-> m.ip, policy |-> "allow"]
         /\ m.ip \in Entered
  BY EnteredFound DEF OnSetControl
<1>3. Entered' = Entered /\ OneEach' = OneEach /\ ToSet(acl') = ToSet(acl)
  BY <1>1 DEF Entered, OneEach, ToSet
<1> HIDE DEF m
<1>4. CASE UNCHANGED switching
  BY <1>1, <1>4, EntriesKept
<1>5. CASE switching' # switching
  <2>1. switching'.ip = m.ip /\ switching'.step \in {"add", "apply"}
        /\ (switching'.step = "add" <=> m.ip \notin Entered)
    BY <1>2, <1>5
  <2> QED
    BY <1>1, <1>3, <2>1 DEF AInv
<1> QED
  BY <1>4, <1>5

\* FTM_SWITCH_addAC: the address has its one entry.
LEMMA AddEntryAcl ==
    ASSUME IInv, AInv, AddEntry
    PROVE  AInv'
<1>1. switching \in [step : {"add", "apply"}, ip : Ips, policy : {"deny"}]
      /\ acl \in Seq(Control) /\ switching # None /\ switching.step = "add"
  BY DEF IInv, TypeOK, AddEntry, Switching
<1>2. PICK e \in Control : e = [ip |-> switching.ip, policy |-> "deny"]
  BY <1>1 DEF Control
<1>3. acl' = Append(acl, e) /\ UNCHANGED <<session, rules>>
  BY <1>1, <1>2 DEF AddEntry
<1>4. ToSet(acl') = ToSet(acl) \cup {e} /\ Entered' = Entered \cup {switching.ip}
  <2>1. ToSet(acl') = ToSet(acl) \cup {e}
    BY <1>1, <1>3, AppendSet
  <2> QED
    BY <1>2, <2>1 DEF Entered
<1>5. switching.ip \notin Entered
  BY <1>1 DEF AInv
<1>6. OneEach'
  <2>1. /\ DOMAIN acl = 1..Len(acl) /\ Len(acl) \in Nat
        /\ DOMAIN acl' = 1..(Len(acl) + 1)
        /\ \A i \in 1..Len(acl) : acl'[i] = acl[i]
        /\ acl'[Len(acl) + 1] = e
    BY <1>1, <1>3, AppendProperties
  <2>2. \A i \in DOMAIN acl : acl[i].ip # e.ip
    BY <1>2, <1>5 DEF Entered, ToSet
  <2>3. \A i \in DOMAIN acl' : \/ i \in DOMAIN acl /\ acl'[i] = acl[i]
                               \/ i = Len(acl) + 1 /\ acl'[i] = e
    BY <2>1
  <2> QED
    BY <2>2, <2>3 DEF AInv, OneEach
<1>7. switching'.step = "apply" /\ switching'.ip = switching.ip /\ switching' # None
  <2>1. switching' \in [step : {"apply"}, ip : {switching.ip}, policy : {"deny"}]
    BY <1>1 DEF AddEntry
  <2>2. switching' \in Switching
    BY <1>1, <2>1 DEF Switching
  <2> QED
    BY <2>1, <2>2, NoneAssumption
<1> QED
  BY <1>1, <1>2, <1>3, <1>4, <1>6, <1>7 DEF AInv

\* FTM_SWITCH_addAC and FTM_SWITCH_deleteAC: the script does what the entry says.
LEMMA ApplyAcl ==
    ASSUME Obedient, IInv, AInv, ApplyDeny \/ ApplyAllow
    PROVE  AInv'
<1>1. /\ switching \in Switching /\ switching # None /\ switching.step = "apply"
      /\ UNCHANGED <<session, acl>>
  BY DEF IInv, TypeOK, ApplyDeny, ApplyAllow
<1>2. Entered' = Entered /\ OneEach' = OneEach /\ ToSet(acl') = ToSet(acl)
  BY <1>1 DEF Entered, OneEach, ToSet
<1>3. switching.ip \in Entered
  BY <1>1 DEF AInv
<1>4. CASE ApplyDeny
  <2>1. rules' = rules \cup {switching.ip} /\ switching' = None
    BY <1>4 DEF ApplyDeny, SetAC, Obedient
  <2> QED
    BY <1>1, <1>2, <1>3, <2>1 DEF AInv
<1>5. CASE ApplyAllow
  <2>1. rules' = rules \ {switching.ip} /\ switching' = [switching EXCEPT !.step = "remove"]
    BY <1>5 DEF ApplyAllow, SetAC, Obedient
  <2>2. switching'.ip = switching.ip /\ switching'.step = "remove" /\ switching' # None
    <3>1. switching \in [step : {"apply"}, ip : Ips, policy : {"allow"}]
      BY <1>1, <1>5 DEF Switching, ApplyAllow
    <3>2. switching' \in [step : {"remove"}, ip : {switching.ip}, policy : {"allow"}]
      BY <2>1, <3>1
    <3>3. switching' \in Switching
      BY <3>1, <3>2 DEF Switching
    <3> QED
      BY <3>2, <3>3, NoneAssumption
  <2> QED
    BY <1>1, <1>2, <1>3, <2>1, <2>2 DEF AInv
<1> QED
  BY <1>4, <1>5

\* FTM_SWITCH_deleteAC: with its one entry the address is out of the list.
LEMMA RemoveEntryAcl ==
    ASSUME IInv, AInv, RemoveEntry
    PROVE  AInv'
<1> DEFINE k == FirstAc(switching.ip)
<1>1. /\ switching' = None /\ acl' = RemoveAt(acl, k) /\ UNCHANGED <<rules, session>>
      /\ switching # None /\ switching.step = "remove" /\ acl \in Seq(Control)
  BY DEF RemoveEntry, IInv, TypeOK
<1>2. k \in 1..Len(acl) /\ acl[k].ip = switching.ip
  <2>1. AcPositions(switching.ip) # {} /\ AcPositions(switching.ip) \subseteq Nat
    BY <1>1, EnteredFound DEF AInv, AcPositions
  <2>2. k \in AcPositions(switching.ip)
    BY <2>1, LeastExists DEF FirstAc
  <2> QED
    BY <1>1, <2>2 DEF AcPositions
<1> HIDE DEF k
<1>3. DOMAIN acl' = 1..Len(acl') /\ DOMAIN acl = 1..Len(acl)
  <2>1. RemoveAt(acl, k) \in Seq(Control)
    BY <1>1, <1>2, RemoveAtProperties
  <2> QED
    BY <1>1, <2>1
<1>4. ASSUME NEW i \in DOMAIN acl'
      PROVE  \E j \in DOMAIN acl : /\ j # k
                                   /\ j = IF i < k THEN i ELSE i + 1
                                   /\ acl'[i] = acl[j]
  BY <1>1, <1>2, <1>3, RemoveAtOrigin
<1>5. OneEach'
  <2>1. SUFFICES ASSUME NEW i1 \in DOMAIN acl', NEW i2 \in DOMAIN acl',
                        acl'[i1].ip = acl'[i2].ip
                 PROVE  i1 = i2
    BY DEF OneEach
  <2>2. PICK j1 \in DOMAIN acl : /\ j1 # k /\ acl'[i1] = acl[j1]
                                 /\ j1 = IF i1 < k THEN i1 ELSE i1 + 1
    BY <1>4
  <2>3. PICK j2 \in DOMAIN acl : /\ j2 # k /\ acl'[i2] = acl[j2]
                                 /\ j2 = IF i2 < k THEN i2 ELSE i2 + 1
    BY <1>4
  <2>4. j1 = j2
    BY <2>1, <2>2, <2>3 DEF AInv, OneEach
  <2> QED
    BY <1>2, <1>3, <2>2, <2>3, <2>4
<1>6. \A e \in ToSet(acl') : e \in ToSet(acl) /\ e.ip # switching.ip
  BY <1>2, <1>3, <1>4 DEF ToSet, AInv, OneEach
<1>7. \A e \in ToSet(acl) : e.ip # switching.ip => e \in ToSet(acl')
  <2>1. ASSUME NEW j \in 1..Len(acl), j # k
        PROVE  \E i \in 1..Len(acl') : acl'[i] = acl[j]
    BY <1>1, <1>2, <2>1, RemoveAtKeeps
  <2> QED
    BY <1>2, <1>3, <2>1 DEF ToSet
<1>8. Entered' = Entered \ {switching.ip}
  BY <1>6, <1>7 DEF Entered
<1> QED
  BY <1>1, <1>5, <1>6, <1>8 DEF AInv

\* Every step keeps list and switch in step.
LEMMA NextAcl ==
    ASSUME Obedient, IInv, AInv, [Next]_vars
    PROVE  AInv'
<1>1. CASE Boot
  BY <1>1, EntriesKept DEF Boot
<1>2. CASE Halt
  BY <1>2 DEF Halt, Obedient
<1>3. CASE MainStep \/ Attach \/ Detach
  BY <1>3, EntriesKept
  DEF MainStep, OnCreate, OnFound, OnDelete, Unlist, OnSetStat, OnRegister, OnSetIP,
      Attach, Detach, aside
<1>4. CASE AnalyzerStep
  BY <1>4, EntriesKept DEF AnalyzerStep, ProbeBegin, Scan, ProbeEnd, aside
<1>5. CASE DetectorStep
  BY <1>5, OnSetControlAcl, AddEntryAcl, ApplyAcl, RemoveEntryAcl DEF DetectorStep
<1>6. CASE Request
  <2>1. CASE \E id \in Ids, ip \in Ips : RequestAdd(id, ip) \/ RequestSetIP(id, ip)
    BY <2>1, EntriesKept DEF RequestAdd, RequestSetIP, Post
  <2>2. CASE \E id \in Ids : RequestDel(id) \/ RequestReset(id)
    BY <2>2, EntriesKept DEF RequestDel, RequestReset, Post, Obedient
  <2>3. CASE \E id \in Ids, policy \in {"allow", "deny"} : RequestPolicy(id, policy)
    BY <2>3 DEF RequestPolicy, Obedient
  <2> QED
    BY <1>6, <2>1, <2>2, <2>3 DEF Request
<1>7. CASE SessionStep
  BY <1>7 DEF SessionStep, SessionApply, SendReset, AInv
<1>8. CASE (\E ip \in Ips : Device(ip)) \/ UNCHANGED vars
  BY <1>8, EntriesKept DEF Device, memory, vars
<1> QED
  BY <1>1, <1>2, <1>3, <1>4, <1>5, <1>6, <1>7, <1>8 DEF Next

\* List and switch agree in every state.
LEMMA AclInvariance ==
    ASSUME Obedient
    PROVE  Spec => []AInv
<1>1. Init => AInv
  BY DEF Init, AInv, Entered, OneEach, ToSet
<1>2. IInv /\ AInv /\ [Next]_vars => AInv'
  BY NextAcl
<1> QED
  BY <1>1, <1>2, Invariance, PTL DEF Spec

\* The list and the switch agree at every moment but for the address the
\* detector is at work on, and no address has two entries: FTM_SWITCH_addAC is
\* called for an address without one only, and FTM_SWITCH_deleteAC takes out the
\* one there is.
THEOREM AclMatchesSwitchCorrect ==
    ASSUME Obedient
    PROVE  Spec => []AclMatchesSwitch
<1>1. AInv => AclMatchesSwitch
  <2>1. \A i \in DOMAIN acl : acl[i] \in ToSet(acl)
    BY DEF ToSet
  <2> QED
    BY <2>1, EnteredFound DEF AInv, OneEach, AclMatchesSwitch
<1> QED
  BY <1>1, AclInvariance, PTL

-----------------------------------------------------------------------------
(* The orders as the main thread sees them.                                *)

Order == [ip : Ips, policy : {"allow", "deny"}]
Given == InHand \o detq
GivenVars == <<Given, rules>>

\* Orders are given of addresses, and the one in hand is one of them.
LEMMA GivenType ==
    ASSUME TypeOK
    PROVE  detq \in Seq(Order) /\ InHand \in Seq(Order)
<1>1. CASE InHand = <<>>
  BY <1>1 DEF TypeOK, Order
<1>2. CASE InHand # <<>>
  <2>1. /\ switching \in Switching
        /\ InHand = <<[ip |-> switching.ip, policy |-> switching.policy]>>
    BY <1>2 DEF InHand, TypeOK
  <2>2. switching.ip \in Ips /\ switching.policy \in {"allow", "deny"}
    BY <2>1 DEF Switching
  <2> QED
    BY <2>1, <2>2 DEF TypeOK, Order
<1> QED
  BY <1>1, <1>2

\* FTM_CATCHB_onSetCCTVStat gives at most one order.
LEMMA SetStatGives ==
    ASSUME IInv, OnSetStat
    PROVE  [Switch!Next]_GivenVars
<1>1. /\ TypeOK /\ UNCHANGED <<switching, rules>>
      /\ \/ UNCHANGED detq
         \/ \E o \in Order : detq' = Append(detq, o)
  <2>1. TypeOK /\ UNCHANGED <<switching, rules>>
    BY DEF IInv, OnSetStat, aside
  <2>2. CASE ~Has(Head(inbox).id)
    BY <2>1, <2>2 DEF OnSetStat
  <2>3. CASE Has(Head(inbox).id)
    <3> DEFINE c == Get(Head(inbox).id)
               order == ControlFor(c.stat, Head(inbox).stat)
    <3>1. c.ip \in Ips
      BY <2>1, <2>3, GetFinds DEF TypeOK, Cctv
    <3>2. order \in {"none", "allow", "deny"}
      BY DEF ControlFor
    <3>3. detq' = IF order = "none" THEN detq
                  ELSE Append(detq, [ip |-> c.ip, policy |-> order])
      BY <2>3 DEF OnSetStat
    <3> HIDE DEF c, order
    <3> QED
      BY <2>1, <3>1, <3>2, <3>3 DEF Order
  <2> QED
    BY <2>2, <2>3
<1>2. InHand' = InHand
  BY <1>1 DEF InHand
<1>3. CASE UNCHANGED detq
  BY <1>1, <1>2, <1>3 DEF Given, GivenVars
<1>4. CASE \E o \in Order : detq' = Append(detq, o)
  <2>1. PICK o \in Order : detq' = Append(detq, o)
    BY <1>4
  <2>2. InHand \o Append(detq, o) = Append(InHand \o detq, o)
    BY <1>1, <2>1, GivenType, ConcatAppend
  <2>3. o.ip \in Ips /\ o.policy \in {"allow", "deny"}
        /\ o = [ip |-> o.ip, policy |-> o.policy]
    BY DEF Order
  <2>4. (InHand \o detq)' = Append(InHand \o detq, [ip |-> o.ip, policy |-> o.policy])
    BY <1>2, <2>1, <2>2, <2>3
  <2>5. Switch!Give(o.ip, o.policy)
    BY <1>1, <2>4 DEF Switch!Give
  <2> QED
    BY <2>3, <2>5 DEF Switch!Next
<1> QED
  BY <1>1, <1>3, <1>4

\* FTM_DETECTOR_onSetControl takes the order in hand, or skips it when the list,
\* and thereby the switch, has it already.
LEMMA OnSetControlGiven ==
    ASSUME IInv, AInv, OnSetControl
    PROVE  [Switch!Next]_GivenVars
<1> DEFINE m == Head(detq)
<1>0. TypeOK /\ InHand = <<>> /\ UNCHANGED rules
  BY DEF IInv, OnSetControl, InHand
<1>1. /\ detq \in Seq(Order) /\ detq # <<>> /\ detq' = Tail(detq)
      /\ m \in Order /\ Tail(detq) \in Seq(Order)
  BY <1>0, GivenType, PopType DEF OnSetControl
<1>2. InHand \o detq = detq
  BY <1>0, <1>1, ConcatEmptySeq
<1>3. /\ m.ip \in Ips /\ m.policy \in {"allow", "deny"}
      /\ m = [ip |-> m.ip, policy |-> m.policy]
  BY <1>1 DEF Order
<1>4. switching = None /\ (m.ip \in rules <=> AcPositions(m.ip) # {})
  BY <1>3, EnteredFound DEF OnSetControl, AInv
<1>5. CASE UNCHANGED switching
  <2>1. m.policy = "deny" <=> m.ip \in rules
    <3>1. \/ switching' = [step |-> "add", ip |-> m.ip, policy |-> "deny"]
          \/ switching' = [step |-> "apply", ip |-> m.ip, policy |-> "allow"]
          \/ (m.policy = "deny" <=> AcPositions(m.ip) # {})
      BY DEF OnSetControl
    <3>2. /\ [step |-> "add", ip |-> m.ip, policy |-> "deny"] # None
          /\ [step |-> "apply", ip |-> m.ip, policy |-> "allow"] # None
      BY <1>3, NoneAssumption DEF Switching
    <3> QED
      BY <1>4, <1>5, <3>1, <3>2
  <2>2. rules = IF m.policy = "deny" THEN rules \cup {m.ip} ELSE rules \ {m.ip}
    BY <2>1
  <2>3. (InHand \o detq)' = Tail(detq)
    <3>1. InHand' = <<>>
      BY <1>4, <1>5 DEF InHand
    <3> QED
      BY <1>1, <3>1, ConcatEmptySeq
  <2> HIDE DEF m
  <2>4. Switch!CarryOut
    BY <1>0, <1>1, <1>2, <2>2, <2>3 DEF Switch!CarryOut, m
  <2> QED
    BY <2>4 DEF Switch!Next
<1>6. CASE switching' # switching
  <2>1. /\ switching' \in Switching /\ switching'.step # "remove"
        /\ switching'.ip = m.ip /\ switching'.policy = m.policy
    <3>1. \/ /\ m.policy = "deny"
             /\ switching' = [step |-> "add", ip |-> m.ip, policy |-> "deny"]
          \/ /\ m.policy = "allow"
             /\ switching' = [step |-> "apply", ip |-> m.ip, policy |-> "allow"]
      BY <1>6 DEF OnSetControl
    <3> QED
      BY <1>3, <3>1 DEF Switching
  <2>2. switching' # None
    BY <2>1, NoneAssumption
  <2>3. InHand' = <<m>>
    BY <1>3, <2>1, <2>2 DEF InHand
  <2>4. (InHand \o detq)' = detq
    BY <1>1, <2>3, ConcatOne
  <2> QED
    BY <1>0, <1>2, <2>4 DEF Given, GivenVars
<1> QED
  BY <1>5, <1>6

\* FTM_SWITCH_addAC and FTM_SWITCH_deleteAC: the order in hand is carried out.
LEMMA ApplyGiven ==
    ASSUME Obedient, IInv, ApplyDeny \/ ApplyAllow
    PROVE  Switch!CarryOut
<1>1. /\ TypeOK /\ switching \in Switching /\ switching # None
      /\ switching.step = "apply" /\ UNCHANGED detq
  BY DEF IInv, TypeOK, ApplyDeny, ApplyAllow
<1>2. PICK o : o = [ip |-> switching.ip, policy |-> switching.policy]
  OBVIOUS
<1>3. InHand = <<o>> /\ o \in Order /\ detq \in Seq(Order)
  <2>1. InHand = <<o>>
    BY <1>1, <1>2 DEF InHand
  <2>2. switching.ip \in Ips /\ switching.policy \in {"allow", "deny"}
    BY <1>1 DEF Switching
  <2> QED
    BY <1>1, <1>2, <2>1, <2>2, GivenType DEF Order
<1>4. /\ InHand \o detq # <<>>
      /\ Head(InHand \o detq) = o /\ Tail(InHand \o detq) = detq
  BY <1>3, ConcatOne
<1>5. rules' = IF o.policy = "deny" THEN rules \cup {o.ip} ELSE rules \ {o.ip}
  BY <1>2 DEF ApplyDeny, ApplyAllow, SetAC, Obedient
<1>6. InHand' = <<>>
  <2>1. CASE ApplyDeny
    BY <2>1 DEF ApplyDeny, InHand
  <2>2. CASE ApplyAllow
    <3>1. switching' = [switching EXCEPT !.step = "remove"]
      BY <2>2 DEF ApplyAllow, SetAC, Obedient
    <3>2. switching'.step = "remove"
      BY <1>1, <3>1 DEF Switching
    <3> QED
      BY <3>2 DEF InHand
  <2> QED
    BY <2>1, <2>2
<1>7. (InHand \o detq)' = detq
  BY <1>1, <1>3, <1>6, ConcatEmptySeq
<1> QED
  BY <1>4, <1>5, <1>7 DEF Switch!CarryOut

\* Making and taking out an entry is the daemon's own business.
LEMMA EntryGiven ==
    ASSUME IInv, AddEntry \/ RemoveEntry
    PROVE  UNCHANGED GivenVars
<1>1. /\ switching \in Switching /\ switching # None /\ UNCHANGED <<detq, rules>>
  BY DEF IInv, TypeOK, AddEntry, RemoveEntry
<1>2. InHand' = InHand
  <2>1. CASE AddEntry
    <3>1. /\ switching.step = "add"
          /\ switching' = [switching EXCEPT !.step = "apply"]
      BY <2>1 DEF AddEntry
    <3>2. switching \in [step : {"add"}, ip : Ips, policy : {"deny"}]
      BY <1>1, <3>1 DEF Switching
    <3>3. switching' \in [step : {"apply"}, ip : {switching.ip}, policy : {"deny"}]
          /\ switching.policy = "deny"
      BY <3>1, <3>2
    <3>4. switching' \in Switching /\ switching' # None
      BY <3>2, <3>3, NoneAssumption DEF Switching
    <3> QED
      BY <1>1, <3>1, <3>3, <3>4 DEF InHand
  <2>2. CASE RemoveEntry
    BY <2>2 DEF RemoveEntry, InHand
  <2> QED
    BY <2>1, <2>2
<1> QED
  BY <1>1, <1>2 DEF Given, GivenVars

\* What leaves detector, queue and switch alone.
LEMMA GivenStays ==
    ASSUME UNCHANGED <<switching, detq, rules>>
    PROVE  UNCHANGED GivenVars
BY DEF Given, GivenVars, InHand

\* Every step is one of Orders, or invisible.
LEMMA NextGiven ==
    ASSUME Obedient, IInv, AInv, [Next]_vars
    PROVE  [Switch!Next]_GivenVars
<1>1. CASE Boot
  BY <1>1, GivenStays DEF Boot
<1>2. CASE Halt
  BY <1>2 DEF Halt, Obedient
<1>3. CASE OnSetStat
  BY <1>3, SetStatGives
<1>4. CASE (MainStep /\ ~OnSetStat) \/ Attach \/ Detach
  BY <1>4, GivenStays
  DEF MainStep, OnCreate, OnFound, OnDelete, Unlist, OnRegister, OnSetIP, Attach, Detach, aside
<1>5. CASE AnalyzerStep
  BY <1>5, GivenStays DEF AnalyzerStep, ProbeBegin, Scan, ProbeEnd, aside
<1>6. CASE DetectorStep
  <2>1. CASE ApplyDeny \/ ApplyAllow
    BY <2>1, ApplyGiven DEF Switch!Next
  <2> QED
    BY <1>6, <2>1, OnSetControlGiven, EntryGiven DEF DetectorStep
<1>7. CASE Request
  <2>1. CASE \E id \in Ids, ip \in Ips : RequestAdd(id, ip) \/ RequestSetIP(id, ip)
    BY <2>1, GivenStays DEF RequestAdd, RequestSetIP, Post
  <2>2. CASE \E id \in Ids : RequestDel(id) \/ RequestReset(id)
    BY <2>2, GivenStays DEF RequestDel, RequestReset, Post, Obedient
  <2>3. CASE \E id \in Ids, policy \in {"allow", "deny"} : RequestPolicy(id, policy)
    BY <2>3 DEF RequestPolicy, Obedient
  <2> QED
    BY <1>7, <2>1, <2>2, <2>3 DEF Request
<1>8. CASE SessionStep
  BY <1>8 DEF SessionStep, SessionApply, SendReset, AInv
<1>9. CASE (\E ip \in Ips : Device(ip)) \/ UNCHANGED vars
  BY <1>9, GivenStays DEF Device, memory, vars
<1> QED
  BY <1>1, <1>2, <1>3, <1>4, <1>5, <1>6, <1>7, <1>8, <1>9 DEF Next

\* What the main thread tells the detector reaches the switch, order by order,
\* once each: FTM_DETECTOR_onSetControl skips none that the switch still needs.
\* (That each is carried out in the end is checked as ImplementsOrders.)
THEOREM OrdersRefinement ==
    ASSUME Obedient
    PROVE  Spec => Switch!Spec
<1>1. Init => Switch!Init
  <2> SUFFICES ASSUME Init PROVE Switch!Init
    OBVIOUS
  <2>1. InHand = <<>> /\ detq = <<>> /\ rules = {}
    BY DEF Init, InHand
  <2>2. InHand \o detq = <<>>
    BY <2>1, EmptySeq, ConcatEmptySeq
  <2> QED
    BY <2>1, <2>2 DEF Switch!Init
<1>2. IInv /\ AInv /\ [Next]_vars => [Switch!Next]_GivenVars
  BY NextGiven
<1> QED
  BY <1>1, <1>2, Invariance, AclInvariance, PTL
  DEF Spec, Switch!Spec, Switch!vars, Given, GivenVars

-----------------------------------------------------------------------------
(* What is blocked has been convicted.                                     *)

\* Each ID has one address: home.  The rows of the first start have it ...
Homes(home) == \A d \in InitDb : \A id \in DOMAIN d : d[id].ip = home[id]

\* ... and operators ask for no other.
AtHome(home) ==
    \A m \in ToSet(inbox) : m.type \in {"create", "setIP"} => m.ip = home[m.id]

\* A camera is at home, and abnormal after a conviction only.
CamsBlamed(home) ==
    \A c \in Cams : c.ip = home[c.id] /\ (c.stat = "abnormal" => c.ip \in convicted)
RowsBlamed(home) == \A id \in DOMAIN db : db[id].ip = home[id]
\* What the probe has seen is the camera's.
ProbeBlamed(home) ==
    probe # None /\ probe.hash # NoHash => probe.hash[1] = home[probe.id]
\* A finding that is still on its way goes with a conviction that has been made.
MsgBlamed(home, m) ==
    /\ m.type = "found" => m.ip = home[m.id]
    /\ m.type = "setStat" /\ m.stat = "abnormal" => home[m.id] \in convicted
MsgsBlamed(home) == \A m \in ToSet(inbox) : MsgBlamed(home, m)
\* A session only frees.
SwitchBlamed == OnlyConvictedBlocked /\ (session # None => session.policy = "allow")

CInv(home) ==
    CamsBlamed(home) /\ RowsBlamed(home) /\ ProbeBlamed(home) /\ MsgsBlamed(home) /\ SwitchBlamed

\* What takes messages and cameras away at most.
LEMMA BlameKept ==
    ASSUME NEW home, CInv(home), Cams' \subseteq Cams, ToSet(inbox') \subseteq ToSet(inbox),
           UNCHANGED <<db, probe, session, switching, rules, detq, convicted>>
    PROVE  CInv(home)'
<1>1. CamsBlamed(home)' /\ RowsBlamed(home)' /\ ProbeBlamed(home)' /\ MsgsBlamed(home)'
  BY DEF CInv, CamsBlamed, RowsBlamed, ProbeBlamed, MsgsBlamed, MsgBlamed
<1>2. SwitchBlamed'
  BY DEF CInv, SwitchBlamed, OnlyConvictedBlocked
<1> QED
  BY <1>1, <1>2 DEF CInv

\* A handler of the main thread: what it does to cameras, rows and orders.
LEMMA HandlerBlame ==
    ASSUME NEW home, IInv, CInv(home), inbox # <<>>, inbox' = Tail(inbox),
           UNCHANGED <<probe, session, switching, rules, convicted>>,
           CamsBlamed(home)', RowsBlamed(home)',
           \/ UNCHANGED detq
           \/ \E o \in [ip : Ips, policy : {"allow", "deny"}] :
                 detq' = Append(detq, o) /\ (o.policy = "deny" => o.ip \in convicted)
    PROVE  CInv(home)'
<1>1. ToSet(inbox') \subseteq ToSet(inbox)
  BY TailSet DEF IInv, TypeOK
<1>2. ProbeBlamed(home)' /\ MsgsBlamed(home)'
  BY <1>1 DEF CInv, ProbeBlamed, MsgsBlamed, MsgBlamed
<1>3. \A i \in DOMAIN detq' : detq'[i].policy = "deny" => detq'[i].ip \in convicted
  <2>1. CASE UNCHANGED detq
    BY <2>1 DEF CInv, SwitchBlamed, OnlyConvictedBlocked
  <2>2. CASE ~UNCHANGED detq
    <3>1. PICK o \in [ip : Ips, policy : {"allow", "deny"}] :
             detq' = Append(detq, o) /\ (o.policy = "deny" => o.ip \in convicted)
      BY <2>2
    <3>2. \A x \in ToSet(detq') : x \in ToSet(detq) \/ x = o
      <4> DEFINE Os == [ip : Ips, policy : {"allow", "deny"}]
      <4>1. detq \in Seq(Os) /\ o \in Os
        BY DEF IInv, TypeOK
      <4> HIDE DEF Os
      <4>2. ToSet(Append(detq, o)) = ToSet(detq) \cup {o}
        BY <4>1, AppendSet
      <4> QED
        BY <3>1, <4>2
    <3>3. \A x \in ToSet(detq) : x.policy = "deny" => x.ip \in convicted
      BY DEF CInv, SwitchBlamed, OnlyConvictedBlocked, ToSet
    <3>4. \A x \in ToSet(detq') : x.policy = "deny" => x.ip \in convicted
      BY <3>1, <3>2, <3>3
    <3> QED
      BY <3>4 DEF ToSet
  <2> QED
    BY <2>1, <2>2
<1>4. SwitchBlamed'
  BY <1>3 DEF CInv, SwitchBlamed, OnlyConvictedBlocked
<1> QED
  BY <1>2, <1>4 DEF CInv

\* FTM_CATCHB_onCreateCCTV: the camera is where the operator says.
LEMMA OnCreateBlame ==
    ASSUME NEW home, IInv, AtHome(home), CInv(home), OnCreate
    PROVE  CInv(home)'
<1> DEFINE m == Head(inbox)
           c == [id |-> m.id, ip |-> m.ip, hash |-> NoHash, stat |-> "unregistered"]
<1>1. /\ inbox \in Seq(Msg) /\ inbox # <<>> /\ inbox' = Tail(inbox) /\ m.type = "create"
      /\ cctvs \in Seq(Cctv)
      /\ UNCHANGED <<probe, session, switching, rules, convicted, detq>>
  BY DEF IInv, TypeOK, OnCreate, Idle, Pop, aside
<1>2. m \in Msg /\ m.ip = home[m.id]
  <2>1. m \in Msg /\ m \in ToSet(inbox)
    BY <1>1, PopType, TailSet
  <2> QED
    BY <1>1, <2>1 DEF AtHome
<1>3. CASE /\ cctvs' = Append(cctvs, c)
           /\ db' = [i \in DOMAIN db \cup {m.id} |->
                       IF i = m.id THEN [ip |-> m.ip, hash |-> NoHash] ELSE db[i]]
  <2>1. c \in Cctv /\ c.id = m.id /\ c.ip = m.ip /\ c.stat = "unregistered"
    BY <1>1, <1>2, MsgFields DEF Cctv, Stats
  <2>2. RowsBlamed(home)'
    BY <1>2, <1>3 DEF CInv, RowsBlamed
  <2> HIDE DEF c
  <2>3. Cams' = Cams \cup {c}
    BY <1>1, <1>3, <2>1, AppendSet DEF Cams
  <2>4. CamsBlamed(home)'
    BY <1>1, <1>2, <2>1, <2>3 DEF CInv, CamsBlamed
  <2> QED
    BY <1>1, <2>2, <2>4, HandlerBlame
<1>4. CASE UNCHANGED <<cctvs, db>>
  <2>1. CamsBlamed(home)' /\ RowsBlamed(home)'
    BY <1>1, <1>4 DEF CInv, CamsBlamed, RowsBlamed, Cams
  <2> QED
    BY <1>1, <2>1, HandlerBlame
<1> QED
  BY <1>3, <1>4 DEF OnCreate

\* FTM_CATCHB_onFoundCCTVInDB: where its row says, and not yet abnormal.
LEMMA OnFoundBlame ==
    ASSUME NEW home, IInv, CInv(home), OnFound
    PROVE  CInv(home)'
<1> DEFINE m == Head(inbox)
           c == [id |-> m.id, ip |-> m.ip, hash |-> m.hash,
                 stat |-> IF m.hash = NoHash THEN "unregistered" ELSE "unused"]
<1>1. /\ inbox \in Seq(Msg) /\ inbox # <<>> /\ inbox' = Tail(inbox) /\ m.type = "found"
      /\ cctvs \in Seq(Cctv) /\ cctvs' = Append(cctvs, c)
      /\ UNCHANGED <<probe, session, switching, rules, convicted, detq, db>>
  BY DEF IInv, TypeOK, OnFound, Idle, Pop, aside
<1>2. m \in Msg /\ m.ip = home[m.id]
  <2>1. m \in Msg /\ m \in ToSet(inbox)
    BY <1>1, PopType, TailSet
  <2> QED
    BY <1>1, <2>1 DEF CInv, MsgsBlamed, MsgBlamed
<1>3. c \in Cctv /\ c.id = m.id /\ c.ip = m.ip /\ c.stat # "abnormal"
  BY <1>1, <1>2, MsgFields DEF Cctv, Stats
<1> HIDE DEF c
<1>4. Cams' = Cams \cup {c}
  BY <1>1, <1>3, AppendSet DEF Cams
<1>5. CamsBlamed(home)' /\ RowsBlamed(home)'
  BY <1>1, <1>2, <1>3, <1>4 DEF CInv, CamsBlamed, RowsBlamed
<1> QED
  BY <1>1, <1>5, HandlerBlame

\* FTM_CATCHB_onDeleteCCTV.
LEMMA DeleteBlame ==
    ASSUME NEW home, IInv, UInv, CInv(home), OnDelete \/ Unlist
    PROVE  CInv(home)'
<1>1. CASE OnDelete
  <2>1. /\ Cams' = Cams /\ ToSet(inbox') \subseteq ToSet(inbox)
        /\ UNCHANGED <<db, probe, session, switching, rules, detq, convicted>>
    BY <1>1, TailSet DEF IInv, TypeOK, OnDelete, Idle, Pop, Cams, aside
  <2> QED
    BY <2>1, BlameKept
<1>2. CASE Unlist
  <2>1. /\ cctvs \in Seq(Cctv) /\ Has(main.id) /\ cctvs' = RemoveAt(cctvs, Pos(main.id))
        /\ UNCHANGED <<inbox, probe, session, switching, rules, detq, convicted>>
    BY <1>2 DEF IInv, TypeOK, MainKnown, Unlist, aside
  <2>2. Cams' \subseteq Cams
    BY <2>1, RemoveCams DEF UInv
  <2>3. RowsBlamed(home)'
    BY <1>2 DEF CInv, RowsBlamed, Unlist
  <2>4. CamsBlamed(home)' /\ ProbeBlamed(home)' /\ MsgsBlamed(home)' /\ SwitchBlamed'
    BY <2>1, <2>2
    DEF CInv, CamsBlamed, ProbeBlamed, MsgsBlamed, MsgBlamed, SwitchBlamed, OnlyConvictedBlocked
  <2> QED
    BY <2>3, <2>4 DEF CInv
<1> QED
  BY <1>1, <1>2

\* FTM_CATCHB_onSetCCTVStat: a denial goes out for a convicted address only, the
\* one a reset sends again included.
LEMMA OnSetStatBlame ==
    ASSUME NEW home, IInv, UInv, CInv(home), OnSetStat
    PROVE  CInv(home)'
<1> DEFINE m == Head(inbox)
           c == Get(m.id)
           order == ControlFor(c.stat, m.stat)
           changed == [c EXCEPT !.stat = m.stat,
                                !.hash = IF m.stat = "unregistered" THEN NoHash ELSE @]
<1>1. /\ inbox \in Seq(Msg) /\ inbox # <<>> /\ inbox' = Tail(inbox) /\ m.type = "setStat"
      /\ cctvs \in Seq(Cctv)
      /\ UNCHANGED <<probe, session, switching, rules, convicted, db>>
  BY DEF IInv, TypeOK, OnSetStat, Idle, Pop, aside
<1>2. m \in Msg /\ m.stat \in Stats /\ (m.stat = "abnormal" => home[m.id] \in convicted)
  <2>1. m \in Msg /\ m \in ToSet(inbox)
    BY <1>1, PopType, TailSet
  <2> QED
    BY <1>1, <2>1, MsgFields DEF CInv, MsgsBlamed, MsgBlamed
<1>3. RowsBlamed(home)'
  BY <1>1 DEF CInv, RowsBlamed
<1>4. CASE ~Has(m.id)
  <2>1. UNCHANGED <<cctvs, detq>>
    BY <1>4 DEF OnSetStat
  <2>2. CamsBlamed(home)'
    BY <1>1, <2>1 DEF CInv, CamsBlamed, Cams
  <2> QED
    BY <1>1, <1>3, <2>1, <2>2, HandlerBlame
<1>5. CASE Has(m.id)
  <2>1. c \in Cctv /\ c.id = m.id /\ c \in Cams
    BY <1>1, <1>5, GetFinds DEF Cams, ToSet
  <2>2. /\ cctvs' = [cctvs EXCEPT ![Pos(m.id)] = changed]
        /\ detq' = IF order = "none" THEN detq
                   ELSE Append(detq, [ip |-> c.ip, policy |-> order])
    BY <1>5 DEF OnSetStat
  <2>3. /\ changed \in Cctv /\ changed.id = m.id /\ changed.ip = c.ip
        /\ changed.stat = m.stat
    BY <1>2, <2>1 DEF Cctv
  <2>4. c.ip = home[m.id] /\ (c.stat = "abnormal" => c.ip \in convicted)
    <3> HIDE DEF c, m
    <3> QED
      BY <2>1 DEF CInv, CamsBlamed
  <2>5. order \in {"allow", "deny", "none"} /\ (order = "deny" => c.ip \in convicted)
    <3> HIDE DEF c, m
    <3>1. order = "deny" => m.stat = "abnormal" \/ c.stat = "abnormal"
      BY DEF ControlFor
    <3>2. order \in {"allow", "deny", "none"}
      BY DEF ControlFor
    <3> HIDE DEF order
    <3> QED
      BY <1>2, <2>4, <3>1, <3>2
  <2>6. CamsBlamed(home)'
    <3>1. \A d \in Cams' : d = changed \/ d \in Cams
      <4> HIDE DEF changed, m
      <4> QED
        BY <1>1, <1>5, <2>2, <2>3, ChangeCams DEF UInv
    <3> HIDE DEF changed, m, c
    <3> QED
      BY <1>1, <1>2, <2>3, <2>4, <3>1 DEF CInv, CamsBlamed
  <2>7. \/ UNCHANGED detq
        \/ \E o \in [ip : Ips, policy : {"allow", "deny"}] :
              detq' = Append(detq, o) /\ (o.policy = "deny" => o.ip \in convicted)
    <3>1. CASE order = "none"
      BY <2>2, <3>1
    <3>2. CASE order # "none"
      <4>1. PICK o : o = [ip |-> c.ip, policy |-> order]
        OBVIOUS
      <4>2. o \in [ip : Ips, policy : {"allow", "deny"}] /\ o.ip = c.ip /\ o.policy = order
        BY <2>1, <2>5, <3>2, <4>1 DEF Cctv
      <4>3. detq' = Append(detq, o)
        BY <2>2, <3>2, <4>1
      <4> HIDE DEF c, order
      <4> QED
        BY <2>5, <4>2, <4>3
    <3> QED
      BY <3>1, <3>2
  <2> HIDE DEF m, c, order, changed
  <2> QED
    BY <1>1, <1>3, <2>6, <2>7, HandlerBlame
<1> QED
  BY <1>4, <1>5

\* FTM_CATCHB_onRegisterCCTV, FTM_CATCHB_onSetCCTVProperties: the address is home.
LEMMA OnUpdateBlame ==
    ASSUME NEW home, IInv, UInv, AtHome(home), CInv(home), OnRegister \/ OnSetIP
    PROVE  CInv(home)'
<1> DEFINE m == Head(inbox)
           c == Get(m.id)
<1>1. /\ inbox \in Seq(Msg) /\ inbox # <<>> /\ inbox' = Tail(inbox) /\ cctvs \in Seq(Cctv)
      /\ UNCHANGED <<probe, session, switching, rules, convicted, detq>>
  BY DEF IInv, TypeOK, OnRegister, OnSetIP, Idle, Pop, aside
<1>2. m \in Msg /\ m \in ToSet(inbox)
  BY <1>1, PopType, TailSet
<1>3. CASE ~Has(m.id)
  <2>1. UNCHANGED <<cctvs, db>>
    BY <1>3 DEF OnRegister, OnSetIP
  <2>2. CamsBlamed(home)' /\ RowsBlamed(home)'
    BY <1>1, <2>1 DEF CInv, CamsBlamed, RowsBlamed, Cams
  <2> QED
    BY <1>1, <2>2, HandlerBlame
<1>4. CASE Has(m.id)
  <2>1. /\ c \in Cctv /\ c.id = m.id /\ c \in Cams
        /\ c = cctvs[Pos(m.id)] /\ Pos(m.id) \in 1..Len(cctvs)
    BY <1>1, <1>4, GetFinds DEF Cams, ToSet
  <2>2. c.ip = home[m.id] /\ (c.stat = "abnormal" => c.ip \in convicted)
    <3> HIDE DEF c, m
    <3> QED
      BY <2>1 DEF CInv, CamsBlamed
  <2>3. \E d \in Cctv : /\ d.id = m.id /\ d.ip = c.ip /\ d.stat = c.stat
                        /\ cctvs' = [cctvs EXCEPT ![Pos(m.id)] = d]
                        /\ RowsBlamed(home)'
    <3>1. CASE OnRegister
      <4>1. m.hash \in Hashes
        BY <1>2, <3>1, MsgFields DEF OnRegister
      <4>2. PICK d : d = [c EXCEPT !.hash = m.hash]
        OBVIOUS
      <4>3. d \in Cctv /\ d.id = m.id /\ d.ip = c.ip /\ d.stat = c.stat
        BY <2>1, <4>1, <4>2 DEF Cctv
      <4>4. cctvs' = [cctvs EXCEPT ![Pos(m.id)] = d] /\ Update(m.id, "hash", m.hash)
        BY <1>4, <2>1, <3>1, <4>2 DEF OnRegister
      <4>5. RowsBlamed(home)'
        <5>1. \A i \in DOMAIN db : [db[i] EXCEPT !["hash"] = m.hash].ip = db[i].ip
          BY DEF IInv, TypeOK, Row
        <5> QED
          BY <4>4, <5>1 DEF CInv, RowsBlamed, Update
      <4> QED
        BY <4>3, <4>4, <4>5
    <3>2. CASE OnSetIP
      <4>1. m.ip \in Ips /\ m.ip = home[m.id]
        BY <1>2, <3>2, MsgFields DEF OnSetIP, AtHome
      <4>2. PICK d : d = [c EXCEPT !.ip = m.ip]
        OBVIOUS
      <4>3. d \in Cctv /\ d.id = m.id /\ d.ip = c.ip /\ d.stat = c.stat
        BY <2>1, <2>2, <4>1, <4>2 DEF Cctv
      <4>4. cctvs' = [cctvs EXCEPT ![Pos(m.id)] = d] /\ Update(m.id, "ip", m.ip)
        BY <1>4, <2>1, <3>2, <4>2 DEF OnSetIP
      <4>5. RowsBlamed(home)'
        <5>1. \A i \in DOMAIN db : [db[i] EXCEPT !["ip"] = m.ip].ip = m.ip
          BY DEF IInv, TypeOK, Row
        <5> HIDE DEF m
        <5> QED
          BY <4>1, <4>4, <5>1 DEF CInv, RowsBlamed, Update
      <4> QED
        BY <4>3, <4>4, <4>5
    <3> QED
      BY <3>1, <3>2
  <2>4. PICK d \in Cctv : /\ d.id = m.id /\ d.ip = c.ip /\ d.stat = c.stat
                          /\ cctvs' = [cctvs EXCEPT ![Pos(m.id)] = d]
                          /\ RowsBlamed(home)'
    BY <2>3
  <2>5. CamsBlamed(home)'
    <3>1. \A e \in Cams' : e = d \/ e \in Cams
      <4> HIDE DEF m
      <4> QED
        BY <1>1, <1>4, <2>4, ChangeCams DEF UInv
    <3> HIDE DEF m, c
    <3> QED
      BY <1>1, <2>2, <2>4, <3>1 DEF CInv, CamsBlamed
  <2> QED
    BY <1>1, <2>4, <2>5, HandlerBlame
<1> QED
  BY <1>3, <1>4

\* FTM_ANALYZER_process: what is seen is the device at the camera's address.
LEMMA ScanBlame ==
    ASSUME NEW home, IInv, CInv(home), ProbeBegin \/ Scan
    PROVE  CInv(home)'
<1>1. UNCHANGED <<cctvs, inbox, db, session, switching, rules, detq, convicted>>
  BY DEF ProbeBegin, Scan, aside
<1>2. ProbeBlamed(home)'
  <2>1. CASE ProbeBegin
    BY <2>1 DEF ProbeBegin, ProbeBlamed
  <2>2. CASE Scan
    <3>1. probe \in Probe /\ Has(probe.id) /\ cctvs \in Seq(Cctv)
      BY <2>2 DEF Scan, IInv, TypeOK, ProbedExists
    <3>2. Get(probe.id) \in Cams /\ Get(probe.id).id = probe.id
      BY <3>1, GetFinds DEF Cams, ToSet
    <3>3. Get(probe.id).ip = home[probe.id]
      BY <3>2 DEF CInv, CamsBlamed
    <3>4. probe'.id = probe.id /\ probe'.hash = Fingerprint(Get(probe.id).ip)
      BY <2>2, <3>1 DEF Scan, Probe
    <3>5. probe'.hash[1] = Get(probe.id).ip
      BY <3>4 DEF Fingerprint
    <3> QED
      BY <3>3, <3>4, <3>5 DEF ProbeBlamed
  <2> QED
    BY <2>1, <2>2
<1>3. CamsBlamed(home)' /\ RowsBlamed(home)' /\ MsgsBlamed(home)'
  BY <1>1 DEF CInv, CamsBlamed, RowsBlamed, MsgsBlamed, MsgBlamed, Cams
<1>4. SwitchBlamed'
  BY <1>1 DEF CInv, SwitchBlamed, OnlyConvictedBlocked
<1> QED
  BY <1>2, <1>3, <1>4 DEF CInv

\* The report of a wrong fingerprint is a conviction.
LEMMA ProbeEndBlame ==
    ASSUME NEW home, IInv, CInv(home), ProbeEnd
    PROVE  CInv(home)'
<1> DEFINE c == Get(probe.id)
           report == Report(c)
<1>1. /\ probe # None /\ Has(probe.id) /\ Scanned /\ cctvs \in Seq(Cctv)
      /\ probe' = None /\ inbox' = inbox \o report /\ inbox \in Seq(Msg)
      /\ UNCHANGED <<cctvs, db, session, switching, rules, detq>>
  BY DEF IInv, TypeOK, ProbedExists, ProbeEnd, Scanned, aside
<1>2. c \in Cctv /\ c.id = probe.id
  BY <1>1, GetFinds
<1>3. report \in Seq(Msg)
  BY <1>1, <1>2, ReportType DEF IInv
<1>4. convicted \subseteq convicted'
  BY DEF ProbeEnd
<1>5. ASSUME NEW m \in ToSet(report)
      PROVE  MsgBlamed(home, m)'
  <2>1. PICK i \in DOMAIN report : m = report[i]
    BY <1>5 DEF ToSet
  <2>2. CASE m.type = "setStat" /\ m.stat = "abnormal"
    <3>1. probe.hash[1] \in convicted'
      BY <2>1, <2>2 DEF ProbeEnd
    <3>2. probe.replied /\ m.id = c.id
      BY <2>1, <2>2 DEF Report
    <3>3. probe.hash[1] = home[probe.id]
      BY <1>1, <3>2 DEF Scanned, CInv, ProbeBlamed
    <3> QED
      BY <1>2, <2>2, <3>1, <3>2, <3>3 DEF MsgBlamed
  <2>3. CASE ~(m.type = "setStat" /\ m.stat = "abnormal")
    <3>1. m.type # "found"
      BY <2>1 DEF Report
    <3> QED
      BY <2>3, <3>1 DEF MsgBlamed
  <2> QED
    BY <2>2, <2>3
<1> HIDE DEF report
<1>6. ToSet(inbox') = ToSet(inbox) \cup ToSet(report)
  BY <1>1, <1>3, ConcatSet
<1>7. MsgsBlamed(home)'
  <2>1. \A m \in ToSet(report) : MsgBlamed(home, m)'
    BY <1>5 DEF report
  <2>2. \A m \in ToSet(inbox) : MsgBlamed(home, m)'
    BY <1>4 DEF CInv, MsgsBlamed, MsgBlamed
  <2> QED
    BY <1>6, <2>1, <2>2 DEF MsgsBlamed
<1>8. CamsBlamed(home)' /\ RowsBlamed(home)' /\ ProbeBlamed(home)'
  BY <1>1, <1>4 DEF CInv, CamsBlamed, RowsBlamed, ProbeBlamed, Cams
<1>9. SwitchBlamed'
  BY <1>1, <1>4 DEF CInv, SwitchBlamed, OnlyConvictedBlocked
<1> QED
  BY <1>7, <1>8, <1>9 DEF CInv

\* What the detector and the sessions do.
LEMMA SwitchBlame ==
    ASSUME "policy" \notin Ops, NEW home, IInv, CInv(home),
           \/ DetectorStep \/ SessionApply
           \/ \E id \in Ids : RequestReset(id)
    PROVE  CInv(home)'
<1>1. UNCHANGED <<cctvs, inbox, db, probe, convicted>>
  BY DEF DetectorStep, OnSetControl, AddEntry, ApplyDeny, ApplyAllow, RemoveEntry,
         SessionApply, RequestReset, core
<1>2. CamsBlamed(home)' /\ RowsBlamed(home)' /\ ProbeBlamed(home)' /\ MsgsBlamed(home)'
  BY <1>1 DEF CInv, CamsBlamed, RowsBlamed, ProbeBlamed, MsgsBlamed, MsgBlamed, Cams
<1>3. SwitchBlamed'
  <2> USE DEF SwitchBlamed, OnlyConvictedBlocked
  <2>1. SwitchBlamed
    BY DEF CInv
  <2>2. CASE OnSetControl
    <3>1. detq # <<>> /\ detq' = Tail(detq) /\ UNCHANGED <<session, rules>>
      BY <2>2 DEF OnSetControl
    <3>2. \A o \in ToSet(detq) : o.policy = "deny" => o.ip \in convicted
      BY <2>1 DEF ToSet
    <3>3. Head(detq) \in ToSet(detq) /\ ToSet(detq') \subseteq ToSet(detq)
      BY <3>1, TailSet DEF IInv, TypeOK
    <3>4. \A i \in DOMAIN detq' : detq'[i] \in ToSet(detq)
      BY <3>3 DEF ToSet
    <3>5. \/ UNCHANGED switching
          \/ switching'.policy = "allow"
          \/ Head(detq).policy = "deny" /\ switching'.ip = Head(detq).ip
      BY <2>2 DEF OnSetControl
    <3> QED
      BY <1>1, <2>1, <3>1, <3>2, <3>3, <3>4, <3>5
  <2>3. CASE AddEntry
    <3>1. switching \in Switching /\ switching' = [switching EXCEPT !.step = "apply"]
          /\ switching # None /\ UNCHANGED <<session, detq, rules>>
      BY <2>3 DEF AddEntry, IInv, TypeOK
    <3>2. switching'.ip = switching.ip /\ switching'.policy = switching.policy
      BY <3>1 DEF Switching
    <3> QED
      BY <1>1, <2>1, <3>1, <3>2
  <2>4. CASE ApplyDeny
    <3>1. rules' \subseteq rules \cup {switching.ip} /\ switching' = None
          /\ switching.ip \in convicted /\ UNCHANGED <<session, detq>>
      BY <2>1, <2>4 DEF ApplyDeny, SetAC
    <3> QED
      BY <1>1, <2>1, <3>1
  <2>5. CASE ApplyAllow
    <3>1. switching \in Switching /\ switching # None /\ switching.policy = "allow"
          /\ UNCHANGED <<session, detq>> /\ rules' \subseteq rules
      BY <2>5 DEF ApplyAllow, SetAC, IInv, TypeOK
    <3>2. switching' = None \/ switching'.policy = "allow"
      BY <2>5, <3>1 DEF ApplyAllow, SetAC, Switching
    <3> QED
      BY <1>1, <2>1, <3>1, <3>2
  <2>6. CASE RemoveEntry
    BY <1>1, <2>1, <2>6 DEF RemoveEntry
  <2>7. CASE SessionApply
    <3>1. session \in Session /\ session.policy = "allow" /\ UNCHANGED <<switching, detq>>
      BY <2>1, <2>7 DEF SessionApply, IInv, TypeOK
    <3>2. rules' \subseteq rules
      BY <2>7, <3>1 DEF SessionApply, SetAC
    <3>3. session' # None => session'.policy = "allow"
      BY <2>7, <3>1 DEF SessionApply, Session
    <3> QED
      BY <1>1, <2>1, <3>1, <3>2, <3>3
  <2>8. CASE \E id \in Ids : RequestReset(id)
    <3>1. session'.policy = "allow" /\ UNCHANGED <<switching, detq, rules>>
      BY <2>8 DEF RequestReset
    <3> QED
      BY <1>1, <2>1, <3>1
  <2> QED
    BY <2>2, <2>3, <2>4, <2>5, <2>6, <2>7, <2>8 DEF DetectorStep
<1> QED
  BY <1>2, <1>3 DEF CInv

\* An operator's message convicts nobody.
LEMMA PostBlame ==
    ASSUME NEW home, IInv, CInv(home), NEW m \in Msg, Post(m), MsgBlamed(home, m),
           UNCHANGED session \/ session' = None
    PROVE  CInv(home)'
<1>1. /\ inbox \in Seq(Msg) /\ inbox' = Append(inbox, m)
      /\ UNCHANGED <<cctvs, db, probe, switching, rules, detq, convicted>>
  BY DEF Post, IInv, TypeOK
<1>2. ToSet(inbox') = ToSet(inbox) \cup {m}
  BY <1>1, AppendSet
<1>3. CamsBlamed(home)' /\ RowsBlamed(home)' /\ ProbeBlamed(home)'
  BY <1>1 DEF CInv, CamsBlamed, RowsBlamed, ProbeBlamed, Cams
<1>4. MsgsBlamed(home)'
  BY <1>1, <1>2 DEF CInv, MsgsBlamed, MsgBlamed
<1>5. SwitchBlamed'
  BY <1>1 DEF CInv, SwitchBlamed, OnlyConvictedBlocked
<1> QED
  BY <1>3, <1>4, <1>5 DEF CInv

\* The process starts with what the table says, and ends with what the switch does.
LEMMA ProcessBlame ==
    ASSUME NEW home, IInv, UInv, CInv(home), Boot \/ Halt
    PROVE  CInv(home)'
<1>1. CASE Boot
  <2>1. PICK s \in SetToSeqs(DOMAIN db) : inbox' = [i \in DOMAIN s |-> FoundMsg(s[i])]
    BY <1>1 DEF Boot
  <2>2. \A i \in DOMAIN s : s[i] \in DOMAIN db
    BY DEF SetToSeqs
  <2>3. \A m \in ToSet(inbox') : \E id \in DOMAIN db : m = FoundMsg(id)
    BY <2>1, <2>2 DEF ToSet
  <2>4. \A id \in DOMAIN db : MsgBlamed(home, FoundMsg(id))
    BY DEF CInv, RowsBlamed, MsgBlamed, FoundMsg
  <2>5. UNCHANGED <<cctvs, db, probe, session, switching, rules, detq, convicted>>
    BY <1>1 DEF Boot
  <2>6. MsgsBlamed(home)'
    BY <2>3, <2>4, <2>5 DEF MsgsBlamed, MsgBlamed
  <2>7. CamsBlamed(home)' /\ RowsBlamed(home)' /\ ProbeBlamed(home)'
    BY <2>5 DEF CInv, CamsBlamed, RowsBlamed, ProbeBlamed, Cams
  <2>8. SwitchBlamed'
    BY <2>5 DEF CInv, SwitchBlamed, OnlyConvictedBlocked
  <2> QED
    BY <2>6, <2>7, <2>8 DEF CInv
<1>2. CASE Halt
  <2>1. /\ cctvs' = <<>> /\ inbox' = <<>> /\ probe' = None /\ session' = None
        /\ detq' = <<>> /\ switching' = None /\ UNCHANGED <<rules, db, convicted>>
    BY <1>2 DEF Halt
  <2>2. Cams' = {} /\ ToSet(inbox') = {}
    BY <2>1 DEF Cams, ToSet
  <2>3. CamsBlamed(home)' /\ RowsBlamed(home)' /\ ProbeBlamed(home)' /\ MsgsBlamed(home)'
    BY <2>1, <2>2 DEF CInv, CamsBlamed, RowsBlamed, ProbeBlamed, MsgsBlamed
  <2>4. SwitchBlamed'
    BY <2>1 DEF CInv, SwitchBlamed, OnlyConvictedBlocked
  <2> QED
    BY <2>3, <2>4 DEF CInv
<1> QED
  BY <1>1, <1>2

\* No step blocks what has not been convicted.
LEMMA NextBlame ==
    ASSUME "policy" \notin Ops, NEW home, IInv, UInv, AtHome(home), CInv(home), [Next]_vars
    PROVE  CInv(home)'
<1>1. ASSUME UNCHANGED <<cctvs, inbox, db, probe, session, switching, rules, detq, convicted>>
      PROVE  CInv(home)'
  BY <1>1, BlameKept DEF Cams
<1>2. CASE Boot \/ Halt
  BY <1>2, ProcessBlame
<1>3. CASE MainStep
  BY <1>3, OnCreateBlame, OnFoundBlame, DeleteBlame, OnSetStatBlame, OnUpdateBlame
  DEF MainStep
<1>4. CASE Attach \/ Detach
  BY <1>1, <1>4 DEF Attach, Detach, aside
<1>5. CASE AnalyzerStep
  BY <1>5, ScanBlame, ProbeEndBlame DEF AnalyzerStep
<1>6. CASE DetectorStep
  BY <1>6, SwitchBlame
<1>7. CASE Request
  <2>1. CASE \E id \in Ids, ip \in Ips : RequestAdd(id, ip) \/ RequestSetIP(id, ip)
    <3>1. PICK id \in Ids, ip \in Ips : RequestAdd(id, ip) \/ RequestSetIP(id, ip)
      BY <2>1
    <3>2. PICK m \in Msg : m.type \in {"create", "setIP"} /\ Post(m)
      BY <3>1 DEF RequestAdd, RequestSetIP, Msg
    <3>3. MsgBlamed(home, m) /\ UNCHANGED session
      BY <3>1, <3>2 DEF MsgBlamed, RequestAdd, RequestSetIP
    <3> QED
      BY <3>2, <3>3, PostBlame
  <2>2. CASE \E id \in Ids : RequestDel(id)
    <3>1. PICK m \in Msg : m.type = "delete" /\ Post(m)
      BY <2>2 DEF RequestDel, Msg
    <3>2. MsgBlamed(home, m) /\ UNCHANGED session
      BY <2>2, <3>1 DEF MsgBlamed, RequestDel
    <3> QED
      BY <3>1, <3>2, PostBlame
  <2>3. CASE \E id \in Ids : RequestReset(id)
    BY <2>3, SwitchBlame
  <2>4. CASE \E id \in Ids, policy \in {"allow", "deny"} : RequestPolicy(id, policy)
    BY <2>4 DEF RequestPolicy
  <2> QED
    BY <1>7, <2>1, <2>2, <2>3, <2>4 DEF Request
<1>8. CASE SessionStep
  <2>1. CASE SendReset
    <3>1. session \in Session
      BY <2>1 DEF IInv, TypeOK, SendReset
    <3>2. PICK m \in Msg : m = [type |-> "setStat", id |-> session.id, stat |-> "unregistered"]
      BY <3>1 DEF Session, Msg, Stats
    <3>3. MsgBlamed(home, m) /\ Post(m) /\ session' = None
      BY <2>1, <3>2 DEF SendReset, MsgBlamed
    <3> QED
      BY <3>3, PostBlame
  <2> QED
    BY <1>8, <2>1, SwitchBlame DEF SessionStep
<1>9. CASE (\E ip \in Ips : Device(ip)) \/ UNCHANGED vars
  BY <1>1, <1>9 DEF Device, memory, vars
<1> QED
  BY <1>2, <1>3, <1>4, <1>5, <1>6, <1>7, <1>8, <1>9 DEF Next

\* Nobody is ever blamed without a conviction.
LEMMA BlameInvariance ==
    ASSUME "policy" \notin Ops, NEW home, Homes(home)
    PROVE  Spec /\ []AtHome(home) => []CInv(home)
<1>1. Init => CInv(home)
  <2> SUFFICES ASSUME Init
               PROVE  CInv(home)
    OBVIOUS
  <2>1. Cams = {} /\ ToSet(inbox) = {}
    BY DEF Init, Cams, ToSet
  <2>2. CamsBlamed(home) /\ ProbeBlamed(home) /\ MsgsBlamed(home)
    BY <2>1 DEF Init, CamsBlamed, ProbeBlamed, MsgsBlamed
  <2>3. RowsBlamed(home)
    BY DEF Init, Homes, RowsBlamed
  <2>4. SwitchBlamed
    BY DEF Init, SwitchBlamed, OnlyConvictedBlocked
  <2> QED
    BY <2>2, <2>3, <2>4 DEF CInv
<1>2. IInv /\ UInv /\ AtHome(home) /\ CInv(home) /\ [Next]_vars => CInv(home)'
  BY NextBlame
<1> QED
  BY <1>1, <1>2, Invariance, UniqueInvariance, PTL DEF Spec

\* Every order to block, and every rule of the switch, goes back to a probe of
\* that address which saw a wrong fingerprint: through late findings, resets,
\* cameras deleted and added again, and restarts that lose what was queued.  Each
\* ID has one address, and no operator sets a policy by hand.
THEOREM OnlyConvictedBlockedCorrect ==
    ASSUME "policy" \notin Ops, NEW home, Homes(home)
    PROVE  Spec /\ []AtHome(home) => []OnlyConvictedBlocked
<1>1. CInv(home) => OnlyConvictedBlocked
  BY DEF CInv, SwitchBlamed
<1>2. Spec /\ []AtHome(home) => []CInv(home)
  BY BlameInvariance
<1> QED
  BY <1>1, <1>2, PTL

-----------------------------------------------------------------------------
(* What the switch will do.                                                *)

\* What is in force once the work of the moment is done.
InForce(ip) ==
    IF switching # None /\ switching.ip = ip THEN switching.policy = "deny" ELSE ip \in rules

\* The last order of the detector's queue for an address.
OrdersFor(ip) == {j \in DOMAIN detq : detq[j].ip = ip}
IsLastOrder(ip, j) == j \in OrdersFor(ip) /\ \A k \in OrdersFor(ip) : k <= j

\* A set of places in a list has a last one.
LEMMA LastExists ==
    ASSUME NEW n \in Nat, NEW I, I \subseteq 1..n, I # {}
    PROVE  \E i \in I : \A j \in I : j <= i
<1> DEFINE D == {n - i : i \in I}
<1>1. D \subseteq Nat /\ D # {}
  <2>1. \A i \in I : n - i \in Nat
    OBVIOUS
  <2> QED
    BY <2>1
<1>2. Least(D) \in D /\ \A d \in D : Least(D) <= d
  BY <1>1, LeastExists
<1>3. PICK i \in I : n - i = Least(D)
  BY <1>2
<1>4. \A j \in I : n - i <= n - j
  BY <1>2, <1>3
<1> QED
  BY <1>4

\* WillBlock is what the last order says, or what is in force.
Foretold(ip) ==
    /\ OrdersFor(ip) = {} => (WillBlock(ip) <=> InForce(ip))
    /\ OrdersFor(ip) # {} => \E j \in DOMAIN detq : IsLastOrder(ip, j)
    /\ \A j \in DOMAIN detq :
          IsLastOrder(ip, j) => (WillBlock(ip) <=> detq[j].policy = "deny")

\* How FTM_DETECTOR_process will leave the switch.
LEMMA WillBlockIs == TypeOK => \A ip \in Ips : Foretold(ip)
<1> SUFFICES ASSUME TypeOK, NEW ip \in Ips
             PROVE  Foretold(ip)
  OBVIOUS
<1> DEFINE J == OrdersFor(ip)
<1>1. CASE J = {}
  BY <1>1 DEF Foretold, WillBlock, InForce, OrdersFor, IsLastOrder
<1>2. CASE J # {}
  <2>1. J \subseteq 1..Len(detq) /\ Len(detq) \in Nat /\ DOMAIN detq = 1..Len(detq)
    BY DEF OrdersFor, TypeOK
  <2>2. \E j \in J : \A k \in J : k <= j
    BY <1>2, <2>1, LastExists
  <2>3. PICK j : j = CHOOSE i \in J : \A k \in J : k <= i
    OBVIOUS
  <2>4. IsLastOrder(ip, j) /\ j \in DOMAIN detq
    BY <2>1, <2>2, <2>3 DEF IsLastOrder
  <2>5. WillBlock(ip) <=> detq[j].policy = "deny"
    BY <1>2, <2>3 DEF WillBlock, OrdersFor
  <2>6. \A i \in DOMAIN detq : IsLastOrder(ip, i) => i = j
    BY <2>1, <2>4 DEF IsLastOrder
  <2> QED
    BY <1>2, <2>4, <2>5, <2>6 DEF Foretold
<1> QED
  BY <1>1, <1>2

\* The same of the next state.
LEMMA WillBlockNext == TypeOK' => (\A ip \in Ips : Foretold(ip))'
BY WillBlockIs, PTL

\* FTM_DETECTOR_setControl: a new order is the last one for its address.
LEMMA WillBlockAppend ==
    ASSUME TypeOK, TypeOK', NEW o \in [ip : Ips, policy : {"allow", "deny"}],
           detq' = Append(detq, o), UNCHANGED <<switching, rules>>, NEW ip \in Ips
    PROVE  WillBlock(ip)' <=> IF o.ip = ip THEN o.policy = "deny" ELSE WillBlock(ip)
<1> PICK n : n = Len(detq) + 1
  OBVIOUS
<1>1. /\ DOMAIN detq = 1..Len(detq) /\ DOMAIN detq' = 1..n /\ Len(detq) \in Nat
      /\ \A i \in 1..Len(detq) : detq'[i] = detq[i]
      /\ detq'[n] = o
  BY AppendProperties DEF TypeOK
<1>2. Foretold(ip) /\ Foretold(ip)'
  BY WillBlockIs, WillBlockNext
<1>3. CASE o.ip = ip
  <2>1. n \in DOMAIN detq' /\ IsLastOrder(ip, n)'
    BY <1>1, <1>3 DEF IsLastOrder, OrdersFor
  <2> QED
    BY <1>1, <1>2, <1>3, <2>1 DEF Foretold
<1>4. CASE o.ip # ip
  <2>1. OrdersFor(ip)' = OrdersFor(ip)
    BY <1>1, <1>4 DEF OrdersFor
  <2>2. CASE OrdersFor(ip) = {}
    BY <1>2, <1>4, <2>1, <2>2 DEF Foretold, InForce
  <2>3. CASE OrdersFor(ip) # {}
    <3>1. PICK j \in DOMAIN detq : IsLastOrder(ip, j)
      BY <1>2, <2>3 DEF Foretold
    <3>2. j \in DOMAIN detq' /\ IsLastOrder(ip, j)' /\ detq'[j] = detq[j]
      BY <1>1, <2>1, <3>1 DEF IsLastOrder
    <3> QED
      BY <1>2, <1>4, <3>1, <3>2 DEF Foretold
  <2> QED
    BY <2>2, <2>3
<1> QED
  BY <1>3, <1>4

\* FTM_MSGQ_timedPop: later orders for the address still decide.
LEMMA WillBlockTail ==
    ASSUME TypeOK, TypeOK', detq # <<>>, detq' = Tail(detq), NEW ip \in Ips
    PROVE  IF OrdersFor(ip)' # {} THEN WillBlock(ip)' <=> WillBlock(ip)
           ELSE IF Head(detq).ip = ip THEN WillBlock(ip) <=> Head(detq).policy = "deny"
           ELSE WillBlock(ip) <=> InForce(ip)
<1>1. /\ DOMAIN detq = 1..Len(detq) /\ DOMAIN detq' = 1..(Len(detq) - 1)
      /\ Len(detq) \in Nat \ {0}
      /\ \A i \in 1..(Len(detq) - 1) : detq'[i] = detq[i + 1]
      /\ Head(detq) = detq[1]
  BY HeadTailProperties DEF TypeOK
<1>2. Foretold(ip) /\ Foretold(ip)'
  BY WillBlockIs, WillBlockNext
<1>3. \A i \in OrdersFor(ip) : i = 1 \/ i - 1 \in OrdersFor(ip)'
  BY <1>1 DEF OrdersFor
<1>4. CASE OrdersFor(ip)' # {}
  <2>1. PICK j \in DOMAIN detq' : IsLastOrder(ip, j)'
    BY <1>2, <1>4 DEF Foretold
  <2>2. j + 1 \in DOMAIN detq /\ detq'[j] = detq[j + 1] /\ j \in Nat
    BY <1>1
  <2>3. IsLastOrder(ip, j + 1)
    <3>1. j \in OrdersFor(ip)' /\ \A k \in OrdersFor(ip)' : k <= j
      BY <2>1 DEF IsLastOrder
    <3>2. j + 1 \in OrdersFor(ip)
      BY <2>2, <3>1 DEF OrdersFor
    <3>3. ASSUME NEW k \in OrdersFor(ip)
          PROVE  k <= j + 1
      <4>1. k \in 1..Len(detq)
        BY <1>1 DEF OrdersFor
      <4>2. k = 1 \/ k - 1 <= j
        BY <1>3, <3>1
      <4> QED
        BY <1>1, <2>2, <4>1, <4>2
    <3> QED
      BY <3>2, <3>3 DEF IsLastOrder
  <2>4. WillBlock(ip)' <=> detq'[j].policy = "deny"
    BY <1>2, <2>1 DEF Foretold
  <2>5. WillBlock(ip) <=> detq[j + 1].policy = "deny"
    BY <1>2, <2>2, <2>3 DEF Foretold
  <2> QED
    BY <1>4, <2>2, <2>4, <2>5
<1>5. CASE OrdersFor(ip)' = {}
  <2>1. \A i \in OrdersFor(ip) : i = 1
    BY <1>3, <1>5
  <2>2. CASE Head(detq).ip = ip
    <3>1. 1 \in DOMAIN detq /\ IsLastOrder(ip, 1)
      BY <1>1, <2>1, <2>2 DEF IsLastOrder, OrdersFor
    <3> QED
      BY <1>1, <1>2, <1>5, <2>2, <3>1 DEF Foretold
  <2>3. CASE Head(detq).ip # ip
    <3>1. OrdersFor(ip) = {}
      BY <1>1, <2>1, <2>3 DEF OrdersFor
    <3> QED
      BY <1>2, <1>5, <2>3, <3>1 DEF Foretold
  <2> QED
    BY <2>2, <2>3
<1> QED
  BY <1>4, <1>5

\* With the queue as it is, what is in force decides.
LEMMA WillBlockInForce ==
    ASSUME TypeOK, TypeOK', UNCHANGED detq, NEW ip \in Ips, InForce(ip)' <=> InForce(ip)
    PROVE  WillBlock(ip)' <=> WillBlock(ip)
<1>1. Foretold(ip) /\ Foretold(ip)'
  BY WillBlockIs, WillBlockNext
<1>2. OrdersFor(ip)' = OrdersFor(ip) /\ \A j : IsLastOrder(ip, j)' <=> IsLastOrder(ip, j)
  BY DEF OrdersFor, IsLastOrder
<1> QED
  BY <1>1, <1>2 DEF Foretold

\* An obedient detector does nothing but what it has been told: none of its
\* steps changes what will be blocked.
LEMMA DetectorForetold ==
    ASSUME Obedient, IInv, AInv, IInv', DetectorStep, NEW ip \in Ips
    PROVE  WillBlock(ip)' <=> WillBlock(ip)
<1>1. TypeOK /\ TypeOK'
  BY DEF IInv
<1>2. CASE OnSetControl
  <2> DEFINE m == Head(detq)
  <2>1. /\ detq # <<>> /\ detq' = Tail(detq) /\ switching = None /\ UNCHANGED <<acl, rules>>
        /\ m \in [ip : Ips, policy : {"allow", "deny"}]
    BY <1>2, PopType DEF OnSetControl, IInv, TypeOK
  <2>2. \/ UNCHANGED switching /\ (m.policy = "deny" <=> m.ip \in Entered)
        \/ switching' # None /\ switching'.ip = m.ip /\ switching'.policy = m.policy
    <3>1. \A s \in Switching : s # None
      BY NoneAssumption
    <3>2. \/ UNCHANGED switching /\ (m.policy = "deny" <=> m.ip \in Entered)
          \/ /\ m.policy = "deny"
             /\ switching' = [step |-> "add", ip |-> m.ip, policy |-> "deny"]
          \/ /\ m.policy = "allow"
             /\ switching' = [step |-> "apply", ip |-> m.ip, policy |-> "allow"]
      BY <1>2, EnteredFound DEF OnSetControl
    <3> QED
      BY <2>1, <3>1, <3>2 DEF Switching
  <2>3. rules' = rules /\ (m.ip \in rules <=> m.ip \in Entered)
    BY <2>1 DEF AInv
  <2>4. InForce(ip)' <=> IF m.ip = ip THEN m.policy = "deny" ELSE InForce(ip)
    <3> HIDE DEF m
    <3> QED
      BY <2>1, <2>2, <2>3 DEF InForce
  <2>5. Foretold(ip)'
    BY <1>1, WillBlockNext
  <2> QED
    BY <1>1, <2>1, <2>4, <2>5, WillBlockTail DEF Foretold
<1>3. CASE AddEntry \/ ApplyDeny \/ ApplyAllow \/ RemoveEntry
  <2>1. UNCHANGED detq
    BY <1>3 DEF AddEntry, ApplyDeny, ApplyAllow, RemoveEntry
  <2>2. switching \in Switching /\ switching # None
    BY <1>1, <1>3 DEF AddEntry, ApplyDeny, ApplyAllow, RemoveEntry, TypeOK
  <2>3. InForce(ip)' <=> InForce(ip)
    <3>1. CASE AddEntry
      <4>1. switching' = [switching EXCEPT !.step = "apply"] /\ UNCHANGED rules
        BY <3>1 DEF AddEntry
      <4>2. switching' \in Switching /\ switching' # None
        <5>1. switching \in [step : {"add"}, ip : Ips, policy : {"deny"}]
          BY <2>2, <3>1 DEF AddEntry, Switching
        <5> QED
          BY <4>1, <5>1, NoneAssumption DEF Switching
      <4>3. switching'.ip = switching.ip /\ switching'.policy = switching.policy
        BY <2>2, <4>1 DEF Switching
      <4> QED
        BY <2>2, <4>1, <4>2, <4>3 DEF InForce
    <3>2. CASE ApplyDeny
      BY <2>2, <3>2 DEF ApplyDeny, SetAC, Obedient, InForce
    <3>3. CASE ApplyAllow
      <4>1. switching' = [switching EXCEPT !.step = "remove"]
            /\ rules' = rules \ {switching.ip}
        BY <3>3 DEF ApplyAllow, SetAC, Obedient
      <4>2. switching' \in Switching /\ switching' # None
        <5>1. switching \in [step : {"apply"}, ip : Ips, policy : {"allow"}]
          BY <2>2, <3>3 DEF ApplyAllow, Switching
        <5> QED
          BY <4>1, <5>1, NoneAssumption DEF Switching
      <4>3. switching'.ip = switching.ip /\ switching'.policy = switching.policy
        BY <2>2, <4>1 DEF Switching
      <4> QED
        BY <2>2, <4>1, <4>2, <4>3 DEF InForce
    <3>4. CASE RemoveEntry
      <4>1. switching.policy = "allow" /\ switching.ip \notin rules
        BY <2>2, <3>4 DEF RemoveEntry, Switching, AInv
      <4>2. switching' = None /\ UNCHANGED rules
        BY <3>4 DEF RemoveEntry
      <4> QED
        BY <2>2, <4>1, <4>2 DEF InForce
    <3> QED
      BY <1>3, <3>1, <3>2, <3>3, <3>4
  <2> QED
    BY <1>1, <2>1, <2>3, WillBlockInForce
<1> QED
  BY <1>2, <1>3 DEF DetectorStep

-----------------------------------------------------------------------------
(* Who is blocked.                                                         *)

\* Operators add cameras and move them home at most: nothing deletes or resets.
Harmless(m) == m.type # "delete" /\ (m.type = "setStat" => m.stat # "unregistered")
Calm == (\A m \in ToSet(inbox) : Harmless(m)) /\ (main # None => main.op = "attach")

\* A camera at the address is shown as abnormal, or has stopped answering.
Guilty(ip) == \E c \in Cams : c.ip = ip /\ c.stat \in {"abnormal", "unused"}
\* Nobody is blocked, or will be, whose address no such camera has.
BlockedForCause == \A ip \in Ips : WillBlock(ip) => Guilty(ip)

\* An ID has one camera.
LEMMA OneCam ==
    ASSUME Distinct
    PROVE  \A c, d \in Cams : c.id = d.id => c = d
BY DEF Distinct, Cams, ToSet

LEMMA CamTypes ==
    ASSUME cctvs \in Seq(Cctv)
    PROVE  \A c \in Cams : c.id \in Ids /\ c.ip \in Ips
<1>1. \A c \in Cams : c \in Cctv
  BY DEF Cams, ToSet
<1> QED
  BY <1>1 DEF Cctv

\* What leaves the orders alone and clears no camera.
LEMMA GuiltKept ==
    ASSUME BlockedForCause, UNCHANGED <<detq, switching, rules>>,
           \A ip : Guilty(ip) => Guilty(ip)'
    PROVE  BlockedForCause'
BY DEF BlockedForCause, WillBlock

\* FTM_CATCHB_onCreateCCTV, FTM_CATCHB_onFoundCCTVInDB: the others are what they were.
LEMMA AppendGuilt ==
    ASSUME IInv, BlockedForCause, OnCreate \/ OnFound
    PROVE  BlockedForCause'
<1>1. cctvs \in Seq(Cctv) /\ UNCHANGED <<detq, switching, rules>>
  BY DEF IInv, TypeOK, OnCreate, OnFound, aside
<1>2. cctvs' = cctvs \/ \E c : cctvs' = Append(cctvs, c)
  BY DEF OnCreate, OnFound
<1>3. Cams \subseteq Cams'
  <2>1. CASE \E c : cctvs' = Append(cctvs, c)
    <3>1. PICK c : cctvs' = Append(cctvs, c)
      BY <2>1
    <3>2. \A i \in 1..Len(cctvs) : i \in DOMAIN cctvs' /\ cctvs'[i] = cctvs[i]
      BY <1>1, <3>1
    <3> QED
      BY <1>1, <3>2 DEF Cams, ToSet
  <2> QED
    BY <1>2, <2>1 DEF Cams
<1> QED
  BY <1>1, <1>3, GuiltKept DEF Guilty

\* FTM_CATCHB_onRegisterCCTV, FTM_CATCHB_onSetCCTVProperties: the state stays, and
\* so does the address.
LEMMA OnUpdateGuilt ==
    ASSUME NEW home, IInv, UInv, AtHome(home), CInv(home), BlockedForCause,
           OnRegister \/ OnSetIP
    PROVE  BlockedForCause'
<1> DEFINE m == Head(inbox)
           c == Get(m.id)
<1>1. /\ inbox \in Seq(Msg) /\ inbox # <<>> /\ cctvs \in Seq(Cctv)
      /\ UNCHANGED <<detq, switching, rules>>
  BY DEF IInv, TypeOK, OnRegister, OnSetIP, Idle, Pop, aside
<1>2. m \in Msg /\ m \in ToSet(inbox)
  BY <1>1, PopType, TailSet
<1>3. CASE ~Has(m.id)
  BY <1>1, <1>3, GuiltKept DEF OnRegister, OnSetIP, Guilty, Cams
<1>4. CASE Has(m.id)
  <2>1. /\ c \in Cctv /\ c.id = m.id /\ c \in Cams
        /\ c = cctvs[Pos(m.id)] /\ Pos(m.id) \in 1..Len(cctvs)
    BY <1>1, <1>4, GetFinds DEF Cams, ToSet
  <2>2. PICK d \in Cctv : /\ d.id = m.id /\ d.ip = c.ip /\ d.stat = c.stat
                          /\ cctvs' = [cctvs EXCEPT ![Pos(m.id)] = d]
    <3>1. CASE OnRegister
      <4>1. m.hash \in Hashes
        BY <1>2, <3>1, MsgFields DEF OnRegister
      <4>2. PICK d : d = [c EXCEPT !.hash = m.hash]
        OBVIOUS
      <4>3. d \in Cctv /\ d.id = m.id /\ d.ip = c.ip /\ d.stat = c.stat
        BY <2>1, <4>1, <4>2 DEF Cctv
      <4>4. cctvs' = [cctvs EXCEPT ![Pos(m.id)] = d]
        BY <1>4, <2>1, <3>1, <4>2 DEF OnRegister
      <4> QED
        BY <4>3, <4>4
    <3>2. CASE OnSetIP
      <4>1. m.ip \in Ips /\ m.ip = home[m.id]
        BY <1>2, <3>2, MsgFields DEF OnSetIP, AtHome
      <4>2. c.ip = home[m.id]
        <5> HIDE DEF c, m
        <5> QED
          BY <2>1 DEF CInv, CamsBlamed
      <4>3. PICK d : d = [c EXCEPT !.ip = m.ip]
        OBVIOUS
      <4>4. d \in Cctv /\ d.id = m.id /\ d.ip = c.ip /\ d.stat = c.stat
        BY <2>1, <4>1, <4>2, <4>3 DEF Cctv
      <4>5. cctvs' = [cctvs EXCEPT ![Pos(m.id)] = d]
        BY <1>4, <2>1, <3>2, <4>3 DEF OnSetIP
      <4> QED
        BY <4>4, <4>5
    <3> QED
      BY <3>1, <3>2
  <2>3. \A e \in Cams : e \in Cams' \/ (e = c /\ d \in Cams')
    BY <1>1, <2>1, <2>2, ExceptSeq DEF Cams, ToSet
  <2> HIDE DEF c, m
  <2>4. \A ip : Guilty(ip) => Guilty(ip)'
    BY <2>2, <2>3 DEF Guilty
  <2> QED
    BY <1>1, <2>4, GuiltKept
<1> QED
  BY <1>3, <1>4

\* FTM_CATCHB_onSetCCTVStat: the address of a camera that is cleared is freed, even
\* if another one at the address is not.
LEMMA OnSetStatGuilt ==
    ASSUME IInv, IInv', Calm, BlockedForCause, OnSetStat
    PROVE  BlockedForCause'
<1> DEFINE m == Head(inbox)
           c == Get(m.id)
           order == ControlFor(c.stat, m.stat)
           changed == [c EXCEPT !.stat = m.stat,
                                !.hash = IF m.stat = "unregistered" THEN NoHash ELSE @]
<1>1. /\ inbox \in Seq(Msg) /\ inbox # <<>> /\ m.type = "setStat" /\ cctvs \in Seq(Cctv)
      /\ UNCHANGED <<switching, rules>> /\ TypeOK /\ TypeOK'
  BY DEF IInv, TypeOK, OnSetStat, Idle, Pop, aside
<1>2. m \in Msg /\ m.stat \in Stats \ {"unregistered"}
  <2>1. m \in Msg /\ m \in ToSet(inbox)
    BY <1>1, PopType, TailSet
  <2> QED
    BY <1>1, <2>1, MsgFields DEF Calm, Harmless
<1>3. CASE ~Has(m.id)
  BY <1>1, <1>3, GuiltKept DEF OnSetStat, Guilty, Cams
<1>4. CASE Has(m.id)
  <2>1. /\ c \in Cctv /\ c.id = m.id /\ c \in Cams
        /\ c = cctvs[Pos(m.id)] /\ Pos(m.id) \in 1..Len(cctvs)
    BY <1>1, <1>4, GetFinds DEF Cams, ToSet
  <2>2. /\ cctvs' = [cctvs EXCEPT ![Pos(m.id)] = changed]
        /\ detq' = IF order = "none" THEN detq
                   ELSE Append(detq, [ip |-> c.ip, policy |-> order])
    BY <1>4 DEF OnSetStat
  <2>3. /\ changed \in Cctv /\ changed.id = m.id /\ changed.ip = c.ip
        /\ changed.stat = m.stat
    BY <1>2, <2>1 DEF Cctv
  <2>4. changed \in Cams' /\ \A e \in Cams : e \in Cams' \/ e = c
    <3> HIDE DEF changed
    <3> QED
      BY <1>1, <2>1, <2>2, <2>3, ExceptSeq DEF Cams, ToSet
  <2> HIDE DEF m, c, changed
  <2>5. order \in {"allow", "deny", "none"}
    BY DEF ControlFor
  <2>6. /\ order = "allow" => m.stat = "normal"
        /\ order = "deny" => m.stat = "abnormal"
        /\ order = "none" /\ m.stat = "normal" => c.stat \notin {"abnormal", "unused"}
    BY <1>2 DEF ControlFor
  <2> HIDE DEF order
  <2>7. ASSUME NEW ip \in Ips, ip # c.ip, WillBlock(ip)'
        PROVE  Guilty(ip)'
    <3>1. WillBlock(ip)
      <4>1. CASE order = "none"
        BY <1>1, <2>2, <2>7, <4>1 DEF WillBlock
      <4>2. CASE order # "none"
        <5>1. PICK o \in [ip : Ips, policy : {"allow", "deny"}] : o = [ip |-> c.ip, policy |-> order]
          BY <2>1, <2>5, <4>2 DEF Cctv
        <5>2. detq' = Append(detq, o) /\ o.ip # ip
          BY <2>2, <2>7, <4>2, <5>1
        <5> QED
          BY <1>1, <2>7, <5>1, <5>2, WillBlockAppend
      <4> QED
        BY <4>1, <4>2
    <3>2. Guilty(ip)
      BY <3>1 DEF BlockedForCause
    <3> QED
      BY <2>4, <2>7, <3>2 DEF Guilty
  <2>8. ASSUME NEW ip \in Ips, ip = c.ip, WillBlock(ip)'
        PROVE  Guilty(ip)'
    <3>1. CASE m.stat # "normal"
      <4>1. changed.ip = ip /\ changed.stat \in {"abnormal", "unused"}
        BY <1>2, <2>3, <2>8, <3>1 DEF Stats
      <4> QED
        BY <2>4, <4>1 DEF Guilty
    <3>2. CASE m.stat = "normal"
      <4>1. order = "none"
        <5>1. SUFFICES ASSUME order = "allow"
                       PROVE  FALSE
          BY <2>5, <2>6, <3>2
        <5>2. PICK o \in [ip : Ips, policy : {"allow", "deny"}] : o = [ip |-> c.ip, policy |-> order]
          BY <2>8, <5>1
        <5>3. detq' = Append(detq, o) /\ o.ip = ip /\ o.policy # "deny"
          BY <2>2, <2>8, <5>1, <5>2
        <5> QED
          BY <1>1, <2>8, <5>2, <5>3, WillBlockAppend
      <4>2. WillBlock(ip)
        BY <1>1, <2>2, <2>8, <4>1 DEF WillBlock
      <4>3. PICK d \in Cams : d.ip = ip /\ d.stat \in {"abnormal", "unused"}
        BY <4>2 DEF BlockedForCause, Guilty
      <4>4. d # c
        BY <2>6, <3>2, <4>1, <4>3
      <4> QED
        BY <2>4, <4>3, <4>4 DEF Guilty
    <3> QED
      BY <3>1, <3>2
  <2> QED
    BY <2>7, <2>8 DEF BlockedForCause
<1> QED
  BY <1>3, <1>4

\* Nothing is posted that deletes or resets.
LEMMA CalmKept ==
    ASSUME IInv, Calm, ToSet(inbox') \subseteq ToSet(inbox) \cup {m \in Msg : Harmless(m)},
           UNCHANGED main \/ main' = None
    PROVE  Calm'
BY DEF Calm, Harmless

\* Operators who neither delete nor reset leave the daemon at that.
LEMMA NextCalm ==
    ASSUME Ops \cap {"del", "reset"} = {}, session = None, IInv, Calm, [Next]_vars
    PROVE  Calm'
<1> DEFINE Fine == {m \in Msg : Harmless(m)}
<1>1. inbox \in Seq(Msg)
  BY DEF IInv, TypeOK
<1>2. ASSUME inbox # <<>>, inbox' = Tail(inbox)
      PROVE  ToSet(inbox') \subseteq ToSet(inbox)
  BY <1>1, <1>2, TailSet
<1>3. CASE Boot
  <2>1. \A k \in ToSet(inbox') : k.type = "found"
    BY <1>3 DEF Boot, FoundMsg, ToSet
  <2> QED
    BY <1>3, <2>1 DEF Boot, Calm, Harmless
<1>4. CASE Halt
  BY <1>4 DEF Halt, Calm, ToSet
<1>5. CASE MainStep
  <2>1. CASE OnCreate \/ OnFound
    <3>1. ToSet(inbox') \subseteq ToSet(inbox)
      BY <1>2, <2>1 DEF OnCreate, OnFound, Idle, Pop
    <3>2. UNCHANGED main \/ main'.op = "attach"
      BY <2>1 DEF OnCreate, OnFound
    <3> QED
      BY <3>1, <3>2 DEF Calm, Harmless
  <2>2. CASE OnDelete \/ Unlist
    <3>1. CASE OnDelete
      <4>1. inbox # <<>> /\ Head(inbox).type = "delete"
        BY <3>1 DEF OnDelete, Idle
      <4>2. Head(inbox) \in ToSet(inbox)
        BY <1>1, <4>1, TailSet
      <4> QED
        BY <4>1, <4>2 DEF Calm, Harmless
    <3>2. CASE Unlist
      BY <3>2 DEF Unlist, Calm
    <3> QED
      BY <2>2, <3>1, <3>2
  <2>3. CASE OnSetStat \/ OnRegister \/ OnSetIP
    <3>1. ToSet(inbox') \subseteq ToSet(inbox)
      BY <1>2, <2>3 DEF OnSetStat, OnRegister, OnSetIP, Idle, Pop
    <3> QED
      BY <2>3, <3>1, CalmKept DEF OnSetStat, OnRegister, OnSetIP
  <2> QED
    BY <1>5, <2>1, <2>2, <2>3 DEF MainStep
<1>6. CASE Attach \/ Detach
  BY <1>6, CalmKept DEF Attach, Detach, Calm
<1>7. CASE AnalyzerStep
  <2>1. CASE ProbeBegin \/ Scan
    BY <2>1, CalmKept DEF ProbeBegin, Scan
  <2>2. CASE ProbeEnd
    <3> DEFINE report == Report(Get(probe.id))
    <3>1. report \in Seq(Msg)
      <4>1. probe # None /\ Has(probe.id) /\ Scanned
        BY <2>2 DEF IInv, ProbedExists, ProbeEnd, Scanned
      <4> QED
        BY <4>1, GetFinds, ReportType DEF IInv, TypeOK
    <3>2. \A k \in ToSet(report) : Harmless(k)
      BY DEF Report, ToSet, Harmless
    <3>3. inbox' = inbox \o report /\ UNCHANGED main
      BY <2>2 DEF ProbeEnd
    <3> HIDE DEF report
    <3>4. ToSet(inbox') = ToSet(inbox) \cup ToSet(report)
      BY <1>1, <3>1, <3>3, ConcatSet
    <3> QED
      BY <3>2, <3>3, <3>4 DEF Calm, Harmless
  <2> QED
    BY <1>7, <2>1, <2>2 DEF AnalyzerStep
<1>8. CASE DetectorStep
  BY <1>8, CalmKept
  DEF DetectorStep, OnSetControl, AddEntry, ApplyDeny, ApplyAllow, RemoveEntry, core
<1>9. CASE Request
  <2>1. CASE \E id \in Ids, ip \in Ips : RequestAdd(id, ip) \/ RequestSetIP(id, ip)
    <3>1. PICK m \in Msg : m.type \in {"create", "setIP"} /\ Post(m)
      BY <2>1 DEF RequestAdd, RequestSetIP, Msg
    <3>2. ToSet(inbox') = ToSet(inbox) \cup {m} /\ UNCHANGED main
      BY <1>1, <3>1, AppendSet DEF Post
    <3> QED
      BY <3>1, <3>2 DEF Calm, Harmless
  <2>2. CASE \E id \in Ids : RequestDel(id) \/ RequestReset(id)
    BY <2>2 DEF RequestDel, RequestReset
  <2>3. CASE \E id \in Ids, policy \in {"allow", "deny"} : RequestPolicy(id, policy)
    BY <2>3, CalmKept DEF RequestPolicy, core
  <2> QED
    BY <1>9, <2>1, <2>2, <2>3 DEF Request
<1>10. CASE SessionStep
  BY <1>10 DEF SessionStep, SessionApply, SendReset
<1>11. CASE (\E ip \in Ips : Device(ip)) \/ UNCHANGED vars
  BY <1>11, CalmKept DEF Device, memory, vars
<1> QED
  BY <1>3, <1>4, <1>5, <1>6, <1>7, <1>8, <1>9, <1>10, <1>11 DEF Next

\* No step leaves a block without someone to blame.
LEMMA NextGuilt ==
    ASSUME NEW home, Obedient, IInv, IInv', UInv, AInv, AtHome(home), CInv(home), Calm,
           BlockedForCause, [Next]_vars
    PROVE  BlockedForCause'
<1>1. ASSUME UNCHANGED <<cctvs, detq, switching, rules>>
      PROVE  BlockedForCause'
  BY <1>1, GuiltKept DEF Guilty, Cams
<1>2. CASE Boot \/ Halt
  BY <1>1, <1>2 DEF Boot, Halt, Obedient
<1>3. CASE MainStep
  <2>1. CASE OnDelete \/ Unlist
    <3>1. CASE OnDelete
      BY <1>1, <3>1 DEF OnDelete, aside
    <3>2. CASE Unlist
      BY <3>2 DEF Unlist, Calm
    <3> QED
      BY <2>1, <3>1, <3>2
  <2> QED
    BY <1>3, <2>1, AppendGuilt, OnUpdateGuilt, OnSetStatGuilt DEF MainStep
<1>4. CASE Attach \/ Detach \/ AnalyzerStep
  BY <1>1, <1>4 DEF Attach, Detach, AnalyzerStep, ProbeBegin, Scan, ProbeEnd, aside
<1>5. CASE DetectorStep
  <2>1. UNCHANGED cctvs
    BY <1>5
    DEF DetectorStep, OnSetControl, AddEntry, ApplyDeny, ApplyAllow, RemoveEntry, core
  <2>2. \A ip \in Ips : WillBlock(ip)' <=> WillBlock(ip)
    BY <1>5, DetectorForetold
  <2> QED
    BY <2>1, <2>2 DEF BlockedForCause, Guilty, Cams
<1>6. CASE Request
  BY <1>1, <1>6
  DEF Request, RequestAdd, RequestSetIP, RequestDel, RequestReset, RequestPolicy, Post,
      Obedient
<1>7. CASE SessionStep
  BY <1>7 DEF SessionStep, SessionApply, SendReset, AInv
<1>8. CASE (\E ip \in Ips : Device(ip)) \/ UNCHANGED vars
  BY <1>1, <1>8 DEF Device, memory, vars
<1> QED
  BY <1>2, <1>3, <1>4, <1>5, <1>6, <1>7, <1>8 DEF Next

\* Who is blocked, or will be when the detector's queue is empty, has a camera at
\* the address that is shown as abnormal or has stopped answering: however findings
\* and orders queue up, whichever cameras share an address.  The switch obeys, each
\* ID has one address, and operators neither delete nor reset: a camera deleted or
\* reset while it is blocked stays blocked.
THEOREM BlockedForCauseCorrect ==
    ASSUME NEW home, Homes(home), Obedient, "del" \notin Ops
    PROVE  Spec /\ []AtHome(home) => []BlockedForCause
<1>1. Init => Calm /\ BlockedForCause
  <2> SUFFICES ASSUME Init
               PROVE  Calm /\ BlockedForCause
    OBVIOUS
  <2>1. Calm
    BY DEF Init, Calm, ToSet
  <2>2. BlockedForCause
    BY DEF Init, BlockedForCause, WillBlock
  <2> QED
    BY <2>1, <2>2
<1>2. IInv /\ AInv /\ Calm /\ [Next]_vars => Calm'
  BY NextCalm DEF AInv, Obedient
<1>3. /\ IInv /\ IInv' /\ UInv /\ AInv /\ AtHome(home) /\ CInv(home) /\ Calm
      /\ BlockedForCause /\ [Next]_vars
      => BlockedForCause'
  BY NextGuilt
<1>4. "policy" \notin Ops
  BY DEF Obedient
<1>5. Spec /\ []AtHome(home) => []CInv(home)
  BY <1>4, BlameInvariance
<1>6. Spec => []AInv
  BY AclInvariance
<1> QED
  BY <1>1, <1>2, <1>3, <1>5, <1>6, Invariance, UniqueInvariance, PTL DEF Spec

\* Cameras are told apart by their addresses.
OwnHome(home) == \A x, y \in Ids : home[x] = home[y] => x = y

\* A camera that is shown as normal, or that has no fingerprint yet, is not
\* blocked and will not be when the detector's queue is empty: the last order for an
\* address is what the camera's state asks for, as long as each camera has an
\* address of its own.
THEOREM OnlyFaultyBlockedCorrect ==
    ASSUME NEW home, Homes(home), OwnHome(home), Obedient, "del" \notin Ops
    PROVE  Spec /\ []AtHome(home) => []OnlyFaultyBlocked
<1>1. IInv /\ UInv /\ CInv(home) /\ BlockedForCause => OnlyFaultyBlocked
  <2> SUFFICES ASSUME IInv, UInv, CInv(home), BlockedForCause, NEW i \in DOMAIN cctvs,
                      cctvs[i].stat \in {"normal", "unregistered"},
                      WillBlock(cctvs[i].ip)
               PROVE  FALSE
    BY DEF OnlyFaultyBlocked
  <2> DEFINE c == cctvs[i]
  <2>1. c \in Cctv /\ c \in Cams
    BY DEF IInv, TypeOK, Cams, ToSet
  <2>2. c.ip \in Ips /\ c.id \in Ids
    BY <2>1 DEF Cctv
  <2>3. PICK d \in Cams : d.ip = c.ip /\ d.stat \in {"abnormal", "unused"}
    BY <2>2 DEF BlockedForCause, Guilty
  <2>4. d.id \in Ids
    BY CamTypes DEF IInv, TypeOK
  <2>5. d.ip = home[d.id] /\ c.ip = home[c.id]
    BY <2>1 DEF CInv, CamsBlamed
  <2>6. d = c
    BY <2>1, <2>2, <2>3, <2>4, <2>5, OneCam DEF OwnHome, UInv
  <2> QED
    BY <2>3, <2>6
<1>2. "policy" \notin Ops
  BY DEF Obedient
<1>3. Spec /\ []AtHome(home) => []CInv(home)
  BY <1>2, BlameInvariance
<1>4. Spec /\ []AtHome(home) => []BlockedForCause
  BY BlockedForCauseCorrect
<1> QED
  BY <1>1, <1>3, <1>4, Invariance, UniqueInvariance, PTL
=============================================================================
