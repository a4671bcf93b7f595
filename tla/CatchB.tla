------------------------------- MODULE CatchB -------------------------------
(***************************************************************************)
(* The core of the catchb daemon: the registry of cameras that the main    *)
(* thread owns, the analyzer that probes them in turn and compares their   *)
(* fingerprint (hash) with the registered one, the detector that blocks or *)
(* frees a camera's address at the network switch, the sessions through    *)
(* which an operator changes the registry, and the database that outlives  *)
(* the process.                                                            *)
(*                                                                         *)
(* Threads talk through two message queues (inbox, detq), each a FIFO with *)
(* one reader: MsgQueue shows that FTM_MSGQ is one.  A handler of the main *)
(* thread is one step, except that creating and deleting a camera wait for *)
(* the analyzer's lock, which is held for the whole of a probe.            *)
(***************************************************************************)
EXTENDS Naturals, Sequences, FiniteSets, SequencesExt

CONSTANTS
    Ids, Ips,       \* camera IDs, network addresses
    Fold(_),        \* an ID without its letter case (strcasecmp)
    Prints,         \* what a probe sees of a device: MAC, open ports, score
    HalfSeen,       \* what it sees of one that went away mid-probe
    NoHash, Down,   \* empty pHash; a device that does not answer
    None,           \* no probe, no request, no work
    Ops,            \* what operators do: "add" "del" "reset" "setIP" "policy"
    Faults,         \* what fails: "halt" "db" "switchError" "switchSilent"
    InitDb,         \* database contents the first start may find
    MaxInbox, MaxDetq, MaxAcl, MaxHalts     \* bounds of the model

ASSUME ConstantsAssumption ==
    /\ IsFiniteSet(Ids)
    /\ HalfSeen \in Prints /\ Down \notin Prints

VARIABLES
    running,    \* the daemon is up
    cctvs,      \* pCCTVList: the cameras, in the order they were added
    inbox,      \* the main thread's message queue
    main,       \* second half of the handler that waits for the analyzer
    chain,      \* the analyzer's pList: IDs in the order they are probed
    probe,      \* the probe in progress, which holds the analyzer's lock
    session,    \* an operator's request that the server is busy with
    detq,       \* the detector's message queue
    switching,  \* the detector's work on the switch
    acl,        \* the switch's pACList
    rules,      \* addresses the switch itself blocks
    db,         \* the CCTV table: rows keyed by _ID
    world,      \* what a probe of an address finds
    convicted,  \* ghost: addresses once seen with a wrong fingerprint
    halts       \* ghost: how often the process has ended

memory == <<running, cctvs, inbox, main, chain, probe, session, detq, switching, acl>>
\* What the main thread and the analyzer leave alone.
aside == <<running, session, switching, acl, rules, world, halts>>
vars == <<memory, rules, db, world, convicted, halts>>

Stats == {"unregistered", "unused", "normal", "abnormal"}

\* SHA1 of a text that starts with the address.
Hashes == Ips \X Prints

Cctv == [id : Ids, ip : Ips, hash : Hashes \cup {NoHash}, stat : Stats]
Row == [ip : Ips, hash : Hashes \cup {NoHash}]

ASSUME InitDbAssumption ==
    \A d \in InitDb : DOMAIN d \subseteq Ids /\ \A id \in DOMAIN d : d[id] \in Row

Control == [ip : Ips \cup Ids, policy : {"allow", "deny"}]
Msg ==
    [type : {"found"}, id : Ids, ip : Ips, hash : Hashes \cup {NoHash}]
        \cup [type : {"create", "setIP"}, id : Ids, ip : Ips]
        \cup [type : {"delete"}, id : Ids]
        \cup [type : {"setStat"}, id : Ids, stat : Stats]
        \cup [type : {"register"}, id : Ids, hash : Hashes]

Probe == [id : Ids, replied : BOOLEAN, hash : Hashes \cup {NoHash}]
Session ==
    [op : {"policy"}, step : {"apply"}, id : Ids, ip : Ips, policy : {"allow", "deny"}]
        \cup [op : {"reset"}, step : {"apply", "post"}, id : Ids, ip : Ids,
              policy : {"allow"}]
Switching ==
    [step : {"add", "apply"}, ip : Ips, policy : {"deny"}]
        \cup [step : {"apply", "remove"}, ip : Ips, policy : {"allow"}]

\* What is not there is never taken for something that is.
ASSUME NoneAssumption ==
    None \notin [op : {"attach", "detach", "remove"}, id : Ids]
                    \cup Probe \cup Session \cup Switching

-----------------------------------------------------------------------------
(* The list of cameras (FTM_LIST with FTM_CATCHB_CCTVSeeker, strcmp).      *)

Known == {cctvs[i].id : i \in DOMAIN cctvs}
Has(id) == id \in Known

\* FTM_LIST_get returns the first element that matches.
Least(I) == CHOOSE i \in I : \A j \in I : i <= j
Pos(id) == Least({i \in DOMAIN cctvs : cctvs[i].id = id})
Get(id) == cctvs[Pos(id)]

\* The analyzer's list is searched without regard to letter case.
Scheduled(id) == \E i \in DOMAIN chain : Fold(chain[i]) = Fold(id)
ChainPos(id) == Least({i \in DOMAIN chain : Fold(chain[i]) = Fold(id)})

\* Variant: a silent device has no fingerprint of its own.
FingerprintOfSilence(ip) == <<ip, world[ip]>>

\* What a probe of an address computes; a device that is gone by then still
\* gets a fingerprint (its MAC from the ARP cache, all ports closed).
Fingerprint(ip) == <<ip, IF world[ip] = Down THEN HalfSeen ELSE world[ip]>>

LockFree == probe = None
Pop == inbox' = Tail(inbox)
Idle == running /\ main = None /\ inbox # <<>>

-----------------------------------------------------------------------------
(* Start and end of the process.                                           *)

Init ==
    /\ running = FALSE
    /\ cctvs = <<>> /\ inbox = <<>> /\ main = None
    /\ chain = <<>> /\ probe = None /\ session = None
    /\ detq = <<>> /\ switching = None /\ acl = <<>>
    /\ rules = {}
    /\ db \in InitDb
    /\ world \in [Ips -> Prints \cup {Down}]
    /\ convicted = {}
    /\ halts = 0

FoundMsg(id) == [type |-> "found", id |-> id, ip |-> db[id].ip, hash |-> db[id].hash]

\* FTM_CATCHB_initProcess posts every row before any other thread starts.
Boot ==
    /\ ~running
    /\ running' = TRUE
    /\ \E s \in SetToSeqs(DOMAIN db) :
          inbox' = [i \in DOMAIN s |-> FoundMsg(s[i])]
    /\ UNCHANGED <<cctvs, main, chain, probe, session, detq, switching, acl, rules, db, world, convicted, halts>>

\* The process ends, by a stop or a crash: what is in memory is gone, queued
\* messages and the lists of access controls included.
Halt ==
    /\ running
    /\ "halt" \in Faults /\ halts < MaxHalts
    /\ running' = FALSE
    /\ cctvs' = <<>> /\ inbox' = <<>> /\ main' = None
    /\ chain' = <<>> /\ probe' = None /\ session' = None
    /\ detq' = <<>> /\ switching' = None /\ acl' = <<>>
    /\ halts' = halts + 1
    /\ UNCHANGED <<rules, db, world, convicted>>
-----------------------------------------------------------------------------
(* The main thread: one message at a time (FTM_CATCHB_process).            *)

\* Variant: neither the list nor the table is asked whether the ID is new.
OnCreateUnchecked ==
    /\ Idle /\ Head(inbox).type = "create"
    /\ Pop
    /\ LET m == Head(inbox) IN
       /\ cctvs' = Append(cctvs, [id |-> m.id, ip |-> m.ip, hash |-> NoHash,
                                  stat |-> "unregistered"])
       /\ db' = [i \in DOMAIN db \cup {m.id} |->
                    IF i = m.id THEN [ip |-> m.ip, hash |-> NoHash] ELSE db[i]]
       /\ main' = [op |-> "attach", id |-> m.id]
    /\ UNCHANGED <<chain, probe, detq, aside, convicted>>

\* Variant: the camera stays in the list when the INSERT fails.
OnCreateKeeps ==
    /\ Idle /\ Head(inbox).type = "create"
    /\ Pop
    /\ LET m == Head(inbox) IN
       \/ /\ ~Has(m.id)
          /\ m.id \notin DOMAIN db
          /\ cctvs' = Append(cctvs, [id |-> m.id, ip |-> m.ip, hash |-> NoHash,
                                     stat |-> "unregistered"])
          /\ \/ db' = [i \in DOMAIN db \cup {m.id} |->
                          IF i = m.id THEN [ip |-> m.ip, hash |-> NoHash] ELSE db[i]]
             \/ "db" \in Faults /\ UNCHANGED db
          /\ main' = [op |-> "attach", id |-> m.id]
       \/ /\ Has(m.id) \/ m.id \in DOMAIN db
          /\ UNCHANGED <<cctvs, db, main>>
    /\ UNCHANGED <<chain, probe, detq, aside, convicted>>

\* A new camera goes into the list and the table; it is attached next.
OnCreate ==
    /\ Idle /\ Head(inbox).type = "create"
    /\ Pop
    /\ LET m == Head(inbox) IN
       \/ /\ ~Has(m.id)
          /\ m.id \notin DOMAIN db
          /\ cctvs' = Append(cctvs, [id |-> m.id, ip |-> m.ip, hash |-> NoHash,
                                     stat |-> "unregistered"])
          /\ db' = [i \in DOMAIN db \cup {m.id} |->
                       IF i = m.id THEN [ip |-> m.ip, hash |-> NoHash] ELSE db[i]]
          /\ main' = [op |-> "attach", id |-> m.id]
       \* Known already, or the INSERT fails: the camera leaves the list again.
       \/ /\ Has(m.id) \/ m.id \in DOMAIN db \/ "db" \in Faults
          /\ UNCHANGED <<cctvs, db, main>>
    /\ UNCHANGED <<chain, probe, detq, aside, convicted>>

\* A row found at start: a camera with a fingerprint waits as "unused".
OnFound ==
    /\ Idle /\ Head(inbox).type = "found"
    /\ Pop
    /\ LET m == Head(inbox) IN
       /\ cctvs' = Append(cctvs,
                     [id |-> m.id, ip |-> m.ip, hash |-> m.hash,
                      stat |-> IF m.hash = NoHash THEN "unregistered" ELSE "unused"])
       /\ main' = [op |-> "attach", id |-> m.id]
    /\ UNCHANGED <<chain, probe, detq, db, aside, convicted>>

\* FTM_ANALYZER_CCTV_attach, under the analyzer's lock.
Attach ==
    /\ running /\ main # None /\ main.op = "attach"
    /\ LockFree
    /\ chain' = IF Scheduled(main.id) THEN chain ELSE Append(chain, main.id)
    /\ main' = None
    /\ UNCHANGED <<cctvs, inbox, probe, detq, db, aside, convicted>>

\* Variant: the camera is removed without being detached.
OnDeleteOnly ==
    /\ Idle /\ Head(inbox).type = "delete"
    /\ Pop
    /\ main' = IF Has(Head(inbox).id)
               THEN [op |-> "remove", id |-> Head(inbox).id]
               ELSE None
    /\ UNCHANGED <<cctvs, chain, probe, detq, db, aside, convicted>>

OnDelete ==
    /\ Idle /\ Head(inbox).type = "delete"
    /\ Pop
    /\ main' = IF Has(Head(inbox).id)
               THEN [op |-> "detach", id |-> Head(inbox).id]
               ELSE None
    /\ UNCHANGED <<cctvs, chain, probe, detq, db, aside, convicted>>

\* Variant: the analyzer's lock is not taken.
DetachUnlocked ==
    /\ running /\ main # None /\ main.op = "detach"
    /\ chain' = IF Scheduled(main.id) THEN RemoveAt(chain, ChainPos(main.id)) ELSE chain
    /\ main' = [main EXCEPT !.op = "remove"]
    /\ UNCHANGED <<cctvs, inbox, probe, detq, db, aside, convicted>>

\* FTM_ANALYZER_CCTV_detach, under the analyzer's lock.
Detach ==
    /\ running /\ main # None /\ main.op = "detach"
    /\ LockFree
    /\ chain' = IF Scheduled(main.id) THEN RemoveAt(chain, ChainPos(main.id)) ELSE chain
    /\ main' = [main EXCEPT !.op = "remove"]
    /\ UNCHANGED <<cctvs, inbox, probe, detq, db, aside, convicted>>

\* The camera leaves the list and is freed, whether or not its row goes.
Unlist ==
    /\ running /\ main # None /\ main.op = "remove"
    /\ cctvs' = RemoveAt(cctvs, Pos(main.id))
    /\ \/ db' = [i \in DOMAIN db \ {main.id} |-> db[i]]
       \/ "db" \in Faults /\ UNCHANGED db
    /\ main' = None
    /\ UNCHANGED <<inbox, chain, probe, detq, aside, convicted>>

\* Variant: a camera that comes back normal from "unused" is not freed.
ControlForgetsFreed(old, new) ==
    CASE new = "normal" /\ old = "abnormal"               -> "allow"
      [] new = "abnormal" /\ old \in {"normal", "unused"} -> "deny"
      [] new = "unregistered" /\ old = "normal"           -> "allow"
      [] new = "unregistered" /\ old = "abnormal"         -> "deny"
      [] OTHER -> "none"

\* Variant: a camera that comes back abnormal from "unused" is not blocked.
ControlForgetsUnused(old, new) ==
    CASE new = "normal" /\ old \in {"abnormal", "unused"} -> "allow"
      [] new = "abnormal" /\ old = "normal"               -> "deny"
      [] new = "unregistered" /\ old = "normal"           -> "allow"
      [] new = "unregistered" /\ old = "abnormal"         -> "deny"
      [] OTHER -> "none"

\* Variant: the orders of a reset are swapped.
ControlSwapsReset(old, new) ==
    CASE new = "normal" /\ old \in {"abnormal", "unused"} -> "allow"
      [] new = "abnormal" /\ old \in {"normal", "unused"} -> "deny"
      [] new = "unregistered" /\ old = "normal"           -> "deny"
      [] new = "unregistered" /\ old = "abnormal"         -> "allow"
      [] OTHER -> "none"

\* Orders to the detector that go with a change of state.
ControlFor(old, new) ==
    CASE new = "normal" /\ old \in {"abnormal", "unused"}   -> "allow"
      [] new = "abnormal" /\ old \in {"normal", "unused"}   -> "deny"
      [] new = "unregistered" /\ old = "normal"             -> "allow"
      [] new = "unregistered" /\ old = "abnormal"           -> "deny"
      [] OTHER -> "none"

\* A finding of the analyzer or an operator's reset arrives.
OnSetStat ==
    /\ Idle /\ Head(inbox).type = "setStat"
    /\ Len(detq) < MaxDetq
    /\ Pop
    /\ LET m == Head(inbox) IN
       IF ~Has(m.id)
       THEN UNCHANGED <<cctvs, detq>>
       ELSE LET c == Get(m.id)
                order == ControlFor(c.stat, m.stat)
            IN  /\ cctvs' = [cctvs EXCEPT ![Pos(m.id)] =
                       [c EXCEPT !.stat = m.stat,
                                 !.hash = IF m.stat = "unregistered" THEN NoHash ELSE @]]
                /\ detq' = IF order = "none" THEN detq
                           ELSE Append(detq, [ip |-> c.ip, policy |-> order])
    /\ UNCHANGED <<main, chain, probe, db, aside, convicted>>

\* An UPDATE touches the row if there is one; its failure goes unnoticed.
Update(id, column, value) ==
    \/ db' = [i \in DOMAIN db |->
                 IF i = id THEN [db[i] EXCEPT ![column] = value] ELSE db[i]]
    \/ "db" \in Faults /\ UNCHANGED db

\* The first fingerprint of a camera becomes its reference.
OnRegister ==
    /\ Idle /\ Head(inbox).type = "register"
    /\ Pop
    /\ LET m == Head(inbox) IN
       IF ~Has(m.id)
       THEN UNCHANGED <<cctvs, db>>
       ELSE /\ cctvs' = [cctvs EXCEPT ![Pos(m.id)].hash = m.hash]
            /\ Update(m.id, "hash", m.hash)
    /\ UNCHANGED <<main, chain, probe, detq, aside, convicted>>

\* Variant: the address is kept in memory only.
OnSetIPInMemory ==
    /\ Idle /\ Head(inbox).type = "setIP"
    /\ Pop
    /\ LET m == Head(inbox) IN
       IF ~Has(m.id)
       THEN UNCHANGED cctvs
       ELSE cctvs' = [cctvs EXCEPT ![Pos(m.id)].ip = m.ip]
    /\ UNCHANGED <<main, chain, probe, detq, db, aside, convicted>>

\* An operator moves a camera to another address.
OnSetIP ==
    /\ Idle /\ Head(inbox).type = "setIP"
    /\ Pop
    /\ LET m == Head(inbox) IN
       IF ~Has(m.id)
       THEN UNCHANGED <<cctvs, db>>
       ELSE /\ cctvs' = [cctvs EXCEPT ![Pos(m.id)].ip = m.ip]
            /\ Update(m.id, "ip", m.ip)
    /\ UNCHANGED <<main, chain, probe, detq, aside, convicted>>

-----------------------------------------------------------------------------
(* The analyzer (FTM_ANALYZER_process).                                    *)

\* The head's timer has run out: take the lock and ping.
ProbeBegin ==
    /\ running /\ LockFree
    /\ chain # <<>> /\ Has(Head(chain))
    /\ Len(inbox) < MaxInbox
    /\ probe' = [id |-> Head(chain),
                 replied |-> world[Get(Head(chain)).ip] # Down,
                 hash |-> NoHash]
    /\ UNCHANGED <<cctvs, inbox, main, chain, detq, db, aside, convicted>>

\* ARP, a second ping, the ports, the captured packets.
Scan ==
    /\ running /\ probe # None
    /\ probe.replied /\ probe.hash = NoHash
    /\ probe' = [probe EXCEPT !.hash = Fingerprint(Get(probe.id).ip)]
    /\ UNCHANGED <<cctvs, inbox, main, chain, detq, db, aside, convicted>>

Scanned == probe # None /\ (probe.replied => probe.hash # NoHash)

\* What to tell the main thread of a probed camera, as its entry reads now.
Report(c) ==
    IF ~probe.replied
    THEN IF c.stat = "unregistered" THEN <<>>
         ELSE <<[type |-> "setStat", id |-> c.id, stat |-> "unused"]>>
    ELSE IF c.hash = NoHash
         THEN <<[type |-> "register", id |-> c.id, hash |-> probe.hash]>>
         ELSE <<[type |-> "setStat", id |-> c.id,
                 stat |-> IF c.hash = probe.hash THEN "normal" ELSE "abnormal"]>>

\* Variant: the camera stays at the head of the chain.
ProbeEndInPlace ==
    /\ running /\ Scanned
    /\ inbox' = inbox \o Report(Get(probe.id))
    /\ probe' = None
    /\ UNCHANGED <<cctvs, main, chain, detq, db, aside, convicted>>

\* The report is posted, the camera goes to the chain's end, the lock is free.
ProbeEnd ==
    /\ running /\ Scanned
    /\ LET report == Report(Get(probe.id)) IN
       /\ inbox' = inbox \o report
       /\ convicted' =
             IF \E i \in DOMAIN report :
                   report[i].type = "setStat" /\ report[i].stat = "abnormal"
             THEN convicted \cup {probe.hash[1]} ELSE convicted
    /\ chain' = Append(Tail(chain), Head(chain))
    /\ probe' = None
    /\ UNCHANGED <<cctvs, main, detq, db, aside>>

-----------------------------------------------------------------------------
(* The detector and the switch.                                            *)

\* Variant: whatever entry there is will do.
AcPositionsAny(ip) == DOMAIN acl

AcPositions(ip) == {i \in DOMAIN acl : acl[i].ip = ip}
FirstAc(ip) == Least(AcPositions(ip))

core == <<running, cctvs, inbox, main, chain, probe, db, world, convicted, halts>>

\* FTM_SWITCH_setAC runs the switch's script.  The script does what it says,
\* or fails and says so, or (a telnet session that ends half-way) only seems
\* to have succeeded.
SetAC(ip, policy, ok, failed) ==
    \/ rules' = (IF policy = "deny" THEN rules \cup {ip} ELSE rules \ {ip}) /\ ok
    \/ "switchSilent" \in Faults /\ UNCHANGED rules /\ ok
    \/ "switchError" \in Faults /\ UNCHANGED rules /\ failed

\* FTM_DETECTOR_onSetControl: block once, free only what was blocked.
OnSetControl ==
    /\ running /\ switching = None /\ detq # <<>>
    /\ detq' = Tail(detq)
    /\ LET m == Head(detq)
           known == AcPositions(m.ip) # {}
       IN  \/ /\ m.policy = "deny" /\ ~known
              /\ switching' = [step |-> "add", ip |-> m.ip, policy |-> "deny"]
           \/ /\ m.policy = "allow" /\ known
              /\ switching' = [step |-> "apply", ip |-> m.ip, policy |-> "allow"]
           \/ (m.policy = "deny" <=> known) /\ UNCHANGED switching
    /\ UNCHANGED <<core, session, acl, rules>>

\* FTM_SWITCH_addAC: first the entry, then the switch.
AddEntry ==
    /\ running /\ switching # None /\ switching.step = "add"
    /\ acl' = Append(acl, [ip |-> switching.ip, policy |-> switching.policy])
    /\ switching' = [switching EXCEPT !.step = "apply"]
    /\ UNCHANGED <<core, session, detq, rules>>

\* addAC is through whatever the switch says, and keeps its entry.
ApplyDeny ==
    /\ running /\ switching # None /\ switching.step = "apply"
    /\ switching.policy = "deny"
    /\ SetAC(switching.ip, "deny", TRUE, TRUE)
    /\ switching' = None
    /\ UNCHANGED <<core, session, detq, acl>>

\* Variant: deleteAC goes on when the switch has failed.
ApplyAllowIgnores ==
    /\ running /\ switching # None /\ switching.step = "apply"
    /\ switching.policy = "allow"
    /\ SetAC(switching.ip, "allow", TRUE, TRUE)
    /\ switching' = [switching EXCEPT !.step = "remove"]
    /\ UNCHANGED <<core, session, detq, acl>>

\* FTM_SWITCH_deleteAC: first the switch, and only if that went well ...
ApplyAllow ==
    /\ running /\ switching # None /\ switching.step = "apply"
    /\ switching.policy = "allow"
    /\ SetAC(switching.ip, "allow",
             switching' = [switching EXCEPT !.step = "remove"],
             switching' = None)
    /\ UNCHANGED <<core, session, detq, acl>>

\* Variant: the entry is kept for good.
RemoveEntryKeeps ==
    /\ running /\ switching # None /\ switching.step = "remove"
    /\ switching' = None
    /\ UNCHANGED <<core, session, detq, acl, rules>>

\* ... the entry.
RemoveEntry ==
    /\ running /\ switching # None /\ switching.step = "remove"
    /\ acl' = RemoveAt(acl, FirstAc(switching.ip))
    /\ switching' = None
    /\ UNCHANGED <<core, session, detq, rules>>

-----------------------------------------------------------------------------
(* Operators, through a session thread of the server.                      *)

Post(m) ==
    /\ running /\ Len(inbox) < MaxInbox
    /\ inbox' = Append(inbox, m)
    /\ UNCHANGED <<running, cctvs, main, chain, probe, detq, switching, acl,
                   rules, db, world, convicted, halts>>

RequestAdd(id, ip) ==
    /\ "add" \in Ops
    /\ Post([type |-> "create", id |-> id, ip |-> ip])
    /\ UNCHANGED session

RequestDel(id) ==
    /\ "del" \in Ops
    /\ Post([type |-> "delete", id |-> id])
    /\ UNCHANGED session

RequestSetIP(id, ip) ==
    /\ "setIP" \in Ops
    /\ Post([type |-> "setIP", id |-> id, ip |-> ip])
    /\ UNCHANGED session

\* FTM_SERVER_CCTV_reset, with the right fingerprint: an abnormal camera first
\* gets an entry that allows its ID (not its address).
RequestReset(id) ==
    /\ running /\ "reset" \in Ops
    /\ session = None /\ Has(id)
    /\ LET abnormal == Get(id).stat = "abnormal" IN
       /\ abnormal => Len(acl) < MaxAcl
       /\ acl' = IF abnormal THEN Append(acl, [ip |-> id, policy |-> "allow"]) ELSE acl
       /\ session' = [op |-> "reset", step |-> IF abnormal THEN "apply" ELSE "post",
                      id |-> id, ip |-> id, policy |-> "allow"]
    /\ UNCHANGED <<core, detq, switching, rules>>

\* Variant: a policy that allows takes the entry out of the list.
RequestPolicyDeletes(id, policy) ==
    /\ running /\ "policy" \in Ops
    /\ session = None /\ Has(id) /\ Len(acl) < MaxAcl
    /\ acl' = IF policy = "deny" THEN Append(acl, [ip |-> Get(id).ip, policy |-> policy])
              ELSE SelectSeq(acl, LAMBDA ac : ac.ip # Get(id).ip)
    /\ session' = [op |-> "policy", step |-> "apply",
                   id |-> id, ip |-> Get(id).ip, policy |-> policy]
    /\ UNCHANGED <<core, detq, switching, rules>>

\* FTM_SERVER_CCTV_setPolicy: an entry for the camera's address.
RequestPolicy(id, policy) ==
    /\ running /\ "policy" \in Ops
    /\ session = None /\ Has(id) /\ Len(acl) < MaxAcl
    /\ acl' = Append(acl, [ip |-> Get(id).ip, policy |-> policy])
    /\ session' = [op |-> "policy", step |-> "apply",
                   id |-> id, ip |-> Get(id).ip, policy |-> policy]
    /\ UNCHANGED <<core, detq, switching, rules>>

\* FTM_SWITCH_addAC's second half, from the session's thread.
SessionApply ==
    /\ running /\ session # None /\ session.step = "apply"
    /\ SetAC(session.ip, session.policy, TRUE, TRUE)
    /\ session' = IF session.op = "reset" THEN [session EXCEPT !.step = "post"] ELSE None
    /\ UNCHANGED <<core, detq, switching, acl>>

\* FTM_CATCHB_resetCCTV: the reset reaches the main thread.
SendReset ==
    /\ session # None /\ session.step = "post"
    /\ Post([type |-> "setStat", id |-> session.id, stat |-> "unregistered"])
    /\ session' = None

-----------------------------------------------------------------------------
\* A device is replaced, switched off or back on.
Device(ip) ==
    /\ \E w \in Prints \cup {Down} : w # world[ip] /\ world' = [world EXCEPT ![ip] = w]
    /\ UNCHANGED <<memory, rules, db, convicted, halts>>

MainStep == OnCreate \/ OnFound \/ OnDelete \/ Unlist \/ OnSetStat \/ OnRegister \/ OnSetIP
AnalyzerStep == ProbeBegin \/ Scan \/ ProbeEnd
DetectorStep == OnSetControl \/ AddEntry \/ ApplyDeny \/ ApplyAllow \/ RemoveEntry
SessionStep == SessionApply \/ SendReset
Request ==
    \/ \E id \in Ids, ip \in Ips : RequestAdd(id, ip) \/ RequestSetIP(id, ip)
    \/ \E id \in Ids : RequestDel(id) \/ RequestReset(id)
    \/ \E id \in Ids, policy \in {"allow", "deny"} : RequestPolicy(id, policy)

Next ==
    \/ Boot \/ Halt
    \/ MainStep \/ Attach \/ Detach
    \/ AnalyzerStep
    \/ DetectorStep
    \/ Request \/ SessionStep
    \/ \E ip \in Ips : Device(ip)

Spec == Init /\ [][Next]_vars

\* The threads run; operators and devices owe nothing.  The analyzer lets go
\* of its lock for the length of a timedPop between two probes, so that a
\* main thread which waits for it gets it in the end.
FairSpec ==
    /\ Spec
    /\ WF_vars(Boot) /\ WF_vars(MainStep) /\ SF_vars(Attach) /\ SF_vars(Detach)
    /\ WF_vars(AnalyzerStep)
    /\ WF_vars(DetectorStep) /\ WF_vars(SessionStep)
-----------------------------------------------------------------------------
(* Properties.                                                             *)

\* Every variable has its type (FTM_CATCHB, FTM_ANALYZER, FTM_SWITCH).
TypeOK ==
    /\ running \in BOOLEAN
    /\ cctvs \in Seq(Cctv)
    /\ inbox \in Seq(Msg)
    /\ main \in {None} \cup [op : {"attach", "detach", "remove"}, id : Ids]
    /\ chain \in Seq(Ids)
    /\ probe \in {None} \cup Probe
    /\ session \in {None} \cup Session
    /\ detq \in Seq([ip : Ips, policy : {"allow", "deny"}])
    /\ switching \in {None} \cup Switching
    /\ acl \in Seq(Control)
    /\ rules \subseteq Ips
    /\ DOMAIN db \subseteq Ids /\ \A id \in DOMAIN db : db[id] \in Row
    /\ world \in [Ips -> Prints \cup {Down}]
    /\ convicted \subseteq Ips
    /\ halts \in Nat

\* The camera that is probed stays in the registry until the probe is over:
\* FTM_ANALYZER_process never works on a camera that FTM_CATCHB_onDeleteCCTV
\* has freed, and never schedules one that is gone.
ProbedExists ==
    /\ probe # None => /\ Has(probe.id)
                       /\ chain # <<>> /\ Head(chain) = probe.id
    /\ \A i \in DOMAIN chain :
          Has(chain[i]) /\ (main # None /\ main.op = "remove" => chain[i] # main.id)

\* The database keeps one row for each camera even when its statements fail:
\* each camera in memory, or on its way from the table to memory, has a row
\* (FTM_CATCHB_onCreateCCTV takes a camera back when the INSERT fails).
StoredInDb ==
    /\ Known \subseteq DOMAIN db
    /\ \A i \in DOMAIN inbox : inbox[i].type = "found" => inbox[i].id \in DOMAIN db

\* While the daemon runs no two cameras share an ID, although FOUND messages
\* are not checked: they are ahead of anything an operator can post
\* (FTM_CATCHB_onFoundCCTVInDB, FTM_CATCHB_process's start order).
UniqueIds ==
    /\ \A i, j \in DOMAIN cctvs : cctvs[i].id = cctvs[j].id => i = j
    /\ \A i \in DOMAIN inbox : inbox[i].type = "found" =>
          /\ ~Has(inbox[i].id)
          /\ \A j \in DOMAIN inbox :
                j < i => inbox[j].type = "found" /\ inbox[j].id # inbox[i].id

\* Each camera is in the analyzer's chain once, except while the handler that
\* creates or deletes it waits for the lock (IDs that differ in more than case).
EachScheduledOnce ==
    /\ \A i, j \in DOMAIN chain : chain[i] = chain[j] => i = j
    /\ ToSet(chain) =
          Known \ {id \in Ids : main \in [op : {"attach", "remove"}, id : {id}]}

\* With a database that works, the table holds the cameras of the registry
\* and those still announced to it, each with its address and its fingerprint:
\* what a restart would bring back.  A reset clears the fingerprint in memory
\* only (FTM_CATCHB_onSetCCTVStat), so an empty one says nothing of the row.
DbMirrors ==
    /\ running => DOMAIN db = Known \cup
          {inbox[i].id : i \in {j \in DOMAIN inbox : inbox[j].type = "found"}}
    /\ \A i \in DOMAIN cctvs : LET c == cctvs[i] IN
          /\ db[c.id].ip = c.ip
          /\ c.hash # NoHash => db[c.id].hash = c.hash

\* What the switch will do with an address once the detector's queue is empty.
WillBlock(ip) ==
    LET J == {j \in DOMAIN detq : detq[j].ip = ip}
    IN  IF J # {} THEN detq[CHOOSE j \in J : \A k \in J : k <= j].policy = "deny"
        ELSE IF switching # None /\ switching.ip = ip THEN switching.policy = "deny"
        ELSE ip \in rules

\* A camera that is shown as normal is not blocked, and will not be when the
\* detector has done what it was told; only an abnormal camera, or one that
\* stopped answering, may be (FTM_CATCHB_onSetCCTVStat against
\* FTM_DETECTOR_onSetControl).  So it is within one run of the daemon in which
\* operators only add cameras: a camera that is reset, deleted and added again,
\* or found again after a restart becomes normal without an order to free.
OnlyFaultyBlocked ==
    \A i \in DOMAIN cctvs :
        cctvs[i].stat \in {"normal", "unregistered"} => ~WillBlock(cctvs[i].ip)

\* The daemon's list of access controls and the switch agree but for the
\* address the detector is at work on, an address is in the list once, and
\* only denials are kept (FTM_SWITCH_addAC, FTM_SWITCH_deleteAC), while the
\* switch does what it is told, operators leave it alone, and the daemon is not
\* restarted, which loses the list.
AclMatchesSwitch ==
    /\ \A i, j \in DOMAIN acl : acl[i].ip = acl[j].ip => i = j
    /\ \A i \in DOMAIN acl : acl[i].policy = "deny"
    /\ \A ip \in Ips : switching = None \/ switching.ip # ip =>
          (ip \in rules <=> AcPositions(ip) # {})

\* Whatever the switch blocks has a denial in the daemon's list, so that an
\* order to allow finds something to undo, at every moment of an addition or a
\* removal, with resets and a switch that reports its failures (the order of
\* FTM_SWITCH_addAC and of FTM_SWITCH_deleteAC).  A restart loses the list.
BlocksAreListed ==
    halts = 0 => \A ip \in rules :
        \E i \in DOMAIN acl : acl[i] = [ip |-> ip, policy |-> "deny"]

\* The entry FTM_SWITCH_deleteAC has looked up is in the list until it takes it
\* out, however long the switch's script runs and whatever session threads do
\* to the list meanwhile: it frees the entry it found.
EntryInUse ==
    switching # None /\ switching.policy = "allow" => AcPositions(switching.ip) # {}

\* No address is blocked, or about to be, unless a probe of that very address
\* has seen a wrong fingerprint: not by a late finding, a reset, a camera that
\* was deleted and added again, or a restart, as long as no ID is ever given
\* another address (FTM_CATCHB_onSetCCTVStat, FTM_DETECTOR_onSetControl).
OnlyConvictedBlocked ==
    /\ rules \subseteq convicted
    /\ switching # None /\ switching.policy = "deny" => switching.ip \in convicted
    /\ \A i \in DOMAIN detq : detq[i].policy = "deny" => detq[i].ip \in convicted

-----------------------------------------------------------------------------
(* Refinement: the orders the detector has not finished, seen at the       *)
(* switch.  What is left of an order to free, once the switch has obeyed,  *)
(* is the daemon's own business.                                           *)

InHand ==
    IF switching = None THEN <<>>
    ELSE IF switching.step = "remove" THEN <<>>
    ELSE <<[ip |-> switching.ip, policy |-> switching.policy]>>

Switch == INSTANCE Orders WITH
    Address <- Ips, orders <- InHand \o detq, blocked <- rules

\* Every order to block or free an address takes effect once, in the order of
\* the changes of state it came from: none that FTM_DETECTOR_onSetControl skips
\* for what it finds in the list of access controls is missed at the switch,
\* while the switch does what it is told, operators leave it alone, and the
\* daemon is not restarted.
ImplementsOrders == Switch!FairSpec

-----------------------------------------------------------------------------
(* Liveness.                                                               *)

\* Every camera gets its turn again and again, until it is deleted.
ProbedForever ==
    \A id \in Ids : []<>(~Has(id) \/ (probe # None /\ probe.id = id))

Suspect(id) == Has(id) /\ Get(id).hash # NoHash /\ Fingerprint(Get(id).ip) # Get(id).hash
Answers(id) == Has(id) /\ world[Get(id).ip] # Down
Stat(id) == IF Has(id) THEN Get(id).stat ELSE "unregistered"

\* A camera that was normal and from then on shows another fingerprint is
\* blocked at the switch for good, within one run of the daemon.
ImpostorGetsBlocked ==
    \A id \in Ids :
        <>(Stat(id) = "normal" /\ [](Suspect(id) /\ Answers(id)))
            => <>[](Stat(id) = "abnormal" /\ Get(id).ip \in rules)

\* A camera that shows its registered fingerprint again is freed for good,
\* within one run of the daemon: if a restart comes in between, it stays blocked.
RecoveredGetsFreed ==
    \A id \in Ids :
        <>[](Answers(id) /\ ~Suspect(id))
            => <>[](Stat(id) = "normal" /\ Get(id).ip \notin rules)
=============================================================================
