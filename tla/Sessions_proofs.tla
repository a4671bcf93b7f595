--------------------------- MODULE Sessions_proofs ---------------------------
(***************************************************************************)
(* Proofs about Sessions for any number of connections and slots: no slot  *)
(* is lost, no session is freed while its thread runs or released twice,   *)
(* a stop leaves nothing behind, and clients see Connections.              *)
(***************************************************************************)
EXTENDS Sessions, ListLemmas, FiniteSetTheorems

-----------------------------------------------------------------------------
(* The inductive invariant.                                                *)

\* Where the server's thread is in its walk over the sessions at the end.
Walk ==
    /\ server \in {"join", "joinFinal"} <=> joining # None
    /\ server = "join" => thread[joining] \in {"post", "ended"}
    /\ server = "joinFinal" =>
          iter = 1 /\ sessionList # <<>> /\ joining = sessionList[1]
    /\ server \notin {"joinFinal", "done"} => iter = 0
    /\ server = "done" => sessionList = <<>>

IInv == TypeOK /\ SlotBalance /\ ReleasedOnce /\ Walk

-----------------------------------------------------------------------------
(* Slots.                                                                  *)

\* A step of one session's thread that takes no slot and gives none back.
LEMMA HoldingKept ==
    ASSUME TypeOK, NEW s \in Session, NEW from, NEW to, Step(s, from, to),
           to \in {"none", "wait", "serve", "recv", "call", "enlist", "post", "ended"},
           from \in {"serve", "recv", "call", "enlist", "post"}
               <=> to \in {"serve", "recv", "call", "enlist", "post"}
    PROVE  Holding' = Holding
BY DEF TypeOK, Step, Holding

\* The sessions with a slot are finite in number.
LEMMA HoldingFinite == IsFiniteSet(Holding) /\ Cardinality(Holding) \in Nat
<1>1. Holding \subseteq Session
  BY DEF Holding
<1> QED
  BY <1>1, SessionAssumption, FS_Subset, FS_CardinalityType

\* sem_timedwait takes the slot its session has from then on.
LEMMA AcquireBalance ==
    ASSUME TypeOK, SlotBalance, NEW s \in Session, Acquire(s)
    PROVE  SlotBalance'
<1>1. Holding' = Holding \cup {s} /\ s \notin Holding
  BY DEF TypeOK, Acquire, Step, Holding
<1>2. Cardinality(Holding') = Cardinality(Holding) + 1
  BY <1>1, HoldingFinite, FS_AddElement
<1>3. slots' = slots - 1 /\ slots \in Nat
  BY DEF TypeOK, Acquire
<1> QED
  BY <1>2, <1>3, HoldingFinite, SessionAssumption DEF SlotBalance

\* sem_post gives it back.
LEMMA PostBalance ==
    ASSUME TypeOK, SlotBalance, NEW s \in Session, Post(s)
    PROVE  SlotBalance'
<1>1. Holding' = Holding \ {s} /\ s \in Holding
  BY DEF TypeOK, Post, Step, Holding
<1>2. Cardinality(Holding') = Cardinality(Holding) - 1
  BY <1>1, HoldingFinite, FS_RemoveElement
<1>3. slots' = slots + 1 /\ slots \in Nat
  BY DEF TypeOK, Post
<1> QED
  BY <1>2, <1>3, HoldingFinite, SessionAssumption DEF SlotBalance

-----------------------------------------------------------------------------
(* The server's thread.                                                    *)

\* A session is freed when its thread has ended: it leaves the list, and the
\* iterator goes back from its entry (FTM_SERVER_destroySession).
LEMMA JoinStep ==
    ASSUME IInv, NEW back \in {"release", "final"}, Join(back),
           server = IF back = "release" THEN "join" ELSE "joinFinal"
    PROVE  IInv'
<1> USE DEF IInv
<1>1. joining \in Session /\ joining \in ToSet(sessionList) /\ joining # None
  BY DEF TypeOK, Walk, ReleasedOnce
<1> DEFINE k == Entry(joining)
<1>2. k \in 1..Len(sessionList) /\ sessionList[k] = joining
  <2>1. \E i \in DOMAIN sessionList : sessionList[i] = joining
    BY <1>1 DEF ToSet
  <2>2. DOMAIN sessionList = 1..Len(sessionList)
    BY DEF TypeOK
  <2> QED
    BY <2>1, <2>2 DEF Entry
<1> HIDE DEF k
<1>3. sessionList' = RemoveAt(sessionList, k) /\ iter' = IF k <= iter THEN iter - 1 ELSE iter
  BY DEF Join, RemoveSession, k
<1>4. /\ sessionList' \in Seq(Session)
      /\ IsInjective(sessionList')
      /\ ToSet(sessionList') = ToSet(sessionList) \ {joining}
  BY <1>2, <1>3, RemoveAtProperties, RemoveAtInjective DEF TypeOK, ReleasedOnce
<1>5. iter' = 0
  <2>1. CASE back = "release"
    BY <1>2, <1>3, <2>1 DEF Walk, TypeOK
  <2>2. CASE back = "final"
    <3>1. iter = 1 /\ joining = sessionList[1] /\ 1 \in DOMAIN sessionList
      BY <2>2 DEF Walk, TypeOK
    <3>2. k \in DOMAIN sessionList
      BY <1>2 DEF TypeOK
    <3>3. k = 1
      BY <1>2, <3>1, <3>2 DEF IsInjective, ReleasedOnce
    <3> QED
      BY <1>3, <3>1, <3>3
  <2> QED
    BY <2>1, <2>2
<1>6. /\ thread' = [thread EXCEPT ![joining] = "none"]
      /\ thread[joining] = "ended" /\ joining' = None /\ server' = back
      /\ UNCHANGED <<stop, slots, releaseList, bStop, shut, peer>>
  BY DEF Join, sockets
<1>7. TypeOK'
  BY <1>1, <1>4, <1>5, <1>6 DEF TypeOK
<1>8. SlotBalance'
  <2>1. Holding' = Holding
    BY <1>1, <1>6 DEF Holding, TypeOK
  <2> QED
    BY <1>6, <2>1 DEF SlotBalance
<1>9. ReleasedOnce'
  <2>1. ToSet(sessionList') = {s \in Session : thread'[s] # "none"}
    BY <1>1, <1>4, <1>6 DEF ReleasedOnce, TypeOK
  <2>2. ASSUME server' \notin {"final", "joinFinal", "done"}
        PROVE  /\ IsInjective(releaseList') /\ joining' \notin ToSet(releaseList')
               /\ \A s \in ToSet(releaseList') : thread'[s] \in {"post", "ended"}
    <3>1. /\ IsInjective(releaseList) /\ joining \notin ToSet(releaseList)
          /\ \A s \in ToSet(releaseList) : thread[s] \in {"post", "ended"}
      BY <1>6, <2>2 DEF ReleasedOnce
    <3>2. ToSet(releaseList) \subseteq Session
      BY DEF TypeOK, ToSet
    <3> QED
      BY <1>6, <3>1, <3>2, SessionAssumption DEF TypeOK
  <2> QED
    BY <1>4, <1>6, <2>1, <2>2 DEF ReleasedOnce
<1>10. Walk'
  BY <1>5, <1>6 DEF Walk
<1> QED
  BY <1>7, <1>8, <1>9, <1>10

\* A connection is in the list before its thread can do anything.
LEMMA AcceptStep ==
    ASSUME IInv, NEW s \in Session, Accept(s)
    PROVE  IInv'
<1> USE DEF IInv
<1>1. s \notin ToSet(sessionList)
  BY DEF Accept, ReleasedOnce
<1>2. /\ sessionList' \in Seq(Session)
      /\ IsInjective(sessionList')
      /\ ToSet(sessionList') = ToSet(sessionList) \cup {s}
  BY <1>1, AppendNew DEF Accept, TypeOK, ReleasedOnce
<1>3. TypeOK'
  BY <1>2 DEF Accept, TypeOK
<1>4. SlotBalance'
  <2>1. Holding' = Holding
    BY DEF Accept, Holding, TypeOK
  <2> QED
    BY <2>1 DEF Accept, SlotBalance
<1>5. ReleasedOnce'
  <2>1. ToSet(sessionList') = {t \in Session : thread'[t] # "none"}
    BY <1>2 DEF Accept, ReleasedOnce, TypeOK
  <2>2. joining' = None
    BY DEF Accept, Walk
  <2>3. /\ IsInjective(releaseList) /\ joining \notin ToSet(releaseList)
        /\ \A t \in ToSet(releaseList) : thread[t] \in {"post", "ended"}
    BY DEF Accept, ReleasedOnce
  <2>4. ToSet(releaseList) \subseteq Session
    BY DEF TypeOK, ToSet
  <2>5. \A t \in ToSet(releaseList) : thread'[t] \in {"post", "ended"}
    BY <2>3, <2>4 DEF Accept, TypeOK
  <2> QED
    BY <1>2, <2>1, <2>2, <2>3, <2>5 DEF Accept, ReleasedOnce
<1>6. Walk'
  BY DEF Accept, Walk
<1> QED
  BY <1>3, <1>4, <1>5, <1>6

\* The head of the release list is a session that is about to end.
LEMMA ReleaseStep ==
    ASSUME IInv, Release
    PROVE  IInv'
<1> USE DEF IInv
<1>1. CASE releaseList = <<>>
  BY <1>1 DEF Release, TypeOK, SlotBalance, Holding, ReleasedOnce, Walk
<1>2. CASE releaseList # <<>>
  <2> DEFINE s == Head(releaseList)
  <2>1. /\ server = "release" /\ server' = "join" /\ joining' = s
        /\ releaseList' = Tail(releaseList)
        /\ bStop' = [bStop EXCEPT ![s] = TRUE] /\ shut' = [shut EXCEPT ![s] = TRUE]
        /\ UNCHANGED <<stop, slots, sessionList, iter, thread, peer>>
    BY <1>2 DEF Release
  <2>2. /\ s \in Session /\ Tail(releaseList) \in Seq(Session)
        /\ IsInjective(Tail(releaseList)) /\ s \in ToSet(releaseList)
        /\ ToSet(Tail(releaseList)) = ToSet(releaseList) \ {s}
    BY <1>2, <2>1, TailOfInjective, HeadTailProperties DEF TypeOK, ReleasedOnce
  <2>3. thread[s] \in {"post", "ended"} /\ s # None
    BY <2>1, <2>2, SessionAssumption DEF ReleasedOnce
  <2> HIDE DEF s
  <2>4. TypeOK'
    BY <2>1, <2>2 DEF TypeOK
  <2>5. SlotBalance'
    BY <2>1 DEF SlotBalance, Holding
  <2>6. ReleasedOnce'
    BY <2>1, <2>2, <2>3 DEF ReleasedOnce
  <2>7. Walk'
    BY <2>1, <2>3 DEF Walk
  <2> QED
    BY <2>4, <2>5, <2>6, <2>7
<1> QED
  BY <1>1, <1>2

\* The walk takes the first entry as long as there is one.
LEMMA FinalStep ==
    ASSUME IInv, Final
    PROVE  IInv'
<1> USE DEF IInv
<1>0. server = "final" /\ iter = 0 /\ joining = None /\ Len(sessionList) \in Nat
  BY DEF Final, Walk, TypeOK
<1>1. CASE sessionList = <<>>
  <2>1. /\ server' = "done"
        /\ UNCHANGED <<stop, joining, slots, sessionList, iter, releaseList, thread, bStop, shut, peer>>
    BY <1>0, <1>1 DEF Final
  <2> QED
    BY <1>0, <1>1, <2>1 DEF TypeOK, SlotBalance, Holding, ReleasedOnce, Walk
<1>2. CASE sessionList # <<>>
  <2> DEFINE s == sessionList[1]
  <2>1. Len(sessionList) > 0 /\ 1 \in DOMAIN sessionList
    BY <1>0, <1>2, EmptySeq DEF TypeOK
  <2>2. /\ server' = "joinFinal" /\ iter' = 1 /\ joining' = s
        /\ bStop' = [bStop EXCEPT ![s] = TRUE] /\ shut' = [shut EXCEPT ![s] = TRUE]
        /\ UNCHANGED <<stop, slots, sessionList, releaseList, thread, peer>>
    BY <1>0, <2>1 DEF Final
  <2>3. s \in Session /\ s # None /\ s \in ToSet(sessionList)
    BY <2>1, SessionAssumption DEF TypeOK, ToSet
  <2>4. TypeOK'
    BY <2>2, <2>3 DEF TypeOK
  <2>5. SlotBalance'
    BY <2>2 DEF SlotBalance, Holding
  <2>6. ReleasedOnce'
    BY <2>2, <2>3 DEF ReleasedOnce
  <2>7. Walk'
    BY <1>2, <2>2, <2>3 DEF Walk
  <2> QED
    BY <2>4, <2>5, <2>6, <2>7
<1> QED
  BY <1>1, <1>2

\* The steps that change nothing but where the server's thread is.
LEMMA ServerMoves ==
    ASSUME IInv, Bind \/ Loop \/ AcceptNone
    PROVE  IInv'
<1> USE DEF IInv
<1>1. /\ server \in {"bind", "loop", "accept"}
      /\ server' \in {"loop", "final", "accept", "release"}
      /\ iter' = 0
      /\ UNCHANGED <<stop, joining, slots, sessionList, releaseList, thread, bStop, shut, peer>>
  BY DEF Bind, Loop, AcceptNone, lists, sockets, Walk
<1> QED
  BY <1>1 DEF TypeOK, SlotBalance, Holding, ReleasedOnce, Walk

-----------------------------------------------------------------------------
(* A session's thread.                                                     *)

Threads == {"none", "wait", "serve", "recv", "call", "enlist", "post", "ended"}

\* A step of a session's own thread neither frees it nor touches the lists.
LEMMA ThreadMoves ==
    ASSUME IInv, NEW s \in Session, NEW from \in Threads, NEW to \in Threads,
           Step(s, from, to),
           from # "none" /\ to # "none",
           from \in {"post", "ended"} => to \in {"post", "ended"},
           UNCHANGED <<stop, server, joining, sessionList, iter, releaseList>>
    PROVE  ReleasedOnce' /\ Walk'
<1> USE DEF IInv, Threads
<1>1. thread' = [thread EXCEPT ![s] = to] /\ thread[s] = from
  BY DEF Step
<1>2. ToSet(sessionList') = {t \in Session : thread'[t] # "none"}
  BY <1>1 DEF ReleasedOnce, TypeOK
<1>3. ToSet(releaseList) \subseteq Session
  BY DEF TypeOK, ToSet
<1>4. ReleasedOnce'
  BY <1>1, <1>2, <1>3 DEF ReleasedOnce, TypeOK
<1>5. Walk'
  BY <1>1, SessionAssumption DEF Walk, TypeOK
<1> QED
  BY <1>4, <1>5

\* A session that goes into the release list is not in it yet.
LEMMA EnlistStep ==
    ASSUME IInv, NEW s \in Session, Enlist(s)
    PROVE  IInv'
<1> USE DEF IInv
<1>1. /\ thread[s] = "enlist" /\ thread' = [thread EXCEPT ![s] = "post"]
      /\ releaseList' = Append(releaseList, s)
      /\ UNCHANGED <<stop, server, joining, sessionList, iter, slots, bStop, shut, peer>>
  BY DEF Enlist, Step, serverVars, sockets
<1>2. TypeOK'
  <2>1. Append(releaseList, s) \in Seq(Session)
    BY AppendProperties DEF TypeOK
  <2> QED
    BY <1>1, <2>1 DEF TypeOK
<1>3. SlotBalance'
  <2>1. Holding' = Holding
    BY <1>1 DEF Holding, TypeOK
  <2> QED
    BY <1>1, <2>1 DEF SlotBalance
<1>4. ReleasedOnce'
  <2>1. ToSet(sessionList') = {t \in Session : thread'[t] # "none"}
    BY <1>1 DEF ReleasedOnce, TypeOK
  <2>2. ASSUME server \notin {"final", "joinFinal", "done"}
        PROVE  /\ IsInjective(releaseList') /\ joining \notin ToSet(releaseList')
               /\ \A t \in ToSet(releaseList') : thread'[t] \in {"post", "ended"}
    <3>1. /\ IsInjective(releaseList) /\ joining \notin ToSet(releaseList)
          /\ \A t \in ToSet(releaseList) : thread[t] \in {"post", "ended"}
      BY <2>2 DEF ReleasedOnce
    <3>2. s \notin ToSet(releaseList) /\ joining # s
      BY <1>1, <2>2, <3>1, SessionAssumption DEF Walk
    <3>3. IsInjective(releaseList') /\ ToSet(releaseList') = ToSet(releaseList) \cup {s}
      BY <1>1, <3>1, <3>2, AppendNew DEF TypeOK
    <3>4. ToSet(releaseList) \subseteq Session
      BY DEF TypeOK, ToSet
    <3> QED
      BY <1>1, <3>1, <3>2, <3>3, <3>4 DEF TypeOK
  <2> QED
    BY <1>1, <2>1, <2>2 DEF ReleasedOnce
<1>5. Walk'
  BY <1>1, SessionAssumption DEF Walk, TypeOK
<1> QED
  BY <1>2, <1>3, <1>4, <1>5

\* The other steps of a session's thread.
LEMMA ThreadSteps ==
    ASSUME IInv, NEW s \in Session, ThreadStep(s)
    PROVE  IInv'
<1> USE DEF IInv
<1>1. CASE Acquire(s)
  <2>1. TypeOK'
    BY <1>1 DEF TypeOK, Acquire, Step, serverVars, sockets
  <2>2. Step(s, "wait", "serve") /\ UNCHANGED <<stop, server, joining, sessionList, iter, releaseList>>
    BY <1>1 DEF Acquire, serverVars
  <2> QED
    BY <1>1, <2>1, <2>2, AcquireBalance, ThreadMoves DEF Threads
<1>2. CASE Refuse(s)
  <2>1. TypeOK'
    BY <1>2 DEF TypeOK, Refuse, Step, serverVars
  <2>2. Step(s, "wait", "ended") /\ UNCHANGED <<stop, server, joining, sessionList, iter, releaseList, slots>>
    BY <1>2 DEF Refuse, serverVars
  <2>3. SlotBalance'
    BY <2>2, HoldingKept DEF SlotBalance
  <2> QED
    BY <2>1, <2>2, <2>3, ThreadMoves DEF Threads
<1>3. ASSUME NEW from \in {"serve", "recv", "call"}, NEW to \in {"serve", "recv", "call", "enlist"},
             Step(s, from, to), UNCHANGED <<serverVars, slots, releaseList, sockets>>
      PROVE  IInv'
  <2>1. UNCHANGED <<stop, server, joining, sessionList, iter, releaseList, slots, bStop, shut, peer>>
    BY <1>3 DEF serverVars, sockets
  <2>2. TypeOK'
    BY <1>3, <2>1 DEF TypeOK, Step
  <2>3. SlotBalance'
    BY <1>3, <2>1, HoldingKept DEF SlotBalance
  <2> QED
    BY <1>3, <2>1, <2>2, <2>3, ThreadMoves DEF Threads
<1>4. CASE Serve(s) \/ Recv(s) \/ RecvEnd(s) \/ Answer(s)
  BY <1>3, <1>4 DEF Serve, Recv, RecvEnd, Answer
<1>5. CASE Enlist(s)
  BY <1>5, EnlistStep
<1>6. CASE Post(s)
  <2>1. TypeOK'
    BY <1>6 DEF TypeOK, Post, Step, serverVars, sockets
  <2>2. Step(s, "post", "ended") /\ UNCHANGED <<stop, server, joining, sessionList, iter, releaseList>>
    BY <1>6 DEF Post, serverVars
  <2> QED
    BY <1>6, <2>1, <2>2, PostBalance, ThreadMoves DEF Threads
<1> QED
  BY <1>1, <1>2, <1>4, <1>5, <1>6 DEF ThreadStep, OwnStep

\* The server starts with all its slots and no session.
LEMMA InitHolds == Init => IInv
<1> SUFFICES ASSUME Init PROVE IInv
  OBVIOUS
<1>1. TypeOK
  <2>1. <<>> \in Seq(Session)
    OBVIOUS
  <2>2. /\ stop \in BOOLEAN
        /\ server \in {"bind", "loop", "accept", "release", "join", "final", "joinFinal", "done"}
        /\ joining \in Session \cup {None} /\ slots \in Nat /\ iter \in Nat
    BY SessionAssumption DEF Init
  <2>3. sessionList \in Seq(Session) /\ releaseList \in Seq(Session)
    BY <2>1 DEF Init
  <2>4. /\ thread \in [Session -> {"none", "wait", "serve", "recv", "call", "enlist", "post", "ended"}]
        /\ bStop \in [Session -> BOOLEAN] /\ shut \in [Session -> BOOLEAN]
        /\ peer \in [Session -> {"open", "closed"}]
    BY DEF Init
  <2> QED
    BY <2>2, <2>3, <2>4 DEF TypeOK
<1>2. SlotBalance
  <2>1. Holding = {}
    BY DEF Init, Holding
  <2> QED
    BY <2>1, FS_EmptySet, SessionAssumption DEF Init, SlotBalance
<1>3. ReleasedOnce
  BY DEF Init, ReleasedOnce, IsInjective, ToSet
<1>4. Walk
  BY DEF Init, Walk
<1> QED
  BY <1>1, <1>2, <1>3, <1>4 DEF IInv

\* Every step of server, sessions and clients keeps the invariant.
LEMMA NextKeeps == IInv /\ [Next]_vars => IInv'
<1> SUFFICES ASSUME IInv, [Next]_vars PROVE IInv'
  OBVIOUS
<1>1. CASE Bind \/ Loop \/ AcceptNone
  BY <1>1, ServerMoves
<1>2. CASE \E s \in Session : Accept(s)
  BY <1>2, AcceptStep
<1>3. CASE Release
  BY <1>3, ReleaseStep
<1>4. CASE JoinReleased
  BY <1>4, JoinStep DEF JoinReleased
<1>5. CASE Final
  BY <1>5, FinalStep
<1>6. CASE JoinFinal
  BY <1>6, JoinStep DEF JoinFinal
<1>7. CASE Stop
  BY <1>7 DEF Stop, lists, sockets, IInv, TypeOK, SlotBalance, Holding, ReleasedOnce, Walk
<1>8. CASE \E s \in Session : ThreadStep(s)
  BY <1>8, ThreadSteps
<1>9. CASE \E s \in Session : Hangup(s)
  BY <1>9 DEF Hangup, serverVars, IInv, TypeOK, SlotBalance, Holding, ReleasedOnce, Walk
<1>10. CASE UNCHANGED vars
  BY <1>10 DEF vars, IInv, TypeOK, SlotBalance, Holding, ReleasedOnce, Walk
<1> QED
  BY <1>1, <1>2, <1>3, <1>4, <1>5, <1>6, <1>7, <1>8, <1>9, <1>10 DEF Next, ServerStep

\* The invariant holds throughout.
LEMMA Invariance == Spec => []IInv
  BY InitHolds, NextKeeps, PTL DEF Spec

-----------------------------------------------------------------------------
(* Theorems.                                                               *)

\* Every variable of FTM_SERVER and of its FTM_SESSIONs keeps its type.
THEOREM TypeCorrect == Spec => []TypeOK
<1>1. IInv => TypeOK
  BY DEF IInv
<1> QED
  BY <1>1, Invariance, PTL

\* FTM_SERVER_service loses no slot and gives none twice.
THEOREM SlotBalanceCorrect == Spec => []SlotBalance
<1>1. IInv => SlotBalance
  BY DEF IInv
<1> QED
  BY <1>1, Invariance, PTL

\* FTM_SERVER_process frees a session once, after its thread has ended.
THEOREM ReleasedOnceCorrect == Spec => []ReleasedOnce
<1>1. IInv => ReleasedOnce
  BY DEF IInv
<1> QED
  BY <1>1, Invariance, PTL

\* After FTM_SERVER_stop no session and no thread of one is left.
THEOREM NothingLeftCorrect == Spec => []NothingLeft
<1>1. IInv => NothingLeft
  <2> SUFFICES ASSUME IInv, server = "done"
               PROVE  sessionList = <<>> /\ \A s \in Session : thread[s] = "none"
    BY DEF NothingLeft
  <2>1. sessionList = <<>>
    BY DEF IInv, Walk
  <2>2. ToSet(sessionList) = {}
    BY <2>1 DEF ToSet
  <2> QED
    BY <2>1, <2>2 DEF IInv, ReleasedOnce
<1> QED
  BY <1>1, Invariance, PTL

-----------------------------------------------------------------------------
(* Refinement.                                                             *)

\* What a client sees of a session whose thread is at t.
Seen(t) ==
    CASE t = "none"  -> "none"
      [] t = "wait"  -> "waiting"
      [] t = "ended" -> "over"
      [] OTHER       -> "served"

Conn == [s \in Session |->
           CASE thread[s] = "none"  -> "none"
             [] thread[s] = "wait"  -> "waiting"
             [] thread[s] = "ended" -> "over"
             [] OTHER               -> "served"]

\* A step of one thread is one move of its connection, or none.
LEMMA SeenMoves ==
    ASSUME TypeOK, NEW s \in Session, NEW to, thread' = [thread EXCEPT ![s] = to]
    PROVE  /\ Conn[s] = Seen(thread[s])
           /\ Conn' = [Conn EXCEPT ![s] = Seen(to)]
BY DEF TypeOK, Conn, Seen

\* The connections that are served are the sessions with a slot.
LEMMA ServedHold ==
    ASSUME TypeOK
    PROVE  {s \in Session : Conn[s] = "served"} = Holding
BY DEF TypeOK, Conn, Holding

\* The server starts without connections.
LEMMA ServiceInit == Init => Service!Init
BY DEF Init, Service!Init

\* Every step is one of Connections or leaves the connections as they are.
LEMMA ServiceStep == IInv /\ [Next]_vars => [Service!Next]_Conn
<1> SUFFICES ASSUME IInv, [Next]_vars PROVE [Service!Next]_Conn
  OBVIOUS
<1> USE DEF IInv
<1>1. ASSUME UNCHANGED thread PROVE UNCHANGED Conn
  BY <1>1 DEF Conn
<1>2. CASE \E s \in Session : Accept(s)
  <2>1. PICK s \in Session : Accept(s)
    BY <1>2
  <2>2. Conn[s] = "none" /\ Conn' = [Conn EXCEPT ![s] = "waiting"]
    BY <2>1, SeenMoves DEF Accept, Seen
  <2>3. Service!Connect(s)
    BY <2>2 DEF Service!Connect, Service!Move, Conn
  <2> QED
    BY <2>3 DEF Service!Next
<1>3. CASE JoinReleased \/ JoinFinal
  <2>1. /\ joining \in Session /\ thread[joining] = "ended"
        /\ thread' = [thread EXCEPT ![joining] = "none"]
    BY <1>3 DEF JoinReleased, JoinFinal, Join, Walk, TypeOK
  <2>2. PICK s \in Session : s = joining
    BY <2>1
  <2>3. Conn[s] = "over" /\ Conn' = [Conn EXCEPT ![s] = "none"]
    BY <2>1, <2>2, SeenMoves DEF Seen
  <2>4. Service!Close(s)
    BY <2>3 DEF Service!Close, Service!Move, Conn
  <2> QED
    BY <2>4 DEF Service!Next
<1>4. ASSUME NEW s \in Session, Acquire(s) PROVE Service!Next
  <2>0. thread[s] = "wait" /\ thread' = [thread EXCEPT ![s] = "serve"]
    BY <1>4 DEF Acquire, Step
  <2>1. Conn[s] = "waiting" /\ Conn' = [Conn EXCEPT ![s] = "served"]
    <3>1. Seen("wait") = "waiting" /\ Seen("serve") = "served"
      BY DEF Seen
    <3>2. Conn[s] = Seen("wait") /\ Conn' = [Conn EXCEPT ![s] = Seen("serve")]
      BY <2>0, SeenMoves
    <3> QED
      BY <3>1, <3>2
  <2>2. Cardinality(Holding) < MaxSession
    BY <1>4, HoldingFinite, SessionAssumption DEF Acquire, SlotBalance, TypeOK
  <2>3. Service!Served = Holding
    BY ServedHold DEF Service!Served, Conn
  <2>4. Service!Move(s, "waiting", "served")
    BY <2>1 DEF Service!Move, Conn
  <2>5. Cardinality(Service!Served) < MaxSession
    BY <2>2, <2>3
  <2>6. Service!Serve(s)
    BY <2>4, <2>5 DEF Service!Serve, Service!Cardinality, Cardinality
  <2> QED
    BY <2>6 DEF Service!Next
<1>5. ASSUME NEW s \in Session, Refuse(s) PROVE Service!Next
  <2>1. Conn[s] = "waiting" /\ Conn' = [Conn EXCEPT ![s] = "over"]
    BY <1>5, SeenMoves DEF Refuse, Step, Seen
  <2>2. Service!Refuse(s)
    BY <2>1 DEF Service!Refuse, Service!Move, Conn
  <2> QED
    BY <2>2 DEF Service!Next
<1>6. ASSUME NEW s \in Session, Post(s) PROVE Service!Next
  <2>1. Conn[s] = "served" /\ Conn' = [Conn EXCEPT ![s] = "over"]
    BY <1>6, SeenMoves DEF Post, Step, Seen
  <2>2. Service!Finish(s)
    BY <2>1 DEF Service!Finish, Service!Move, Conn
  <2> QED
    BY <2>2 DEF Service!Next
<1>7. ASSUME NEW s \in Session,
             Serve(s) \/ Recv(s) \/ RecvEnd(s) \/ Answer(s) \/ Enlist(s)
      PROVE  UNCHANGED Conn
  BY <1>7 DEF Serve, Recv, RecvEnd, Answer, Enlist, Step, Conn, TypeOK
<1>8. CASE \E s \in Session : ThreadStep(s)
  BY <1>4, <1>5, <1>6, <1>7, <1>8 DEF ThreadStep, OwnStep
<1>9. CASE Bind \/ Loop \/ AcceptNone \/ Release \/ Final \/ Stop \/ UNCHANGED vars
  <2>1. UNCHANGED thread
    BY <1>9 DEF Bind, Loop, AcceptNone, Release, Final, Stop, vars
  <2> QED
    BY <1>1, <2>1
<1>10. CASE \E s \in Session : Hangup(s)
  BY <1>1, <1>10 DEF Hangup
<1> QED
  BY <1>2, <1>3, <1>8, <1>9, <1>10 DEF Next, ServerStep

\* What clients see of FTM_SERVER is a service of at most MaxSession
\* connections at a time, each closed only when it is over.
THEOREM ConnectionsRefinement == Spec => ImplementsConnections
<1>1. IInv /\ [Next]_vars => [Service!Next]_Conn
  BY ServiceStep
<1> QED
  BY <1>1, ServiceInit, Invariance, PTL DEF Spec, ImplementsConnections, Service!Spec, Conn
=============================================================================
