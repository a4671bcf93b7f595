------------------------------ MODULE Sessions ------------------------------
(***************************************************************************)
(* The server's connections.  The server's thread accepts each of them and *)
(* starts a thread for it, which waits two seconds for one of MaxSession   *)
(* slots, serves requests, and puts itself into the list of sessions to    *)
(* release; the server's thread joins and frees those.  A stop ends the    *)
(* sessions that are left, in the order of the session list.               *)
(*                                                                         *)
(* A session is the heap block FTM_SESSION: a freed one is used again for  *)
(* a later connection.                                                     *)
(***************************************************************************)
EXTENDS Naturals, Sequences, FiniteSets, SequencesExt

CONSTANTS
    Session,        \* addresses of FTM_SESSION blocks
    MaxSession,     \* xConfig.ulMaxSession
    None            \* the server's thread waits for no one

ASSUME SessionAssumption ==
    IsFiniteSet(Session) /\ MaxSession \in Nat /\ None \notin Session

VARIABLES
    stop,           \* FTM_SERVER.bStop
    server,         \* where the server's thread is
    joining,        \* the session whose thread it waits for, or None
    slots,          \* value of xSemaphore
    sessionList,    \* xSessionList
    iter,           \* its iterator: the position of an entry, 0 for the head
    releaseList,    \* xReleaseSessionList
    thread,         \* where each session's thread is
    bStop,          \* FTM_SESSION.bStop of each session
    shut,           \* its socket has been shut down for reading
    peer            \* the client has its end "open" or "closed"

vars == <<stop, server, joining, slots, sessionList, iter, releaseList, thread, bStop, shut, peer>>
lists == <<sessionList, iter, releaseList>>
sockets == <<bStop, shut, peer>>
serverVars == <<stop, server, joining, sessionList, iter>>

Init ==
    /\ stop = FALSE
    /\ server = "bind" /\ joining = None
    /\ slots = MaxSession
    /\ sessionList = <<>> /\ iter = 0 /\ releaseList = <<>>
    /\ thread = [s \in Session |-> "none"]
    /\ bStop = [s \in Session |-> FALSE]
    /\ shut = [s \in Session |-> FALSE]
    /\ peer = [s \in Session |-> "closed"]

-----------------------------------------------------------------------------
(* The server's thread (FTM_SERVER_process).                               *)

\* The port is bound, or the server is stopped before it could be.
Bind ==
    /\ server = "bind"
    /\ server' = "loop"
    /\ UNCHANGED <<stop, joining, slots, lists, thread, sockets>>

Loop ==
    /\ server = "loop"
    /\ IF stop
       THEN server' = "final" /\ iter' = 0
       ELSE server' = "accept" /\ UNCHANGED iter
    /\ UNCHANGED <<stop, joining, slots, sessionList, releaseList, thread, sockets>>

\* A connection: FTM_SERVER_createSession, then a thread for it.
Accept(s) ==
    /\ server = "accept"
    /\ thread[s] = "none"
    /\ sessionList' = Append(sessionList, s)
    /\ thread' = [thread EXCEPT ![s] = "wait"]
    /\ bStop' = [bStop EXCEPT ![s] = FALSE]
    /\ shut' = [shut EXCEPT ![s] = FALSE]
    /\ peer' = [peer EXCEPT ![s] = "open"]
    /\ server' = "release"
    /\ UNCHANGED <<stop, joining, slots, iter, releaseList>>

\* No connection, or no memory or thread for one, which is closed at once.
AcceptNone ==
    /\ server = "accept"
    /\ server' = "release"
    /\ UNCHANGED <<stop, joining, slots, lists, thread, sockets>>

\* Variant: the session stays in the list of those to release.
ReleaseKeeps ==
    /\ server = "release"
    /\ IF releaseList = <<>>
       THEN server' = "loop" /\ UNCHANGED <<joining, bStop, shut>>
       ELSE LET s == Head(releaseList) IN
            /\ server' = "join" /\ joining' = s
            /\ bStop' = [bStop EXCEPT ![s] = TRUE]
            /\ shut' = [shut EXCEPT ![s] = TRUE]
    /\ UNCHANGED <<stop, slots, sessionList, iter, releaseList, thread, peer>>

\* The first session to release is told to stop; its thread is waited for.
Release ==
    /\ server = "release"
    /\ IF releaseList = <<>>
       THEN server' = "loop" /\ UNCHANGED <<joining, releaseList, bStop, shut>>
       ELSE LET s == Head(releaseList) IN
            /\ server' = "join" /\ joining' = s
            /\ releaseList' = Tail(releaseList)
            /\ bStop' = [bStop EXCEPT ![s] = TRUE]
            /\ shut' = [shut EXCEPT ![s] = TRUE]
    /\ UNCHANGED <<stop, slots, sessionList, iter, thread, peer>>

Entry(s) == CHOOSE i \in DOMAIN sessionList : sessionList[i] = s

\* Variant: the iterator stays on the entry that is freed.
RemoveSessionOnly(s) ==
    /\ sessionList' = RemoveAt(sessionList, Entry(s))
    /\ UNCHANGED iter

\* Variant: the iterator is taken back whatever entry it is on.
RemoveSessionBack(s) ==
    /\ sessionList' = RemoveAt(sessionList, Entry(s))
    /\ iter' = iter - 1

\* FTM_LIST_remove takes the iterator back from the entry it frees.
RemoveSession(s) ==
    /\ sessionList' = RemoveAt(sessionList, Entry(s))
    /\ iter' = IF Entry(s) <= iter THEN iter - 1 ELSE iter

\* pthread_join returns; FTM_SERVER_destroySession closes and frees.
Join(back) ==
    /\ thread[joining] = "ended"
    /\ thread' = [thread EXCEPT ![joining] = "none"]
    /\ RemoveSession(joining)
    /\ joining' = None
    /\ server' = back
    /\ UNCHANGED <<stop, slots, releaseList, sockets>>

JoinReleased == server = "join" /\ Join("release")

\* Variant: the socket is left open for reading.
FinalNoShutdown ==
    /\ server = "final"
    /\ IF iter >= Len(sessionList)
       THEN server' = "done" /\ UNCHANGED <<joining, iter, bStop>>
       ELSE LET s == sessionList[iter + 1] IN
            /\ iter' = iter + 1
            /\ server' = "joinFinal" /\ joining' = s
            /\ bStop' = [bStop EXCEPT ![s] = TRUE]
    /\ UNCHANGED <<stop, slots, sessionList, releaseList, thread, shut, peer>>

\* After a stop: the next session of the list, whether or not it is released.
Final ==
    /\ server = "final"
    /\ IF iter >= Len(sessionList)
       THEN server' = "done" /\ UNCHANGED <<joining, iter, bStop, shut>>
       ELSE LET s == sessionList[iter + 1] IN
            /\ iter' = iter + 1
            /\ server' = "joinFinal" /\ joining' = s
            /\ bStop' = [bStop EXCEPT ![s] = TRUE]
            /\ shut' = [shut EXCEPT ![s] = TRUE]
    /\ UNCHANGED <<stop, slots, sessionList, releaseList, thread, peer>>

JoinFinal == server = "joinFinal" /\ Join("final")

\* FTM_SERVER_stop, from the main thread, which then joins the server's.
Stop ==
    /\ ~stop
    /\ stop' = TRUE
    /\ UNCHANGED <<server, joining, slots, lists, thread, sockets>>

-----------------------------------------------------------------------------
(* A session's thread (FTM_SERVER_service).                                *)

Step(s, from, to) == thread[s] = from /\ thread' = [thread EXCEPT ![s] = to]

\* Variant: the result of sem_timedwait is not looked at.
AcquireUnchecked(s) ==
    /\ Step(s, "wait", "serve")
    /\ slots' = IF slots > 0 THEN slots - 1 ELSE slots
    /\ UNCHANGED <<serverVars, releaseList, sockets>>

Acquire(s) ==
    /\ slots > 0
    /\ Step(s, "wait", "serve")
    /\ slots' = slots - 1
    /\ UNCHANGED <<serverVars, releaseList, sockets>>

\* Two seconds without a slot: the thread ends, the session stays in the list.
Refuse(s) ==
    /\ slots = 0
    /\ Step(s, "wait", "ended")
    /\ shut' = [shut EXCEPT ![s] = TRUE]
    /\ UNCHANGED <<serverVars, slots, releaseList, bStop, peer>>

\* while (!pSession->bStop)
Serve(s) ==
    /\ Step(s, "serve", IF bStop[s] THEN "enlist" ELSE "recv")
    /\ UNCHANGED <<serverVars, slots, releaseList, sockets>>

\* A request arrives and its command begins.
Recv(s) ==
    /\ peer[s] = "open"
    /\ Step(s, "recv", "call")
    /\ UNCHANGED <<serverVars, slots, releaseList, sockets>>

\* recv has nothing more to return.
RecvEnd(s) ==
    /\ peer[s] = "closed" \/ shut[s]
    /\ Step(s, "recv", "enlist")
    /\ UNCHANGED <<serverVars, slots, releaseList, sockets>>

\* The command is over and answered, or the answer cannot be sent.
Answer(s) ==
    /\ Step(s, "call", "serve") \/ Step(s, "call", "enlist")
    /\ UNCHANGED <<serverVars, slots, releaseList, sockets>>

\* Variant: the session is not put into the list.
EnlistNot(s) ==
    /\ Step(s, "enlist", "post")
    /\ UNCHANGED <<serverVars, slots, releaseList, sockets>>

Enlist(s) ==
    /\ Step(s, "enlist", "post")
    /\ releaseList' = Append(releaseList, s)
    /\ UNCHANGED <<serverVars, slots, sockets>>

\* Variant: the slot is kept.
PostNot(s) ==
    /\ Step(s, "post", "ended")
    /\ UNCHANGED <<serverVars, slots, releaseList, sockets>>

Post(s) ==
    /\ Step(s, "post", "ended")
    /\ slots' = slots + 1
    /\ UNCHANGED <<serverVars, releaseList, sockets>>

\* The client closes its end, or the connection breaks.
Hangup(s) ==
    /\ peer[s] = "open"
    /\ peer' = [peer EXCEPT ![s] = "closed"]
    /\ UNCHANGED <<serverVars, slots, releaseList, thread, bStop, shut>>

-----------------------------------------------------------------------------
ServerStep ==
    \/ Bind \/ Loop \/ AcceptNone \/ (\E s \in Session : Accept(s))
    \/ Release \/ JoinReleased \/ Final \/ JoinFinal

\* What a session's thread does without its client.
OwnStep(s) ==
    \/ Acquire(s) \/ Refuse(s) \/ Serve(s) \/ RecvEnd(s)
    \/ Answer(s) \/ Enlist(s) \/ Post(s)

ThreadStep(s) == OwnStep(s) \/ Recv(s)

Next ==
    \/ ServerStep
    \/ Stop
    \/ \E s \in Session : ThreadStep(s) \/ Hangup(s)

Spec == Init /\ [][Next]_vars

\* Threads run and commands come to an end; clients owe nothing, no request
\* either.
FairSpec ==
    /\ Spec
    /\ WF_vars(ServerStep)
    /\ \A s \in Session : WF_vars(OwnStep(s))

-----------------------------------------------------------------------------
(* Properties.                                                             *)

\* Every variable has its type (FTM_SERVER, FTM_SESSION).
TypeOK ==
    /\ stop \in BOOLEAN
    /\ server \in {"bind", "loop", "accept", "release", "join", "final", "joinFinal", "done"}
    /\ joining \in Session \cup {None}
    /\ slots \in Nat
    /\ sessionList \in Seq(Session)
    /\ iter \in Nat
    /\ releaseList \in Seq(Session)
    /\ thread \in [Session -> {"none", "wait", "serve", "recv", "call", "enlist", "post", "ended"}]
    /\ bStop \in [Session -> BOOLEAN]
    /\ shut \in [Session -> BOOLEAN]
    /\ peer \in [Session -> {"open", "closed"}]

\* Sessions that have a slot.
Holding == {s \in Session : thread[s] \in {"serve", "recv", "call", "enlist", "post"}}

\* No slot is lost or given twice, whatever way a session ends: so no more
\* than MaxSession are ever served (FTM_SERVER_service).
SlotBalance == slots + Cardinality(Holding) = MaxSession

\* What the server's thread takes from the release list it has not freed, and
\* takes once: each block is in the list of sessions as long as its thread
\* exists, and in the release list at most once and not while it is being
\* joined (FTM_SERVER_process frees after the join only).
ReleasedOnce ==
    /\ IsInjective(sessionList)
    /\ ToSet(sessionList) = {s \in Session : thread[s] # "none"}
    /\ joining # None => joining \in ToSet(sessionList)
    /\ server \notin {"final", "joinFinal", "done"} =>
          /\ IsInjective(releaseList)
          /\ joining \notin ToSet(releaseList)
          /\ \A s \in ToSet(releaseList) : thread[s] \in {"post", "ended"}

\* When FTM_SERVER_stop returns no session's thread runs and none is left in
\* the list, although the list shrinks under the iterator (FTM_SERVER_process
\* with FTM_LIST_remove).
NothingLeft ==
    server = "done" => sessionList = <<>> /\ \A s \in Session : thread[s] = "none"

-----------------------------------------------------------------------------
(* Refinement: what a session's thread does, seen by its client.           *)

Service == INSTANCE Connections WITH
    conn <- [s \in Session |->
               CASE thread[s] = "none"  -> "none"
                 [] thread[s] = "wait"  -> "waiting"
                 [] thread[s] = "ended" -> "over"
                 [] OTHER               -> "served"]

\* Connections are served within the limit, and closed when they are over.
ImplementsConnections == Service!Spec

-----------------------------------------------------------------------------
(* Liveness.                                                               *)

\* FTM_SERVER_stop returns, whatever clients keep their connections open or
\* never send, and however many sessions still wait for a slot.
StopEnds == stop ~> server = "done"

\* A session that was served is freed once its client has hung up, while
\* others come and go.
ServedIsReleased ==
    \A s \in Session : s \in Holding /\ peer[s] = "closed" ~> thread[s] = "none"
=============================================================================
