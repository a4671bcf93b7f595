------------------------------ MODULE MsgQueue ------------------------------
(***************************************************************************)
(* FTM_MSGQ: a list guarded by one semaphore (FTM_LIST, FTM_QUEUE) and a   *)
(* second semaphore that counts its messages.  Every thread of the daemon  *)
(* (main, analyzer, detector, notifier, logger) waits on one of these.     *)
(*                                                                         *)
(* A step is one critical section of the list's lock or one operation on   *)
(* the counting semaphore, so push is two steps (append, post) and pop is  *)
(* three (wait, FTM_LIST_getAt, FTM_LIST_remove).  A message is the heap   *)
(* buffer that carries it: FTM_MEM_free makes the same address available   *)
(* to a later FTM_MEM_malloc, and pop removes the entry whose pointer is   *)
(* equal to the one it read, so reuse of addresses is kept.                *)
(***************************************************************************)
EXTENDS Naturals, Sequences, FiniteSets, SequencesExt

CONSTANTS
    Producers,  \* threads that push: sessions, timers, the other components
    Consumers,  \* threads that pop: one for every queue of the daemon
    Message,    \* heap buffers
    NoMsg       \* the null pointer

ASSUME ThreadsAssumption == IsFiniteSet(Producers) /\ IsFiniteSet(Consumers)
ASSUME NoMsgAssumption == NoMsg \notin Message

VARIABLES
    queue,      \* the list's entries (pData), oldest first
    sem,        \* value of FTM_MSGQ.xLock
    ppc, pmsg,  \* per producer: where it is in push, the buffer it fills
    cpc, cmsg,  \* per consumer: where it is in its loop, pItem of timedPop
    bStop,      \* the consumers' stop flag
    open        \* the queue exists (FTM_MSGQ_destroy has not run)

vars == <<queue, sem, ppc, pmsg, cpc, cmsg, bStop, open>>
producerVars == <<ppc, pmsg>>
consumerVars == <<cpc, cmsg>>

Init ==
    /\ queue = <<>>
    /\ sem = 0
    /\ ppc = [p \in Producers |-> "idle"]
    /\ pmsg = [p \in Producers |-> NoMsg]
    /\ cpc = [c \in Consumers |-> "loop"]
    /\ cmsg = [c \in Consumers |-> NoMsg]
    /\ bStop = FALSE
    /\ open = TRUE

\* Buffers that are allocated: owned by a producer, the queue or a consumer.
\* A consumer that has only read the head's pointer ("remove") owns nothing.
Live ==
    ToSet(queue)
        \cup {pmsg[p] : p \in {q \in Producers : ppc[q] = "append"}}
        \cup {cmsg[c] : c \in {d \in Consumers : cpc[d] = "handle"}}

-----------------------------------------------------------------------------
(* Producers: FTM_MEM_malloc, FTM_MSGQ_push.                               *)

Malloc(p) ==
    /\ ppc[p] = "idle"
    /\ open
    /\ \E m \in Message \ Live : pmsg' = [pmsg EXCEPT ![p] = m]
    /\ ppc' = [ppc EXCEPT ![p] = "append"]
    /\ UNCHANGED <<queue, sem, consumerVars, bStop, open>>

\* Variant: the entry goes to the head of the list.
PushEntryAtHead(p) ==
    /\ ppc[p] = "append"
    /\ queue' = <<pmsg[p]>> \o queue
    /\ pmsg' = [pmsg EXCEPT ![p] = NoMsg]
    /\ ppc' = [ppc EXCEPT ![p] = "post"]
    /\ UNCHANGED <<sem, consumerVars, bStop, open>>

\* Variant: push returns without posting.
PushEntryOnly(p) ==
    /\ ppc[p] = "append"
    /\ queue' = Append(queue, pmsg[p])
    /\ pmsg' = [pmsg EXCEPT ![p] = NoMsg]
    /\ ppc' = [ppc EXCEPT ![p] = "idle"]
    /\ UNCHANGED <<sem, consumerVars, bStop, open>>

PushEntry(p) ==
    /\ ppc[p] = "append"
    /\ queue' = Append(queue, pmsg[p])
    /\ pmsg' = [pmsg EXCEPT ![p] = NoMsg]
    /\ ppc' = [ppc EXCEPT ![p] = "post"]
    /\ UNCHANGED <<sem, consumerVars, bStop, open>>

\* Variant: push posts whatever FTM_QUEUE_push returned.
PushFailsButPosts(p) ==
    /\ ppc[p] = "append"
    /\ pmsg' = [pmsg EXCEPT ![p] = NoMsg]
    /\ ppc' = [ppc EXCEPT ![p] = "post"]
    /\ UNCHANGED <<queue, sem, consumerVars, bStop, open>>

\* No memory for the list entry: nothing is posted, the caller frees.
PushFails(p) ==
    /\ ppc[p] = "append"
    /\ pmsg' = [pmsg EXCEPT ![p] = NoMsg]
    /\ ppc' = [ppc EXCEPT ![p] = "idle"]
    /\ UNCHANGED <<queue, sem, consumerVars, bStop, open>>

Post(p) ==
    /\ ppc[p] = "post"
    /\ sem' = sem + 1
    /\ ppc' = [ppc EXCEPT ![p] = "idle"]
    /\ UNCHANGED <<queue, pmsg, consumerVars, bStop, open>>

-----------------------------------------------------------------------------
(* Consumers: while (!bStop) { timedPop; handle; free }.                   *)

Loop(c) ==
    /\ cpc[c] = "loop"
    /\ cpc' = [cpc EXCEPT ![c] = IF bStop THEN "exit" ELSE "wait"]
    /\ UNCHANGED <<queue, sem, producerVars, cmsg, bStop, open>>

\* Variant: the result of sem_timedwait is not looked at.
SemTimedWaitUnchecked(c) ==
    /\ cpc[c] = "wait"
    /\ sem' = sem - 1
    /\ cpc' = [cpc EXCEPT ![c] = "getAt"]
    /\ UNCHANGED <<queue, producerVars, cmsg, bStop, open>>

SemTimedWait(c) ==
    /\ cpc[c] = "wait"
    /\ sem > 0
    /\ sem' = sem - 1
    /\ cpc' = [cpc EXCEPT ![c] = "getAt"]
    /\ UNCHANGED <<queue, producerVars, cmsg, bStop, open>>

Timeout(c) ==
    /\ cpc[c] = "wait"
    /\ sem = 0
    /\ cpc' = [cpc EXCEPT ![c] = "loop"]
    /\ UNCHANGED <<queue, sem, producerVars, cmsg, bStop, open>>

ListGetAt(c) ==
    /\ cpc[c] = "getAt"
    /\ IF queue = <<>>
       THEN /\ cpc' = [cpc EXCEPT ![c] = "repost"]
            /\ UNCHANGED cmsg
       ELSE /\ cpc' = [cpc EXCEPT ![c] = "remove"]
            /\ cmsg' = [cmsg EXCEPT ![c] = Head(queue)]
    /\ UNCHANGED <<queue, sem, producerVars, bStop, open>>

\* Variant: pop trusts the pointer that getAt returned.
ListRemoveTrusting(c) ==
    /\ cpc[c] = "remove"
    /\ queue' = RemoveFirst(queue, cmsg[c])
    /\ cpc' = [cpc EXCEPT ![c] = "handle"]
    /\ UNCHANGED <<sem, producerVars, cmsg, bStop, open>>

ListRemove(c) ==
    /\ cpc[c] = "remove"
    /\ IF cmsg[c] \in ToSet(queue)
       THEN /\ queue' = RemoveFirst(queue, cmsg[c])
            /\ cpc' = [cpc EXCEPT ![c] = "handle"]
            /\ UNCHANGED cmsg
       ELSE /\ cpc' = [cpc EXCEPT ![c] = "repost"]
            /\ cmsg' = [cmsg EXCEPT ![c] = NoMsg]
            /\ UNCHANGED queue
    /\ UNCHANGED <<sem, producerVars, bStop, open>>

\* Variant: a failed pop keeps its token.
RepostNothing(c) ==
    /\ cpc[c] = "repost"
    /\ cpc' = [cpc EXCEPT ![c] = "loop"]
    /\ UNCHANGED <<queue, sem, producerVars, cmsg, bStop, open>>

\* The pop failed after the wait: timedPop gives the token back.
Repost(c) ==
    /\ cpc[c] = "repost"
    /\ sem' = sem + 1
    /\ cpc' = [cpc EXCEPT ![c] = "loop"]
    /\ UNCHANGED <<queue, producerVars, cmsg, bStop, open>>

HandleAndFree(c) ==
    /\ cpc[c] = "handle"
    /\ cmsg' = [cmsg EXCEPT ![c] = NoMsg]
    /\ cpc' = [cpc EXCEPT ![c] = "loop"]
    /\ UNCHANGED <<queue, sem, producerVars, bStop, open>>

-----------------------------------------------------------------------------
(* The owner: stop (bStop, then join) and destroy.                         *)

Stop ==
    /\ ~bStop
    /\ bStop' = TRUE
    /\ UNCHANGED <<queue, sem, producerVars, consumerVars, open>>

\* FTM_MSGQ_destroy, after the join; the daemon stops what pushes first.
Destroy ==
    /\ open
    /\ \A c \in Consumers : cpc[c] = "exit"
    /\ \A p \in Producers : ppc[p] = "idle"
    /\ queue' = <<>>
    /\ sem' = 0
    /\ open' = FALSE
    /\ UNCHANGED <<producerVars, consumerVars, bStop>>

-----------------------------------------------------------------------------
ProducerStep(p) == Malloc(p) \/ PushEntry(p) \/ PushFails(p) \/ Post(p)

ConsumerStep(c) ==
    \/ Loop(c) \/ SemTimedWait(c) \/ Timeout(c)
    \/ ListGetAt(c) \/ ListRemove(c) \/ Repost(c) \/ HandleAndFree(c)

Next ==
    \/ \E p \in Producers : ProducerStep(p)
    \/ \E c \in Consumers : ConsumerStep(c)
    \/ Stop
    \/ Destroy

Spec == Init /\ [][Next]_vars

\* Every thread keeps running; nothing obliges a producer to send again.
FairSpec ==
    /\ Spec
    /\ \A p \in Producers : WF_vars(PushEntry(p) \/ PushFails(p) \/ Post(p))
    /\ \A c \in Consumers : WF_vars(ConsumerStep(c))

-----------------------------------------------------------------------------
(* Properties.                                                             *)

\* Every variable has its type (FTM_MSGQ_init and the three-step pop).
TypeOK ==
    /\ queue \in Seq(Message)
    /\ sem \in Nat
    /\ ppc \in [Producers -> {"idle", "append", "post"}]
    /\ pmsg \in [Producers -> Message \cup {NoMsg}]
    /\ cpc \in [Consumers ->
                  {"loop", "wait", "getAt", "remove", "repost", "handle", "exit"}]
    /\ cmsg \in [Consumers -> Message \cup {NoMsg}]
    /\ bStop \in BOOLEAN
    /\ open \in BOOLEAN

Posting == {p \in Producers : ppc[p] = "post"}
Popping == {c \in Consumers : cpc[c] \in {"getAt", "remove", "repost"}}

\* The counting semaphore never drifts from the list: the tokens in it, plus
\* those a push owes and those pops have taken and not yet spent, are exactly
\* the entries of the list (FTM_MSGQ_push, FTM_MSGQ_timedPop's re-post).
TokenBalance == Len(queue) = sem + Cardinality(Posting) + Cardinality(Popping)

\* A buffer has one owner: it is in the list once, or one producer is filling
\* it, or one consumer works on it, even though pop reads the head and removes
\* it in two critical sections and addresses are reused (FTM_QUEUE_pop).
OneOwner ==
    /\ IsInjective(queue)
    /\ \A p \in Producers : ppc[p] = "append" =>
          /\ pmsg[p] \notin ToSet(queue)
          /\ \A q \in Producers \ {p} : ppc[q] = "append" => pmsg[q] # pmsg[p]
          /\ \A c \in Consumers : cpc[c] = "handle" => cmsg[c] # pmsg[p]
    /\ \A c \in Consumers : cpc[c] = "handle" =>
          /\ cmsg[c] \notin ToSet(queue)
          /\ \A d \in Consumers \ {c} : cpc[d] = "handle" => cmsg[d] # cmsg[c]

\* A consumer that got a token finds a list that is not empty: getAt cannot
\* fail after sem_timedwait, only remove can (FTM_QUEUE_pop).
TokenMeansEntry == \A c \in Consumers : cpc[c] = "getAt" => queue # <<>>

\* With the single reader every queue of the daemon has, a pop that got past
\* the semaphore never fails (FTM_MSGQ_timedPop never re-posts).
SingleReaderPops ==
    Cardinality(Consumers) = 1 => \A c \in Consumers : cpc[c] # "repost"

-----------------------------------------------------------------------------
(* Refinement, for one consumer: FTM_LIST_append sends, FTM_LIST_remove    *)
(* receives, and reading the head is invisible.                            *)

Reader == CHOOSE c \in Consumers : TRUE

Fifo == INSTANCE MsgFifo WITH
    fifo <- queue,
    held <- IF cpc[Reader] = "handle" THEN cmsg[Reader] ELSE NoMsg,
    reading <- cpc[Reader] # "exit"

\* The queue is a fair FIFO with one delivery in progress.
ImplementsFifo == Fifo!FairSpec

\* No message stays in a queue whose reader runs: it is read, or the reader
\* is stopped (the loops of the five daemon threads).
QueuedIsRead ==
    \A m \in Message :
        (m \in ToSet(queue)) ~> (m \notin ToSet(queue) \/ bStop)
=============================================================================
