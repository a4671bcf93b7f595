------------------------------ MODULE MsgFifo ------------------------------
(***************************************************************************)
(* What a message queue of the daemon promises to the thread that reads    *)
(* it: messages come out one at a time, in the order in which they went in,*)
(* and none is lost or delivered twice while the reader lives.             *)
(* MsgQueue, the FTM_MSGQ / FTM_QUEUE / FTM_LIST code, implements this.    *)
(***************************************************************************)
EXTENDS Sequences

CONSTANTS Message, NoMsg

VARIABLES
    fifo,       \* messages sent and not yet received
    held,       \* the message its reader is working on, or NoMsg
    reading     \* the reader thread has not left its loop

vars == <<fifo, held, reading>>

Init == fifo = <<>> /\ held = NoMsg /\ reading = TRUE

Send(m) ==
    /\ m # held
    /\ \A i \in DOMAIN fifo : fifo[i] # m
    /\ fifo' = Append(fifo, m)
    /\ UNCHANGED <<held, reading>>

Receive ==
    /\ reading
    /\ held = NoMsg
    /\ fifo # <<>>
    /\ held' = Head(fifo)
    /\ fifo' = Tail(fifo)
    /\ UNCHANGED reading

Finish ==
    /\ held # NoMsg
    /\ held' = NoMsg
    /\ UNCHANGED <<fifo, reading>>

\* The reader is told to stop and leaves between two messages.
Leave ==
    /\ reading
    /\ held = NoMsg
    /\ reading' = FALSE
    /\ UNCHANGED <<fifo, held>>

\* The owner destroys the queue and frees what was never read.
Drop ==
    /\ ~reading
    /\ fifo # <<>>
    /\ fifo' = <<>>
    /\ UNCHANGED <<held, reading>>

Next == (\E m \in Message : Send(m)) \/ Receive \/ Finish \/ Leave \/ Drop

Spec == Init /\ [][Next]_vars

FairSpec == Spec /\ WF_vars(Receive) /\ WF_vars(Finish)
=============================================================================
