------------------------------- MODULE Alarms -------------------------------
(***************************************************************************)
(* The list of alarms: whom mail is sent to.  Session threads add,         *)
(* delete and browse alarms; the notifier copies the whole list each time  *)
(* a camera changes state.  The list locks each of its operations, but it  *)
(* has one iterator for everybody, an alarm is used after the lock is      *)
(* given back, and it is written to a table that nothing deletes from or   *)
(* updates and that the next start reads.  Whether the statement succeeded *)
(* is not known: sqlite3_exec's result is compared with less than zero.    *)
(*                                                                         *)
(* An alarm is the heap block FTM_ALARM; a freed one is used again.  What  *)
(* is written in it, name, e-mail address and message, is its text.        *)
(***************************************************************************)
EXTENDS Naturals, Sequences, FiniteSets, SequencesExt

CONSTANTS
    Texts,          \* texts an operator gives alarms
    NameOf,         \* NameOf[t]: the name in text t
    Blocks,         \* addresses of FTM_ALARM blocks
    Sessions,       \* threads that serve an operator each
    xHead,          \* the list's head, where the iterator starts and ends
    None,           \* a free block, a thread without an alarm
    MaxPending      \* bound of the notifier's queue

ASSUME AlarmsAssumption ==
    /\ xHead \notin Blocks /\ None \notin Texts \cup Blocks
    /\ IsFiniteSet(Blocks) /\ MaxPending \in Nat

Names == {NameOf[t] : t \in Texts}

VARIABLES
    list,           \* pAlarmList: its blocks in order
    iter,           \* its pIter: the entry of a block, or the head
    heap,           \* the text in each block, None when the block is free
    was,            \* the last text of a free block, while somebody may read it
    rows,           \* the alarm table's rows, in order of insertion
    work,           \* what each session's thread is doing: [at, block]
    notifier,       \* what the notifier is doing: [at, block, left]
    pending,        \* SEND_ALARM messages in the notifier's queue
    due,            \* ghost: alarms there when the notifier counted, and since,
                    \* still to be copied; none once another thread has used
                    \* the iterator meanwhile
    failed,         \* ghost: alarms without a row, for their INSERT failed
    reworded        \* ghost: names given with another text while in use

storage == <<was, rows, failed, reworded>>
notifierVars == <<notifier, pending, due>>
vars == <<list, iter, heap, storage, work, notifierVars>>

Idle == [at |-> "idle", block |-> None]
Resting == [at |-> "idle", block |-> None, left |-> 0]

Entry(b) == CHOOSE i \in DOMAIN list : list[i] = b

\* pEntry->pNext and pEntry->pPrev: the list is a ring through its head.
NextOf(e) ==
    LET k == IF e = xHead THEN 0 ELSE Entry(e)
    IN  IF k = Len(list) THEN xHead ELSE list[k + 1]
PrevOf(e) == IF Entry(e) = 1 THEN xHead ELSE list[Entry(e) - 1]

Init ==
    /\ list = <<>> /\ iter = xHead
    /\ heap = [b \in Blocks |-> None]
    /\ was = [b \in Blocks |-> None]
    /\ rows = <<>> /\ failed = {} /\ reworded = {}
    /\ work = [s \in Sessions |-> Idle]
    /\ notifier = Resting /\ pending = 0
    /\ due = {}

-----------------------------------------------------------------------------
(* FTM_CATCHB_addAlarm.  Nothing looks whether the name is taken.          *)

\* The texts there are: in an alarm, in a row, in a block somebody may read.
Around == {heap[b] : b \in Blocks} \cup {was[b] : b \in Blocks} \cup ToSet(rows)

Malloc(s, t, b) ==
    /\ work[s].at = "idle"
    /\ heap[b] = None
    /\ heap' = [heap EXCEPT ![b] = t]
    /\ was' = [was EXCEPT ![b] = None]
    /\ reworded' = IF \E u \in Around \ {None, t} : NameOf[u] = NameOf[t]
                   THEN reworded \cup {NameOf[t]} ELSE reworded
    /\ work' = [work EXCEPT ![s] = [at |-> "append", block |-> b]]
    /\ UNCHANGED <<list, iter, rows, failed, notifierVars>>

AppendAlarm(s) ==
    /\ work[s].at = "append"
    /\ list' = Append(list, work[s].block)
    /\ work' = [work EXCEPT ![s].at = "insert"]
    /\ UNCHANGED <<iter, heap, storage, notifierVars>>

\* There is no memory for the entry.
AppendFails(s) ==
    /\ work[s].at = "append"
    /\ work' = [work EXCEPT ![s].at = "free"]
    /\ UNCHANGED <<list, iter, heap, storage, notifierVars>>

HasRow(n) == \E t \in ToSet(rows) : NameOf[t] = n

\* The name is the table's primary key: a second row is refused, and the first
\* keeps its text.  Any INSERT may fail, the database being locked, the disk
\* full or a quote in the text.  FTM_DB_addAlarm takes all this for a success.
Insert(b, t) ==
    \/ /\ ~HasRow(NameOf[t])
       /\ rows' = Append(rows, t)
       /\ failed' = {c \in failed : NameOf[heap[c]] # NameOf[t]}
    \/ /\ UNCHANGED rows
       /\ failed' = IF HasRow(NameOf[t]) \/ heap[b] # t THEN failed
                    ELSE failed \cup {b}

\* A session that still has to write the alarm will read what is left of it.
Writers(b) == {s \in Sessions : work[s].at = "insert" /\ work[s].block = b}

\* The statement is made of what is in the block now.  The alarm may have been
\* deleted since: then the block is another's, or free and its text what it
\* was, or garbage that makes a row under no operator's name.
InsertAlarm(s) ==
    /\ work[s].at = "insert"
    /\ LET b == work[s].block IN
       /\ IF heap[b] # None THEN Insert(b, heap[b])
          ELSE (was[b] # None /\ Insert(b, was[b])) \/ UNCHANGED <<rows, failed>>
       /\ was' = [was EXCEPT ![b] = IF Writers(b) = {s} THEN None ELSE was[b]]
    /\ work' = [work EXCEPT ![s] = Idle]
    /\ UNCHANGED <<list, iter, heap, reworded, notifierVars>>

-----------------------------------------------------------------------------
(* FTM_CATCHB_delAlarm.                                                    *)

\* FTM_LIST_get finds the first alarm of that name.
GetAlarm(s, n) ==
    /\ work[s].at = "idle"
    /\ \E i \in DOMAIN list :
          /\ NameOf[heap[list[i]]] = n
          /\ \A j \in 1..(i-1) : NameOf[heap[list[j]]] # n
          /\ work' = [work EXCEPT ![s] = [at |-> "remove", block |-> list[i]]]
    /\ UNCHANGED <<list, iter, heap, storage, notifierVars>>

\* Variant: the iterator stays on the entry that is freed.
Unlink(b) == list' = RemoveAt(list, Entry(b)) /\ UNCHANGED iter

\* Variant: the iterator moves on to the entry after the one that is freed.
UnlinkForward(b) ==
    /\ list' = RemoveAt(list, Entry(b))
    /\ iter' = IF iter = b THEN NextOf(b) ELSE iter

\* FTM_LIST_remove takes the iterator back from the entry it frees.
UnlinkBack(b) ==
    /\ list' = RemoveAt(list, Entry(b))
    /\ iter' = IF iter = b THEN PrevOf(b) ELSE iter

\* Variant: the alarm is freed whether or not it was in the list.
RemoveUnchecked(s) ==
    /\ work[s].at = "remove"
    /\ IF work[s].block \in ToSet(list)
       THEN UnlinkBack(work[s].block) /\ due' = due \ {work[s].block}
       ELSE UNCHANGED <<list, iter, due>>
    /\ work' = [work EXCEPT ![s].at = "free"]
    /\ UNCHANGED <<heap, storage, notifier, pending>>

\* The entry of this block is taken out; another session may have done it
\* before, and the block be another alarm's by now.
RemoveAlarm(s) ==
    /\ work[s].at = "remove"
    /\ IF work[s].block \in ToSet(list)
       THEN /\ UnlinkBack(work[s].block)
            /\ due' = due \ {work[s].block}
            /\ work' = [work EXCEPT ![s].at = "free"]
       ELSE /\ work' = [work EXCEPT ![s] = Idle]
            /\ UNCHANGED <<list, iter, due>>
    /\ UNCHANGED <<heap, storage, notifier, pending>>

FreeBlock(b) ==
    /\ heap' = [heap EXCEPT ![b] = None]
    /\ was' = [was EXCEPT ![b] = IF Writers(b) = {} THEN None ELSE heap[b]]
    /\ failed' = failed \ {b}

\* Variant: the row goes with the alarm.
FreeAndDelete(s) ==
    /\ work[s].at = "free"
    /\ FreeBlock(work[s].block)
    /\ rows' = SelectSeq(rows, LAMBDA t : NameOf[t] # NameOf[heap[work[s].block]])
    /\ work' = [work EXCEPT ![s] = Idle]
    /\ UNCHANGED <<list, iter, reworded, notifierVars>>

\* The row of the alarm stays: FTM_DB_deleteAlarm has no caller.
Free(s) ==
    /\ work[s].at = "free"
    /\ FreeBlock(work[s].block)
    /\ work' = [work EXCEPT ![s] = Idle]
    /\ UNCHANGED <<list, iter, rows, reworded, notifierVars>>

-----------------------------------------------------------------------------
(* FTM_CATCHB_getAlarm, setAlarm, getAlarmNameList: one alarm after the    *)
(* other is looked at, until the end or until enough has been seen.        *)

Copying == notifier.at \in {"next", "copy"}

BrowseStart(s) ==
    /\ work[s].at = "idle"
    /\ iter' = xHead
    /\ work' = [work EXCEPT ![s].at = "browse"]
    /\ due' = IF Copying THEN {} ELSE due
    /\ UNCHANGED <<list, heap, storage, notifier, pending>>

BrowseNext(s) ==
    /\ work[s].at = "browse"
    /\ iter' = NextOf(iter)
    /\ \/ work' = [work EXCEPT ![s] = Idle]
       \/ iter' # xHead /\ UNCHANGED work
    /\ due' = IF Copying THEN {} ELSE due
    /\ UNCHANGED <<list, heap, storage, notifier, pending>>

-----------------------------------------------------------------------------
(* The notifier (FTM_NOTIFIER_process), with mail switched on.             *)

\* FTM_NOTIFIER_sendAlarm, from the main thread.
SendAlarm ==
    /\ pending < MaxPending
    /\ pending' = pending + 1
    /\ UNCHANGED <<list, iter, heap, storage, work, notifier, due>>

\* A message is taken; the alarms are counted and an array is made for them.
CountAlarms ==
    /\ notifier.at = "idle" /\ pending > 0
    /\ pending' = pending - 1
    /\ IF list = <<>>
       THEN UNCHANGED <<notifier, due>>
       ELSE /\ notifier' = [at |-> "start", block |-> None, left |-> Len(list)]
            /\ due' = ToSet(list)
    /\ UNCHANGED <<list, iter, heap, storage, work>>

\* FTM_CATCHB_getAlarmList begins.
NotifierStart ==
    /\ notifier.at = "start"
    /\ iter' = xHead
    /\ notifier' = [notifier EXCEPT !.at = "next"]
    /\ UNCHANGED <<list, heap, storage, work, pending, due>>

NotifierNext ==
    /\ notifier.at = "next"
    /\ iter' = NextOf(iter)
    /\ notifier' = IF iter' = xHead THEN [notifier EXCEPT !.at = "mail"]
                   ELSE [notifier EXCEPT !.at = "copy", !.block = iter']
    /\ UNCHANGED <<list, heap, storage, work, pending, due>>

\* Variant: the walk goes on to the end of the list.
NotifierCopyAll ==
    /\ notifier.at = "copy"
    /\ due' = due \ {notifier.block}
    /\ notifier' = [notifier EXCEPT !.at = "next"]
    /\ UNCHANGED <<list, iter, heap, storage, work, pending>>

\* Variant: one alarm more is copied than there is room for.
NotifierCopyPast ==
    /\ notifier.at = "copy"
    /\ due' = due \ {notifier.block}
    /\ notifier' = [at |-> IF notifier.left = 0 THEN "mail" ELSE "next",
                    block |-> None, left |-> notifier.left - 1]
    /\ UNCHANGED <<list, iter, heap, storage, work, pending>>

\* The alarm is copied, out of whatever the block holds by now; the walk ends
\* when the array is full.
NotifierCopy ==
    /\ notifier.at = "copy"
    /\ due' = due \ {notifier.block}
    /\ notifier' = [at |-> IF notifier.left = 1 THEN "mail" ELSE "next",
                    block |-> None, left |-> notifier.left - 1]
    /\ UNCHANGED <<list, iter, heap, storage, work, pending>>

\* A mail for each copy; the array is freed.
Mail ==
    /\ notifier.at = "mail"
    /\ notifier' = Resting
    /\ due' = {}
    /\ UNCHANGED <<list, iter, heap, storage, work, pending>>

-----------------------------------------------------------------------------
\* The daemon ends at any moment and starts again: FTM_CATCHB_initProcess
\* makes an alarm of each row, before the threads run.
Restart ==
    /\ \E f \in [1..Len(rows) -> Blocks] :
          /\ IsInjective(f)
          /\ list' = f
          /\ heap' = [b \in Blocks |->
                        IF \E i \in 1..Len(rows) : f[i] = b
                        THEN rows[CHOOSE i \in 1..Len(rows) : f[i] = b] ELSE None]
    /\ iter' = xHead
    /\ work' = [s \in Sessions |-> Idle]
    /\ notifier' = Resting /\ pending' = 0
    /\ due' = {}
    /\ was' = [b \in Blocks |-> None] /\ failed' = {} /\ reworded' = {}
    /\ UNCHANGED rows

NotifierStep == CountAlarms \/ NotifierStart \/ NotifierNext \/ NotifierCopy \/ Mail

SessionStep(s) ==
    \/ \E t \in Texts, b \in Blocks : Malloc(s, t, b)
    \/ AppendAlarm(s) \/ AppendFails(s) \/ InsertAlarm(s)
    \/ (\E n \in Names : GetAlarm(s, n))
    \/ RemoveAlarm(s) \/ Free(s)
    \/ BrowseStart(s) \/ BrowseNext(s)

Next ==
    \/ \E s \in Sessions : SessionStep(s)
    \/ SendAlarm \/ NotifierStep
    \/ Restart

Spec == Init /\ [][Next]_vars

\* The notifier's thread runs; operators owe nothing.
FairSpec == Spec /\ WF_vars(NotifierStep)

-----------------------------------------------------------------------------
(* Properties.                                                             *)

\* Every variable has its type; the notifier never copies more alarms than
\* its array has room for (FTM_CATCHB_getAlarmList).
TypeOK ==
    /\ list \in Seq(Blocks)
    /\ iter \in Blocks \cup {xHead}
    /\ heap \in [Blocks -> Texts \cup {None}]
    /\ was \in [Blocks -> Texts \cup {None}]
    /\ rows \in Seq(Texts)
    /\ work \in [Sessions ->
         [at : {"idle", "append", "insert", "remove", "free", "browse"},
          block : Blocks \cup {None}]]
    /\ notifier \in [at : {"idle", "start", "next", "copy", "mail"},
                     block : Blocks \cup {None}, left : Nat]
    /\ notifier.at \in {"next", "copy"} => notifier.left > 0
    /\ pending \in Nat
    /\ due \subseteq Blocks /\ failed \subseteq Blocks /\ reworded \subseteq Names

\* A thread has a block for itself between malloc and append, and between
\* remove and free.
Holds(s, b) == work[s].at \in {"append", "free"} /\ work[s].block = b

\* Every allocated alarm has one owner, the list or one thread, and every
\* freed one has none: whatever additions and deletions meet over a name or a
\* block that is used again, nothing is freed twice, entered twice, lost, or
\* freed while it is in the list (FTM_CATCHB_delAlarm frees only what it
\* removed).
OneOwner ==
    /\ IsInjective(list)
    /\ \A b \in Blocks :
          /\ heap[b] # None <=> b \in ToSet(list) \/ \E s \in Sessions : Holds(s, b)
          /\ \A s \in Sessions : Holds(s, b) =>
                /\ b \notin ToSet(list)
                /\ \A t \in Sessions \ {s} : ~Holds(t, b)

\* The iterator everybody shares is never left on an entry that is freed, so
\* that the next step of whoever walks reads the list (FTM_LIST_remove).
IterInList == iter \in ToSet(list) \cup {xHead}

\* An alarm in the list comes back after a restart as it is: its text is in the
\* table, or its addition is not over yet (FTM_CATCHB_addAlarm, initProcess).
\* With two exceptions, both taken for a success: if its INSERT failed, and no
\* later one for its name was made good, it does not come back; and if its name
\* was in use with another text, in an alarm or in the table, an alarm of that
\* name comes back, but it may be the other one, deleted or not.
ComesBack ==
    \A b \in ToSet(list) :
       \/ \E s \in Sessions : work[s].at = "insert" /\ work[s].block = b
       \/ b \in failed
       \/ HasRow(NameOf[heap[b]]) /\ NameOf[heap[b]] \in reworded
       \/ heap[b] \in ToSet(rows)

\* Everyone who was to be told when the notifier counted, and still is in the
\* list, is told, whatever is added and deleted in front of, under or behind
\* the iterator meanwhile; unless another thread walks the list at the same
\* time, which takes the iterator away (FTM_CATCHB_getAlarmList).
NotifiesAll == notifier.at = "mail" => due = {}

\* The notifier comes to an end with each message, although other threads may
\* send the iterator back to the start again and again (FTM_NOTIFIER_process
\* asks for as many alarms as it counted).
NotifierReturns == notifier.at # "idle" ~> notifier.at = "idle"
=============================================================================
