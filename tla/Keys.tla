-------------------------------- MODULE Keys --------------------------------
(***************************************************************************)
(* The keys that stand for an operator's login.  A session's thread makes  *)
(* one (FTM_SSID_create), checks the one each request carries and notes    *)
(* the time (FTM_SSID_isValid), removes it when it has not been used for   *)
(* too long, or at the operator's wish (FTM_SSID_destroy).  All sessions   *)
(* share one list, which the first of them initialises; an entry is found  *)
(* under the list's lock and used after the lock is given back.            *)
(*                                                                         *)
(* Nothing keeps two of them from both being the first.  The second        *)
(* empties the list, and initialises its lock (FTM_LIST_init), which a     *)
(* third thread may hold: when that one posts, the semaphore is at 2 for   *)
(* good.  From then on the list is torn: its operations meet, entries get  *)
(* lost or stay linked, and what is in it is not kept here any more.       *)
(*                                                                         *)
(* A key is a hash of the second it was made in and of the address of its  *)
(* heap block FTM_SSID, here the pair of the two.                          *)
(***************************************************************************)
EXTENDS Naturals, Sequences, FiniteSets, SequencesExt

CONSTANTS
    Blocks,         \* addresses of FTM_SSID blocks
    Sessions,       \* threads that serve an operator each
    Timeout,        \* xConfig.ulSSIDTimeout; 0 for none
    MaxTime,        \* bound of the clock
    None            \* a thread without a block or key

ASSUME KeysAssumption ==
    Timeout \in Nat /\ MaxTime \in Nat /\ None \notin Blocks

Key == Blocks \X (0..MaxTime)

VARIABLES
    initialized,    \* _initialized
    list,           \* _id_list: its blocks in order
    torn,           \* its lock lets two threads in at once
    heap,           \* each block: [live, born, time], whose key is <<block, born>>
    now,            \* the clock, in seconds
    work,           \* what each session's thread is doing: [at, for, key, block, time]
    lastUse,        \* ghost: when the key of a block was made or last accepted
    fresh,          \* ghost: blocks no thread still used when they were allocated,
                    \*        unless there was no memory for their entry
    overlapped,     \* ghost: blocks two requests have used at the same time
    lost            \* ghost: the list was initialised when it had entries

vars == <<initialized, list, torn, heap, now, work, lastUse, fresh, overlapped, lost>>
ghosts == <<lastUse, fresh, overlapped, lost>>

Idle == [at |-> "idle", for |-> "use", key |-> None, block |-> None, time |-> 0]

Unused == [live |-> FALSE, born |-> 0, time |-> 0]

Go(s, to) == work' = [work EXCEPT ![s].at = to]
Rest(s) == work' = [work EXCEPT ![s] = Idle]

KeyOf(b) == <<b, heap[b].born>>
Entry(b) == CHOOSE i \in DOMAIN list : list[i] = b

Init ==
    /\ initialized = FALSE
    /\ list = <<>> /\ torn = FALSE
    /\ heap = [b \in Blocks |-> Unused]
    /\ now = 0
    /\ work = [s \in Sessions |-> Idle]
    /\ lastUse = [b \in Blocks |-> 0]
    /\ fresh = {} /\ overlapped = {} /\ lost = FALSE

Tick ==
    /\ now < MaxTime
    /\ now' = now + 1
    /\ UNCHANGED <<initialized, list, torn, heap, work, ghosts>>

-----------------------------------------------------------------------------
(* A request begins: FTM_SERVER_serviceCall.  It makes a key, or carries   *)
(* one, of any age, to use it or to give it up.                            *)

AskCreate(s) ==
    /\ work[s].at = "idle"
    /\ work' = [work EXCEPT ![s].at = "check", ![s].for = "create"]
    /\ UNCHANGED <<initialized, list, torn, heap, now, ghosts>>

AskWith(s, for, k) ==
    /\ work[s].at = "idle"
    /\ work' = [work EXCEPT ![s].at = "check", ![s].for = for, ![s].key = k]
    /\ UNCHANGED <<initialized, list, torn, heap, now, ghosts>>

Ready(s) == IF work[s].for = "create" THEN "clock" ELSE "find"

\* if (!_initialized), without a lock.
CheckInit(s) ==
    /\ work[s].at = "check"
    /\ Go(s, IF initialized THEN Ready(s) ELSE "init")
    /\ UNCHANGED <<initialized, list, torn, heap, now, ghosts>>

\* Threads that may be inside an operation on the list, the lock in their hands.
InList(t) == work[t].at \in {"append", "find", "refind", "remove"}

\* What becomes of the lock when FTM_LIST_init meets such a thread.
Tear(s) ==
    \/ UNCHANGED torn
    \/ (\E t \in Sessions \ {s} : InList(t)) /\ torn' = TRUE

\* sem_init of the list's lock to 1, whoever holds it.
ResetLock(s) ==
    /\ work[s].at = "init"
    /\ Tear(s)
    /\ Go(s, "empty")
    /\ UNCHANGED <<initialized, list, heap, now, ghosts>>

\* The head's pointers are set without the lock, over what an operation in
\* progress writes to them.
InitList(s) ==
    /\ work[s].at = "empty"
    /\ Tear(s)
    /\ list' = <<>>
    /\ lost' = (lost \/ list # <<>>)
    /\ Go(s, "initialized")
    /\ UNCHANGED <<initialized, heap, now, lastUse, fresh, overlapped>>

SetInitialized(s) ==
    /\ work[s].at = "initialized"
    /\ initialized' = TRUE
    /\ Go(s, Ready(s))
    /\ UNCHANGED <<list, torn, heap, now, ghosts>>

-----------------------------------------------------------------------------
(* FTM_SSID_create: the clock is read, a block allocated and entered.      *)

\* FTM_TIME_getCurrentSecs, here and in FTM_SSID_get: the second is kept.
ReadClock(s) ==
    /\ work[s].at = "clock"
    /\ work' = [work EXCEPT ![s].at = IF work[s].for = "create" THEN "malloc" ELSE "compare",
                            ![s].time = now]
    /\ UNCHANGED <<initialized, list, torn, heap, now, ghosts>>

\* Threads other than s that have this block in their hands.
Users(s, b) == {t \in Sessions \ {s} : work[t].block = b}

Malloc(s, b) ==
    /\ work[s].at = "malloc"
    /\ ~heap[b].live
    /\ heap' = [heap EXCEPT ![b] = [live |-> TRUE, born |-> work[s].time, time |-> work[s].time]]
    /\ lastUse' = [lastUse EXCEPT ![b] = work[s].time]
    /\ fresh' = IF Users(s, b) = {} THEN fresh \cup {b} ELSE fresh \ {b}
    /\ overlapped' = overlapped \ {b}
    /\ work' = [work EXCEPT ![s].at = "append", ![s].block = b, ![s].time = 0]
    /\ UNCHANGED <<initialized, list, torn, now, lost>>

\* There is no memory, and no key.
MallocFails(s) ==
    /\ work[s].at = "malloc"
    /\ Rest(s)
    /\ UNCHANGED <<initialized, list, torn, heap, now, ghosts>>

AppendKey(s) ==
    /\ work[s].at = "append"
    /\ list' = IF torn THEN list ELSE Append(list, work[s].block)
    /\ Rest(s)
    /\ UNCHANGED <<initialized, torn, heap, now, ghosts>>

\* There is no memory for the entry, which is not looked at: the operator gets a
\* key that is not in the list.
AppendFails(s) ==
    /\ work[s].at = "append"
    /\ fresh' = fresh \ {work[s].block}
    /\ Rest(s)
    /\ UNCHANGED <<initialized, list, torn, heap, now, lastUse, overlapped, lost>>

-----------------------------------------------------------------------------
(* FTM_SSID_isValid and FTM_SSID_get.                                      *)

\* FTM_LIST_get: the block with this key, or the request is refused.  In a torn
\* list it may be missed, or found in an entry that was removed, when the block
\* may be free and hold anything.
Found(k) ==
    {b \in Blocks : IF torn THEN heap[b].live => KeyOf(b) = k
                    ELSE b \in ToSet(list) /\ KeyOf(b) = k}

Find(s, at, to) ==
    /\ work[s].at = at
    /\ \/ /\ torn \/ Found(work[s].key) = {}
          /\ Rest(s) /\ UNCHANGED overlapped
       \/ \E b \in Found(work[s].key) :
            /\ work' = [work EXCEPT ![s].at = to, ![s].block = b]
            /\ overlapped' = IF Users(s, b) = {} THEN overlapped ELSE overlapped \cup {b}
    /\ UNCHANGED <<initialized, list, torn, heap, now, lastUse, fresh, lost>>

FindKey(s) == Find(s, "find", "clock")

\* Variant: keys are never too old.
TooOldNever(t, stamp) == FALSE

\* ulTime - pSSID->ulTime > ulTimeout, unsigned: a stamp that is later than the
\* clock that was read counts as very old.
TooOld(t, stamp) == Timeout # 0 /\ (t < stamp \/ t - stamp > Timeout)

\* The time is read out of the block, which may be free: then it is anything.
Compare(s) ==
    /\ work[s].at = "compare"
    /\ LET b == work[s].block
           old == TooOld(work[s].time, heap[b].time)
       IN  \/ (~heap[b].live \/ ~old) /\ Go(s, "stamp")
           \/ (old \/ (Timeout # 0 /\ ~heap[b].live)) /\ work' = [work EXCEPT ![s].at = "remove", ![s].time = 0]
    /\ UNCHANGED <<initialized, list, torn, heap, now, ghosts>>

\* What happens when the key is accepted: the command, or FTM_SSID_destroy.
Accepted(s) ==
    IF work[s].for = "delete"
    THEN work' = [work EXCEPT ![s].at = "refind", ![s].block = None, ![s].time = 0]
    ELSE Rest(s)

Use(s) ==
    lastUse' = IF heap[work[s].block].live /\ KeyOf(work[s].block) = work[s].key
               THEN [lastUse EXCEPT ![work[s].block] = now] ELSE lastUse

\* Variant: FTM_SSID_get is called where FTM_SSID_isValid was meant.
StampNot(s) ==
    /\ work[s].at = "stamp"
    /\ Use(s) /\ Accepted(s)
    /\ UNCHANGED <<initialized, list, torn, heap, now, fresh, overlapped, lost>>

\* The time is written through the pointer, into whatever the block is now.
Stamp(s) ==
    /\ work[s].at = "stamp"
    /\ heap' = IF heap[work[s].block].live
               THEN [heap EXCEPT ![work[s].block].time = now] ELSE heap
    /\ Use(s) /\ Accepted(s)
    /\ UNCHANGED <<initialized, list, torn, now, fresh, overlapped, lost>>

-----------------------------------------------------------------------------
(* FTM_SSID_destroy, and the end of a key that is too old.                 *)

FindAgain(s) == Find(s, "refind", "remove")

\* Variant: the result of FTM_LIST_remove is not looked at.
RemoveUnchecked(s) ==
    /\ work[s].at = "remove"
    /\ list' = IF work[s].block \in ToSet(list)
               THEN RemoveAt(list, Entry(work[s].block)) ELSE list
    /\ Go(s, "free")
    /\ UNCHANGED <<initialized, torn, heap, now, ghosts>>

\* FTM_LIST_remove, by address; only who removed the entry frees the block.  In
\* a torn list the entry may be missed, or be removed by two, or stay linked.
RemoveKey(s) ==
    /\ work[s].at = "remove"
    /\ \/ /\ ~torn /\ work[s].block \in ToSet(list)
          /\ list' = RemoveAt(list, Entry(work[s].block))
          /\ Go(s, "free")
       \/ /\ torn \/ work[s].block \notin ToSet(list)
          /\ Rest(s) /\ UNCHANGED list
       \/ torn /\ Go(s, "free") /\ UNCHANGED list
    /\ UNCHANGED <<initialized, torn, heap, now, ghosts>>

Free(s) ==
    /\ work[s].at = "free"
    /\ heap' = [heap EXCEPT ![work[s].block] = Unused]
    /\ lastUse' = [lastUse EXCEPT ![work[s].block] = 0]
    /\ fresh' = fresh \ {work[s].block} /\ overlapped' = overlapped \ {work[s].block}
    /\ Rest(s)
    /\ UNCHANGED <<initialized, list, torn, now, lost>>

-----------------------------------------------------------------------------
SessionStep(s) ==
    \/ AskCreate(s)
    \/ \E for \in {"use", "delete"}, k \in Key : AskWith(s, for, k)
    \/ CheckInit(s) \/ ResetLock(s) \/ InitList(s) \/ SetInitialized(s)
    \/ (\E b \in Blocks : Malloc(s, b)) \/ MallocFails(s) \/ AppendKey(s) \/ AppendFails(s)
    \/ FindKey(s) \/ ReadClock(s) \/ Compare(s) \/ Stamp(s)
    \/ FindAgain(s) \/ RemoveKey(s) \/ Free(s)

Next == Tick \/ \E s \in Sessions : SessionStep(s)

Spec == Init /\ [][Next]_vars

-----------------------------------------------------------------------------
(* Properties.                                                             *)

\* Every variable has its type.
TypeOK ==
    /\ initialized \in BOOLEAN
    /\ list \in Seq(Blocks) /\ torn \in BOOLEAN
    /\ heap \in [Blocks -> [live : BOOLEAN, born : 0..MaxTime, time : 0..MaxTime]]
    /\ now \in 0..MaxTime
    /\ work \in [Sessions ->
         [at : {"idle", "check", "init", "empty", "initialized", "malloc", "append", "find",
                "clock", "compare", "stamp", "refind", "remove", "free"},
          for : {"create", "use", "delete"}, key : Key \cup {None},
          block : Blocks \cup {None}, time : 0..MaxTime]]
    /\ lastUse \in [Blocks -> 0..MaxTime]
    /\ fresh \subseteq Blocks /\ overlapped \subseteq Blocks
    /\ lost \in BOOLEAN

\* A thread has a block for itself before it appends and after it removes it.
Holds(s, b) == work[s].at \in {"append", "free"} /\ work[s].block = b

\* What is in the list is allocated and in it once, and what a thread has for
\* itself is allocated, in nobody else's hands and not in the list: however
\* expiry, deletion and creation meet over one block, no key is freed that is in
\* the list and none is freed twice (FTM_SSID_get and FTM_SSID_destroy free only
\* what they removed).  So it is as long as the list is not torn: if it is
\* initialised twice, the second time must meet no operation on it.
ListedIsLive ==
    ~torn =>
       /\ IsInjective(list)
       /\ \A b \in ToSet(list) : heap[b].live
       /\ \A s \in Sessions, b \in Blocks : Holds(s, b) =>
             /\ heap[b].live /\ b \notin ToSet(list)
             /\ \A t \in Sessions \ {s} : ~Holds(t, b)

Recent(b, t) == Timeout = 0 \/ t - lastUse[b] <= Timeout

\* A key that was used within the time-out is still there, unless it was given
\* up, or one of four things happened that the code does not guard against:
\* two requests used it at once (one reads the clock before the other stamps),
\* somebody still had its block in hand when it was made, there was no memory to
\* enter it, or the list was initialised a second time, over its entries or into
\* an operation on it.
ActiveKept ==
    \A b \in (Blocks \cap fresh) \ overlapped :
       heap[b].live /\ Recent(b, now) /\ ~lost /\ ~torn =>
          \/ b \in ToSet(list)
          \/ \E s \in Sessions :
                /\ Holds(s, b)
                /\ work[s].at = "append" \/ work[s].for = "delete"

\* No request is served with a key that had not been used for longer than the
\* time-out when the clock was read, however many requests use the key at the
\* same time and in whatever state the list is (FTM_SERVER_serviceCall).
NoLateService ==
    \A s \in Sessions :
       work[s].at = "stamp" /\ heap[work[s].block].live /\ work[s].block \in fresh
          => work[s].time <= lastUse[work[s].block] \/ Recent(work[s].block, work[s].time)
=============================================================================
