----------------------------- MODULE Keys_proofs -----------------------------
(***************************************************************************)
(* Proofs about Keys for any numbers of blocks and sessions and any        *)
(* time-out: no request is served with an expired key; and as long as the  *)
(* list is not torn, no key is freed twice or while it is in the list, and *)
(* a key in use stays.                                                     *)
(***************************************************************************)
EXTENDS Keys, ListLemmas

-----------------------------------------------------------------------------
(* The inductive invariant.                                                *)

Work == [at : {"idle", "check", "init", "empty", "initialized", "malloc", "append", "find",
               "clock", "compare", "stamp", "refind", "remove", "free"},
         for : {"create", "use", "delete"}, key : Key \cup {None},
         block : Blocks \cup {None}, time : 0..MaxTime]

\* Where a thread has a block in its hands; no clock it read is ahead of t.
HandsOf(w, t) ==
    /\ w.at \in {"idle", "check", "init", "empty", "initialized", "malloc", "find", "refind"}
          => w.block = None
    /\ w.at \in {"append", "compare", "stamp", "remove", "free"} => w.block \in Blocks
    /\ w.at = "clock" => IF w.for = "create" THEN w.block = None ELSE w.block \in Blocks
    /\ w.at = "find" => w.for # "create"
    /\ w.at = "refind" => w.for = "delete"
    /\ w.time <= t

Hands == \A s \in Sessions : HandsOf(work[s], now)

\* What is known of a block that nobody used when it was allocated: its time is
\* that of its last use, and only overlapping requests have it in two hands.
Made == \A b \in fresh : heap[b].live /\ heap[b].time = lastUse[b] /\ lastUse[b] <= now

Alone ==
    \A b \in fresh \ overlapped, s, t \in Sessions :
       work[s].block = b /\ work[t].block = b => s = t

InTime(used, t) == Timeout = 0 \/ t - used <= Timeout

\* What a thread knows of such a block, of which the heap says born and used:
\* that it has the key it was found by; that the key was in time; and, if no
\* other request overlapped, what the clock said of it.
JudgedOf(w, born, used, over, t) ==
    /\ w.at \in {"clock", "compare", "stamp"} => w.key = <<w.block, born>>
    /\ w.at = "stamp" => InTime(used, w.time)
    /\ w.at = "compare" /\ w.block \notin over => used <= w.time
    /\ w.at \in {"remove", "free"} /\ w.for # "delete" /\ w.block \notin over
          => ~InTime(used, t)

Judged ==
    \A s \in Sessions : work[s].block \in fresh =>
       JudgedOf(work[s], heap[work[s].block].born, lastUse[work[s].block], overlapped, now)

\* Unless the list was initialised over its entries or is torn, such a block is
\* in it or in one hand.
Kept ==
    ~lost /\ ~torn => \A b \in fresh : b \in ToSet(list) \/ \E s \in Sessions : Holds(s, b)

\* Of a torn list nothing is known; what is known of a fresh block and of the
\* threads that have it in hand does not depend on the list.
IInv == TypeOK /\ Hands /\ Made /\ Alone /\ Judged /\ Kept /\ ListedIsLive

-----------------------------------------------------------------------------
(* One thread's step.                                                      *)

\* A thread's step changes what this thread does, and nothing of the others.
LEMMA OneThread ==
    ASSUME TypeOK, NEW s \in Sessions, NEW w \in Work, work' = [work EXCEPT ![s] = w]
    PROVE  /\ work'[s] = w /\ \A t \in Sessions \ {s} : work'[t] = work[t]
           /\ work' \in [Sessions -> Work]
BY DEF TypeOK, Work

\* What is in the list is a block.
LEMMA ListedAreBlocks == TypeOK => ToSet(list) \subseteq Blocks
BY DEF TypeOK, ToSet

\* A thread's knowledge of a block lasts while more requests overlap.
LEMMA JudgedMore ==
    ASSUME NEW w, NEW born, NEW used, NEW over, NEW more, NEW t,
           over \subseteq more, JudgedOf(w, born, used, over, t)
    PROVE  JudgedOf(w, born, used, more, t)
BY DEF JudgedOf

\* The threads that have nothing to do with a list entry of their own: a step of
\* one of them from w to a place that is right for the block it has then.
LEMMA WorkStep ==
    ASSUME IInv, NEW s \in Sessions, NEW w \in Work,
           work' = [work EXCEPT ![s] = w],
           work[s].at \notin {"append", "free"}, w.at \notin {"append", "free"},
           HandsOf(w, now),
           initialized' \in BOOLEAN, torn' \in BOOLEAN, torn => torn',
           UNCHANGED <<list, heap, now, lastUse, fresh, lost>>,
           overlapped \subseteq overlapped', overlapped' \subseteq Blocks,
           w.block \in fresh =>
              /\ JudgedOf(w, heap[w.block].born, lastUse[w.block], overlapped', now)
              /\ w.block \notin overlapped' => \A t \in Sessions \ {s} : work[t].block # w.block
    PROVE  IInv'
<1> USE DEF IInv
<1>1. /\ work'[s] = w /\ \A t \in Sessions \ {s} : work'[t] = work[t]
      /\ work' \in [Sessions -> Work]
  BY OneThread
<1>2. TypeOK'
  BY <1>1 DEF TypeOK, Work
<1>3. Hands'
  BY <1>1 DEF Hands
<1>4. Made'
  BY DEF Made
<1>5. Alone'
  BY <1>1 DEF Alone
<1>6. Judged'
  <2> SUFFICES ASSUME NEW t \in Sessions, work'[t].block \in fresh
               PROVE  JudgedOf(work'[t], heap[work'[t].block].born, lastUse[work'[t].block],
                               overlapped', now)
    BY DEF Judged
  <2>1. CASE t = s
    BY <1>1, <2>1
  <2>2. CASE t # s
    <3>1. work'[t] = work[t]
      BY <1>1, <2>2
    <3>2. JudgedOf(work[t], heap[work[t].block].born, lastUse[work[t].block], overlapped, now)
      BY <3>1 DEF Judged
    <3> QED
      BY <3>1, <3>2, JudgedMore
  <2> QED
    BY <2>1, <2>2
<1>7. \A t \in Sessions, b \in Blocks : Holds(t, b)' <=> Holds(t, b)
  BY <1>1 DEF Holds
<1>8. ~torn' => ~torn
  OBVIOUS
<1>9. Kept'
  <2>1. fresh \subseteq Blocks
    BY DEF TypeOK
  <2> QED
    BY <1>7, <1>8, <2>1 DEF Kept
<1>10. ListedIsLive'
  BY <1>7, <1>8 DEF ListedIsLive
<1> QED
  BY <1>2, <1>3, <1>4, <1>5, <1>6, <1>9, <1>10

\* The begin of a request, the checks of _initialized, a failed malloc and the
\* clock that is read for a new key: the thread has no block.
LEMMA RequestSteps ==
    ASSUME IInv, NEW s \in Sessions,
           \/ AskCreate(s) \/ \E for \in {"use", "delete"}, k \in Key : AskWith(s, for, k)
           \/ CheckInit(s) \/ ResetLock(s) \/ SetInitialized(s) \/ MallocFails(s)
           \/ ReadClock(s) /\ work[s].for = "create"
    PROVE  IInv'
<1> USE DEF IInv
<1>1. work[s] \in Work /\ now \in 0..MaxTime
  BY DEF TypeOK, Work
<1>2. PICK w \in Work :
         /\ work' = [work EXCEPT ![s] = w]
         /\ w.block = work[s].block \/ w = Idle
         /\ w.at \in {"idle", "check", "init", "empty", "initialized", "malloc", "find"}
               \/ (w.at = "clock" /\ w.for = "create")
         /\ w.at = "find" => w.for # "create"
         /\ w.time = work[s].time \/ w.time = now \/ w = Idle
  <2>1. CASE AskCreate(s)
    <3> DEFINE w == [work[s] EXCEPT !.at = "check", !.for = "create"]
    <3>1. w \in Work /\ w.at = "check" /\ w.block = work[s].block /\ w.time = work[s].time
      BY <1>1 DEF Work
    <3>2. work' = [work EXCEPT ![s] = w]
      BY <2>1 DEF AskCreate
    <3> QED
      BY <3>1, <3>2
  <2>2. CASE \E for \in {"use", "delete"}, k \in Key : AskWith(s, for, k)
    <3>0. PICK f \in {"use", "delete"}, k \in Key : AskWith(s, f, k)
      BY <2>2
    <3> DEFINE w == [work[s] EXCEPT !.at = "check", !.for = f, !.key = k]
    <3>1. w \in Work /\ w.at = "check" /\ w.block = work[s].block /\ w.time = work[s].time
      BY <1>1 DEF Work
    <3>2. work' = [work EXCEPT ![s] = w]
      BY <3>0 DEF AskWith
    <3> QED
      BY <3>1, <3>2
  <2>3. ASSUME NEW to \in {"init", "empty", "clock", "find", "malloc"}, Go(s, to),
               to = "clock" => work[s].for = "create", to = "find" => work[s].for # "create"
        PROVE  \E w \in Work :
                 /\ work' = [work EXCEPT ![s] = w] /\ w.block = work[s].block
                 /\ w.at \in {"idle", "check", "init", "empty", "initialized", "malloc", "find"}
                       \/ (w.at = "clock" /\ w.for = "create")
                 /\ w.at = "find" => w.for # "create"
                 /\ w.time = work[s].time
    <3> DEFINE w == [work[s] EXCEPT !.at = to]
    <3>1. /\ w \in Work /\ w.at = to /\ w.block = work[s].block /\ w.time = work[s].time
          /\ w.for = work[s].for
      BY <1>1 DEF Work
    <3>2. work' = [work EXCEPT ![s] = w]
      BY <2>3 DEF Go
    <3> QED
      BY <2>3, <3>1, <3>2
  <2>4. CASE CheckInit(s)
    BY <2>3, <2>4 DEF CheckInit, Ready
  <2>5. CASE SetInitialized(s)
    BY <2>3, <2>5 DEF SetInitialized, Ready
  <2>6. CASE MallocFails(s)
    <3>1. Idle \in Work /\ Idle.at = "idle"
      BY KeysAssumption DEF Idle, Work
    <3> QED
      BY <2>6, <3>1 DEF MallocFails, Rest
  <2>7. CASE ReadClock(s) /\ work[s].for = "create"
    <3> DEFINE w == [work[s] EXCEPT !.at = "malloc", !.time = now]
    <3>1. w \in Work /\ w.at = "malloc" /\ w.block = work[s].block /\ w.time = now
      BY <1>1 DEF Work
    <3>2. work' = [work EXCEPT ![s] = w]
      BY <2>7 DEF ReadClock
    <3> QED
      BY <3>1, <3>2
  <2>8. CASE ResetLock(s)
    BY <2>3, <2>8 DEF ResetLock
  <2> QED
    BY <2>1, <2>2, <2>4, <2>5, <2>6, <2>7, <2>8
<1>3. /\ work[s].block = None /\ work[s].at \notin {"append", "free"} /\ work[s].time <= now
  BY DEF AskCreate, AskWith, CheckInit, ResetLock, SetInitialized, MallocFails, ReadClock,
         Hands, HandsOf
<1>4. w.block = None /\ w.time <= now
  BY <1>1, <1>2, <1>3 DEF Idle
<1>5. /\ initialized' \in BOOLEAN /\ UNCHANGED <<list, heap, now, lastUse, fresh, lost, overlapped>>
      /\ torn' \in BOOLEAN /\ (torn => torn')
  BY DEF AskCreate, AskWith, CheckInit, ResetLock, Tear, SetInitialized, MallocFails, ReadClock,
         TypeOK, ghosts
<1>6. HandsOf(w, now) /\ w.at \notin {"append", "free"}
  BY <1>2, <1>4 DEF HandsOf
<1>7. w.block \notin fresh /\ overlapped \subseteq Blocks
  BY <1>4, KeysAssumption DEF TypeOK
<1>8. overlapped \subseteq overlapped' /\ overlapped' \subseteq Blocks
  BY <1>5, <1>7
<1> HIDE DEF IInv
<1> QED
  BY <1>2, <1>3, <1>5, <1>6, <1>7, <1>8, WorkStep

\* Time passes: what was too old still is.
LEMMA TickStep ==
    ASSUME IInv, Tick
    PROVE  IInv'
<1> USE DEF IInv
<1>1. /\ now \in Nat /\ now' = now + 1 /\ now' \in 0..MaxTime
      /\ UNCHANGED <<initialized, list, torn, heap, work, lastUse, fresh, overlapped, lost>>
  BY KeysAssumption DEF Tick, TypeOK, ghosts
<1>2. TypeOK'
  BY <1>1 DEF TypeOK
<1>3. Hands'
  <2>1. \A s \in Sessions : work[s].time \in Nat
    BY KeysAssumption DEF TypeOK
  <2>2. ASSUME NEW s \in Sessions
        PROVE  HandsOf(work[s], now')
    BY <1>1, <2>1 DEF Hands, HandsOf
  <2> QED
    BY <1>1, <2>2 DEF Hands
<1>4. \A b \in fresh : lastUse[b] \in Nat
  BY KeysAssumption DEF TypeOK
<1>5. Made' /\ Alone'
  BY <1>1, <1>4 DEF Made, Alone
<1>6. \A b \in fresh : ~InTime(lastUse[b], now) => ~InTime(lastUse[b], now')
  BY <1>1, <1>4, KeysAssumption DEF InTime
<1>7. Judged'
  <2>1. ASSUME NEW s \in Sessions, work[s].block \in fresh
        PROVE  JudgedOf(work[s], heap[work[s].block].born, lastUse[work[s].block],
                        overlapped, now')
    <3>1. JudgedOf(work[s], heap[work[s].block].born, lastUse[work[s].block], overlapped, now)
      BY <2>1 DEF Judged
    <3> QED
      BY <1>6, <2>1, <3>1 DEF JudgedOf
  <2> QED
    BY <1>1, <2>1 DEF Judged
<1>8. Kept' /\ ListedIsLive'
  BY <1>1 DEF Kept, ListedIsLive, Holds
<1> QED
  BY <1>2, <1>3, <1>5, <1>7, <1>8

\* The list is emptied, possibly a second time.
LEMMA InitListStep ==
    ASSUME IInv, NEW s \in Sessions, InitList(s)
    PROVE  IInv'
<1> USE DEF IInv
<1> DEFINE w == [work[s] EXCEPT !.at = "initialized"]
<1>0. /\ lost' \in BOOLEAN /\ torn' \in BOOLEAN /\ (torn => torn')
      /\ ~lost' => ~lost /\ list = <<>>
  <2>1. /\ lost \in BOOLEAN /\ torn \in BOOLEAN
        /\ lost' = (lost \/ list # <<>>) /\ (torn' = torn \/ torn' = TRUE)
    BY Zenon DEF InitList, Tear, TypeOK
  <2>2. torn' \in BOOLEAN /\ (torn => torn')
    BY <2>1
  <2>3. lost' \in BOOLEAN /\ (~lost' => ~lost /\ list = <<>>)
    BY <2>1, Zenon
  <2> QED
    BY <2>2, <2>3
<1>1. /\ list' = <<>> /\ work[s].at = "empty"
      /\ work' = [work EXCEPT ![s] = w]
      /\ UNCHANGED <<initialized, heap, now, lastUse, fresh, overlapped>>
  BY DEF InitList, Go
<1>2. /\ work[s] \in Work /\ HandsOf(work[s], now)
  BY DEF TypeOK, Work, Hands
<1>3. w \in Work /\ w.at = "initialized" /\ w.block = None /\ w.time = work[s].time
  BY <1>1, <1>2 DEF Work, HandsOf
<1> HIDE DEF w
<1>4. /\ work'[s] = w /\ \A t \in Sessions \ {s} : work'[t] = work[t]
      /\ work' \in [Sessions -> Work]
  BY <1>1, <1>3, OneThread
<1>5. TypeOK'
  <2>1. <<>> \in Seq(Blocks)
    OBVIOUS
  <2> QED
    BY <1>0, <1>1, <1>4, <2>1 DEF TypeOK, Work
<1>6. Hands'
  <2>1. HandsOf(w, now)
    BY <1>2, <1>3 DEF HandsOf
  <2> QED
    BY <1>1, <1>4, <2>1 DEF Hands
<1>7. None \notin fresh
  BY KeysAssumption DEF TypeOK
<1>8. Made' /\ Alone' /\ Judged'
  BY <1>1, <1>3, <1>4, <1>7 DEF Made, Alone, Judged
<1>9. \A t \in Sessions, b \in Blocks : Holds(t, b)' <=> Holds(t, b)
  BY <1>1, <1>3, <1>4 DEF Holds
<1>10. ToSet(list') = {} /\ IsInjective(list')
  BY <1>1 DEF ToSet, IsInjective
<1>11. Kept'
  <2>1. ~lost' /\ ~torn' => ~lost /\ ~torn /\ list = <<>>
    BY <1>0
  <2>3. fresh \subseteq Blocks
    BY DEF TypeOK
  <2>2. list = <<>> => ToSet(list) = {}
    BY DEF ToSet
  <2> QED
    BY <1>1, <1>9, <2>1, <2>2, <2>3 DEF Kept
<1>12. ListedIsLive'
  <2>1. ~torn' => ~torn
    BY <1>0
  <2> QED
    BY <1>1, <1>9, <1>10, <2>1 DEF ListedIsLive
<1> QED
  BY <1>5, <1>6, <1>8, <1>11, <1>12

-----------------------------------------------------------------------------
(* FTM_SSID_isValid, FTM_SSID_get and FTM_SSID_destroy.                    *)

\* An entry is found, and the thread has its block in hand, or it is not.
LEMMA FindStep ==
    ASSUME IInv, NEW s \in Sessions, FindKey(s) \/ FindAgain(s)
    PROVE  IInv'
<1> USE DEF IInv
<1>1. PICK to \in {"clock", "remove"} :
         /\ work[s].at \in {"find", "refind"}
         /\ to = "clock" => work[s].for # "create"
         /\ to = "remove" => work[s].for = "delete"
         /\ \/ Rest(s) /\ UNCHANGED overlapped
            \/ \E b \in Found(work[s].key) :
                 /\ work' = [work EXCEPT ![s].at = to, ![s].block = b]
                 /\ overlapped' = IF Users(s, b) = {} THEN overlapped ELSE overlapped \cup {b}
         /\ UNCHANGED <<initialized, list, torn, heap, now, lastUse, fresh, lost>>
  <2>1. CASE FindKey(s)
    BY <2>1 DEF FindKey, Find, Hands, HandsOf
  <2>2. CASE FindAgain(s)
    BY <2>2 DEF FindAgain, Find, Hands, HandsOf
  <2> QED
    BY <2>1, <2>2
<1>2. /\ work[s] \in Work /\ HandsOf(work[s], now) /\ now \in 0..MaxTime
      /\ overlapped \subseteq Blocks /\ None \notin fresh
      /\ initialized \in BOOLEAN /\ torn \in BOOLEAN
  BY KeysAssumption DEF TypeOK, Work, Hands
<1>3. CASE Rest(s) /\ UNCHANGED overlapped
  <2>1. Idle \in Work /\ Idle.at = "idle" /\ Idle.block = None /\ HandsOf(Idle, now)
    BY <1>2, KeysAssumption DEF Idle, Work, HandsOf
  <2>2. work' = [work EXCEPT ![s] = Idle] /\ overlapped' = overlapped
    BY <1>3 DEF Rest
  <2> HIDE DEF Idle
  <2> QED
    BY <1>1, <1>2, <2>1, <2>2, WorkStep
<1>4. ASSUME NEW b \in Found(work[s].key),
             work' = [work EXCEPT ![s].at = to, ![s].block = b],
             overlapped' = IF Users(s, b) = {} THEN overlapped ELSE overlapped \cup {b}
      PROVE  IInv'
  <2> DEFINE w == [work[s] EXCEPT !.at = to, !.block = b]
  <2>1. b \in Blocks /\ (b \in fresh => KeyOf(b) = work[s].key)
    BY DEF Found, Made
  <2>2. /\ work' = [work EXCEPT ![s] = w]
        /\ overlapped' = IF Users(s, b) = {} THEN overlapped ELSE overlapped \cup {b}
    BY <1>4
  <2>3. /\ w \in Work /\ w.at = to /\ w.block = b /\ w.time = work[s].time
        /\ w.key = work[s].key /\ w.for = work[s].for
    BY <1>2, <2>1 DEF Work
  <2> HIDE DEF w
  <2>4. overlapped \subseteq overlapped' /\ overlapped' \subseteq Blocks
    BY <1>2, <2>1, <2>2
  <2>5. HandsOf(w, now)
    BY <1>1, <1>2, <2>1, <2>3 DEF HandsOf
  <2>6. b \in fresh => JudgedOf(w, heap[b].born, lastUse[b], overlapped', now)
    BY <1>1, <2>1, <2>3 DEF JudgedOf, KeyOf
  <2>7. b \notin overlapped' => \A t \in Sessions \ {s} : work[t].block # b
    BY <2>2 DEF Users
  <2> QED
    BY <1>1, <1>2, <2>2, <2>3, <2>4, <2>5, <2>6, <2>7, WorkStep
<1> QED
  BY <1>1, <1>3, <1>4

\* The clock is read and not behind any stamp, for the stamps are older.
LEMMA ReadClockStep ==
    ASSUME IInv, NEW s \in Sessions, ReadClock(s), work[s].for # "create"
    PROVE  IInv'
<1> USE DEF IInv
<1> DEFINE w == [work[s] EXCEPT !.at = "compare", !.time = now]
           b == work[s].block
<1>1. /\ work[s].at = "clock" /\ work' = [work EXCEPT ![s] = w]
      /\ UNCHANGED <<initialized, list, torn, heap, now, lastUse, fresh, lost, overlapped>>
  BY DEF ReadClock, ghosts
<1>2. /\ work[s] \in Work /\ HandsOf(work[s], now) /\ now \in 0..MaxTime
      /\ overlapped \subseteq Blocks /\ initialized \in BOOLEAN /\ torn \in BOOLEAN
  BY DEF TypeOK, Work, Hands
<1>3. /\ w \in Work /\ w.at = "compare" /\ w.block = b /\ w.time = now
      /\ w.key = work[s].key /\ w.for = work[s].for
  BY <1>2 DEF Work
<1> HIDE DEF w
<1>4. HandsOf(w, now)
  BY <1>1, <1>2, <1>3 DEF HandsOf
<1>5. b \in fresh => /\ JudgedOf(w, heap[b].born, lastUse[b], overlapped', now)
                     /\ b \notin overlapped' => \A t \in Sessions \ {s} : work[t].block # b
  <2> SUFFICES ASSUME b \in fresh
               PROVE  /\ JudgedOf(w, heap[b].born, lastUse[b], overlapped, now)
                      /\ b \notin overlapped => \A t \in Sessions \ {s} : work[t].block # b
    BY <1>1
  <2>1. JudgedOf(work[s], heap[b].born, lastUse[b], overlapped, now) /\ lastUse[b] <= now
    BY DEF Judged, Made
  <2>2. b \notin overlapped => \A t \in Sessions \ {s} : work[t].block # b
    BY DEF Alone
  <2> QED
    BY <1>1, <1>3, <2>1, <2>2 DEF JudgedOf
<1> QED
  BY <1>1, <1>2, <1>3, <1>4, <1>5, WorkStep

\* The stamp read is the last use, and what the clock said of it is kept.
LEMMA CompareStep ==
    ASSUME IInv, NEW s \in Sessions, Compare(s)
    PROVE  IInv'
<1> USE DEF IInv
<1> DEFINE b == work[s].block
           kept == [work[s] EXCEPT !.at = "stamp"]
           old == [work[s] EXCEPT !.at = "remove", !.time = 0]
<1>1. /\ work[s].at = "compare"
      /\ \/ (~heap[b].live \/ ~TooOld(work[s].time, heap[b].time)) /\ work' = [work EXCEPT ![s] = kept]
         \/ /\ TooOld(work[s].time, heap[b].time) \/ (Timeout # 0 /\ ~heap[b].live)
            /\ work' = [work EXCEPT ![s] = old]
      /\ UNCHANGED <<initialized, list, torn, heap, now, lastUse, fresh, lost, overlapped>>
  BY DEF Compare, Go, ghosts
<1>2. /\ work[s] \in Work /\ HandsOf(work[s], now) /\ now \in Nat /\ work[s].time \in Nat
      /\ overlapped \subseteq Blocks /\ initialized \in BOOLEAN /\ torn \in BOOLEAN
  BY KeysAssumption DEF TypeOK, Work, Hands
<1>3. /\ kept \in Work /\ kept.at = "stamp" /\ kept.block = b /\ kept.time = work[s].time
      /\ kept.key = work[s].key
      /\ old \in Work /\ old.at = "remove" /\ old.block = b /\ old.time = 0
      /\ old.for = work[s].for
  <2>1. 0 \in 0..MaxTime
    BY KeysAssumption
  <2>2. /\ kept \in Work /\ kept.at = "stamp" /\ kept.block = b /\ kept.time = work[s].time
        /\ kept.key = work[s].key
    BY <1>2 DEF Work
  <2>3. /\ old \in Work /\ old.at = "remove" /\ old.block = b /\ old.time = 0
        /\ old.for = work[s].for
    BY <1>2, <2>1 DEF Work
  <2> QED
    BY <2>2, <2>3
<1> HIDE DEF kept, old
<1>4. HandsOf(kept, now) /\ HandsOf(old, now)
  BY <1>1, <1>2, <1>3 DEF HandsOf
<1>5. ASSUME b \in fresh
      PROVE  /\ JudgedOf(work[s], heap[b].born, lastUse[b], overlapped, now)
             /\ heap[b].live /\ heap[b].time = lastUse[b] /\ lastUse[b] \in Nat
             /\ b \notin overlapped => \A t \in Sessions \ {s} : work[t].block # b
  BY <1>5, KeysAssumption DEF Judged, Made, Alone, TypeOK
<1>6. CASE work' = [work EXCEPT ![s] = kept] /\ (~heap[b].live \/ ~TooOld(work[s].time, heap[b].time))
  <2>1. b \in fresh => JudgedOf(kept, heap[b].born, lastUse[b], overlapped, now)
    BY <1>1, <1>2, <1>3, <1>5, <1>6, KeysAssumption DEF JudgedOf, TooOld, InTime
  <2> QED
    BY <1>1, <1>2, <1>3, <1>4, <1>5, <1>6, <2>1, WorkStep
<1>7. CASE /\ work' = [work EXCEPT ![s] = old]
           /\ TooOld(work[s].time, heap[b].time) \/ (Timeout # 0 /\ ~heap[b].live)
  <2>1. work[s].time <= now
    BY <1>2 DEF HandsOf
  <2>2. b \in fresh => JudgedOf(old, heap[b].born, lastUse[b], overlapped, now)
    <3> SUFFICES ASSUME b \in fresh, b \notin overlapped
                 PROVE  ~InTime(lastUse[b], now)
      BY <1>3 DEF JudgedOf
    <3>1. TooOld(work[s].time, lastUse[b]) /\ lastUse[b] <= work[s].time
      BY <1>1, <1>5, <1>7 DEF JudgedOf
    <3> QED
      BY <1>2, <1>5, <2>1, <3>1, KeysAssumption DEF TooOld, InTime
  <2> QED
    BY <1>1, <1>2, <1>3, <1>4, <1>5, <1>7, <2>2, WorkStep
<1> QED
  BY <1>1, <1>6, <1>7

\* The time is written, and is that of the key's last use if the key is the one
\* that was found.
LEMMA StampStep ==
    ASSUME IInv, NEW s \in Sessions, Stamp(s)
    PROVE  IInv'
<1> USE DEF IInv
<1> DEFINE b == work[s].block
<1>1. /\ work[s].at = "stamp"
      /\ heap' = IF heap[b].live THEN [heap EXCEPT ![b].time = now] ELSE heap
      /\ lastUse' = IF heap[b].live /\ KeyOf(b) = work[s].key
                    THEN [lastUse EXCEPT ![b] = now] ELSE lastUse
      /\ UNCHANGED <<initialized, list, torn, now, fresh, overlapped, lost>>
  BY DEF Stamp, Use
<1>2. /\ work[s] \in Work /\ HandsOf(work[s], now) /\ now \in Nat /\ now \in 0..MaxTime
      /\ b \in Blocks /\ fresh \subseteq Blocks /\ None \notin Blocks
  BY <1>1, KeysAssumption DEF TypeOK, Work, Hands, HandsOf
<1>3. PICK w \in Work : /\ work' = [work EXCEPT ![s] = w]
                        /\ w.at = "idle" \/ (w.at = "refind" /\ w.for = "delete")
                        /\ w.block = None /\ w.time = 0
  <2>1. CASE work[s].for = "delete"
    <3> DEFINE w == [work[s] EXCEPT !.at = "refind", !.block = None, !.time = 0]
    <3>0. 0 \in 0..MaxTime
      BY KeysAssumption
    <3>1. /\ w \in Work /\ w.at = "refind" /\ w.for = "delete" /\ w.block = None /\ w.time = 0
      BY <1>2, <2>1, <3>0 DEF Work
    <3>2. work' = [work EXCEPT ![s] = w]
      BY <2>1 DEF Stamp, Accepted
    <3> QED
      BY <3>1, <3>2
  <2>2. CASE work[s].for # "delete"
    <3>1. Idle \in Work /\ Idle.at = "idle" /\ Idle.block = None /\ Idle.time = 0
      BY KeysAssumption DEF Idle, Work
    <3>2. work' = [work EXCEPT ![s] = Idle]
      BY <2>2 DEF Stamp, Accepted, Rest
    <3> QED
      BY <3>1, <3>2
  <2> QED
    BY <2>1, <2>2
<1>4. /\ work'[s] = w /\ \A t \in Sessions \ {s} : work'[t] = work[t]
      /\ work' \in [Sessions -> Work]
  BY <1>3, OneThread
<1>5. /\ \A c \in Blocks : heap'[c].live = heap[c].live /\ heap'[c].born = heap[c].born
      /\ \A c \in Blocks \ {b} : heap'[c] = heap[c] /\ lastUse'[c] = lastUse[c]
      /\ heap' \in [Blocks -> [live : BOOLEAN, born : 0..MaxTime, time : 0..MaxTime]]
      /\ lastUse' \in [Blocks -> 0..MaxTime]
  <2> DEFINE B == [live : BOOLEAN, born : 0..MaxTime, time : 0..MaxTime]
             stamped == [heap[b] EXCEPT !.time = now]
  <2>1. heap \in [Blocks -> B] /\ lastUse \in [Blocks -> 0..MaxTime]
    BY DEF TypeOK
  <2>2. stamped \in B /\ stamped.live = heap[b].live /\ stamped.born = heap[b].born
    BY <1>2, <2>1
  <2>3. heap' = IF heap[b].live THEN [heap EXCEPT ![b] = stamped] ELSE heap
    BY <1>1
  <2>4. lastUse' = lastUse \/ lastUse' = [lastUse EXCEPT ![b] = now]
    BY <1>1
  <2> HIDE DEF B, stamped
  <2>5. heap' \in [Blocks -> B] /\ lastUse' \in [Blocks -> 0..MaxTime]
    BY <1>2, <2>1, <2>2, <2>3, <2>4
  <2>6. ASSUME NEW c \in Blocks
        PROVE  /\ heap'[c].live = heap[c].live /\ heap'[c].born = heap[c].born
               /\ c # b => heap'[c] = heap[c] /\ lastUse'[c] = lastUse[c]
    BY <1>2, <2>1, <2>2, <2>3, <2>4
  <2> QED
    BY <2>5, <2>6 DEF B
<1>6. b \in fresh => heap'[b].time = now /\ lastUse'[b] = now
  <2>1. b \in fresh => heap[b].live /\ KeyOf(b) = work[s].key
    BY <1>1 DEF Made, Judged, JudgedOf, KeyOf
  <2> QED
    BY <1>1, <1>2, <2>1 DEF TypeOK
<1>7. TypeOK'
  BY <1>1, <1>4, <1>5 DEF TypeOK, Work
<1>8. Hands'
  <2>1. HandsOf(w, now)
    BY <1>2, <1>3 DEF HandsOf
  <2> QED
    BY <1>1, <1>4, <2>1 DEF Hands
<1>9. Made'
  <2> SUFFICES ASSUME NEW c \in fresh
               PROVE  heap'[c].live /\ heap'[c].time = lastUse'[c] /\ lastUse'[c] <= now
    BY <1>1 DEF Made
  <2>1. CASE c = b
    BY <1>2, <1>5, <1>6, <2>1 DEF Made
  <2>2. CASE c # b
    BY <1>2, <1>5, <2>2 DEF Made
  <2> QED
    BY <2>1, <2>2
<1>10. Alone'
  BY <1>1, <1>2, <1>3, <1>4 DEF Alone
<1>11. Judged'
  <2> SUFFICES ASSUME NEW t \in Sessions, work'[t].block \in fresh
               PROVE  JudgedOf(work'[t], heap'[work'[t].block].born, lastUse'[work'[t].block],
                               overlapped, now)
    BY <1>1 DEF Judged
  <2> DEFINE c == work[t].block
  <2>1. t # s /\ work'[t] = work[t] /\ c \in fresh /\ c \in Blocks
    BY <1>2, <1>3, <1>4
  <2>2. JudgedOf(work[t], heap[c].born, lastUse[c], overlapped, now)
    BY <2>1 DEF Judged
  <2>3. CASE c # b
    <3>1. heap'[c] = heap[c] /\ lastUse'[c] = lastUse[c]
      BY <1>5, <2>1, <2>3
    <3> QED
      BY <2>1, <2>2, <3>1
  <2>4. CASE c = b
    <3>1. c \in overlapped
      BY <2>1, <2>4 DEF Alone
    <3>2. heap'[c].born = heap[c].born /\ lastUse'[c] = now
      BY <1>5, <1>6, <2>1, <2>4
    <3>3. work[t].time \in Nat /\ work[t].time <= now
      BY KeysAssumption DEF TypeOK, Hands, HandsOf
    <3>4. InTime(now, work[t].time)
      BY <1>2, <3>3, KeysAssumption DEF InTime
    <3> QED
      BY <2>1, <2>2, <3>1, <3>2, <3>4 DEF JudgedOf
  <2> QED
    BY <2>3, <2>4
<1>12. \A t \in Sessions, c \in Blocks : Holds(t, c)' <=> Holds(t, c)
  BY <1>1, <1>3, <1>4 DEF Holds
<1>13. Kept'
  BY <1>1, <1>2, <1>12 DEF Kept
<1>14. ListedIsLive'
  BY <1>1, <1>5, <1>12, ListedAreBlocks DEF ListedIsLive
<1> QED
  BY <1>7, <1>8, <1>9, <1>10, <1>11, <1>13, <1>14

\* The entry is gone from the list and the thread has its block for itself, or
\* another thread was there first; in a torn list anything may have happened.
LEMMA RemoveKeyStep ==
    ASSUME IInv, NEW s \in Sessions, RemoveKey(s)
    PROVE  IInv'
<1> USE DEF IInv
<1> DEFINE b == work[s].block
<1>1. /\ work[s].at = "remove"
      /\ UNCHANGED <<initialized, torn, heap, now, lastUse, fresh, overlapped, lost>>
  BY DEF RemoveKey, ghosts
<1>2. /\ work[s] \in Work /\ HandsOf(work[s], now) /\ b \in Blocks /\ now \in 0..MaxTime
      /\ overlapped \subseteq Blocks /\ fresh \subseteq Blocks /\ None \notin fresh
      /\ initialized \in BOOLEAN /\ torn \in BOOLEAN
  BY <1>1, KeysAssumption DEF TypeOK, Work, Hands, HandsOf
<1>3. CASE Rest(s) /\ UNCHANGED list
  <2>1. Idle \in Work /\ Idle.at = "idle" /\ Idle.block = None /\ HandsOf(Idle, now)
    BY <1>2, KeysAssumption DEF Idle, Work, HandsOf
  <2>2. work' = [work EXCEPT ![s] = Idle] /\ list' = list
    BY <1>3 DEF Rest
  <2> HIDE DEF Idle
  <2> QED
    BY <1>1, <1>2, <2>1, <2>2, WorkStep
<1>4. CASE /\ Go(s, "free")
           /\ \/ ~torn /\ b \in ToSet(list) /\ list' = RemoveAt(list, Entry(b))
              \/ torn /\ UNCHANGED list
  <2> DEFINE w == [work[s] EXCEPT !.at = "free"]
  <2>1. work' = [work EXCEPT ![s] = w]
    BY <1>4 DEF Go
  <2>2. /\ w \in Work /\ w.at = "free" /\ w.block = b /\ w.time = work[s].time
        /\ w.for = work[s].for
    BY <1>2 DEF Work
  <2> HIDE DEF w
  <2>3. /\ work'[s] = w /\ \A t \in Sessions \ {s} : work'[t] = work[t]
        /\ work' \in [Sessions -> Work]
    BY <2>1, <2>2, OneThread
  <2>4. ASSUME ~torn
        PROVE  /\ b \in ToSet(list) /\ list' \in Seq(Blocks) /\ IsInjective(list')
               /\ ToSet(list') = ToSet(list) \ {b}
    <3>1. b \in ToSet(list) /\ list' = RemoveAt(list, Entry(b))
      BY <1>4, <2>4
    <3>2. Entry(b) \in DOMAIN list /\ list[Entry(b)] = b
      BY <3>1 DEF ToSet, Entry
    <3>3. list \in Seq(Blocks) /\ Entry(b) \in 1..Len(list) /\ IsInjective(list)
      BY <2>4, <3>2 DEF TypeOK, ListedIsLive
    <3> QED
      BY <3>1, <3>2, <3>3, RemoveAtProperties, RemoveAtInjective
  <2>5. list' \in Seq(Blocks)
    BY <1>4, <2>4 DEF TypeOK
  <2>7. TypeOK'
    BY <1>1, <2>3, <2>5 DEF TypeOK, Work
  <2>8. Hands'
    <3>1. HandsOf(w, now)
      BY <1>1, <1>2, <2>2 DEF HandsOf
    <3> QED
      BY <1>1, <2>3, <3>1 DEF Hands
  <2>9. Made' /\ Alone'
    BY <1>1, <2>2, <2>3 DEF Made, Alone
  <2>10. Judged'
    <3>1. b \in fresh => JudgedOf(w, heap[b].born, lastUse[b], overlapped, now)
      <4>1. b \in fresh => JudgedOf(work[s], heap[b].born, lastUse[b], overlapped, now)
        BY DEF Judged
      <4> QED
        BY <1>1, <2>2, <4>1 DEF JudgedOf
    <3> QED
      BY <1>1, <2>2, <2>3, <3>1 DEF Judged
  <2>11. \A t \in Sessions, c \in Blocks :
           Holds(t, c)' <=> (Holds(t, c) \/ (t = s /\ c = b))
    BY <1>1, <2>2, <2>3 DEF Holds
  <2>12. Kept'
    BY <1>1, <1>2, <2>4, <2>11 DEF Kept
  <2>13. ListedIsLive'
    <3> SUFFICES ASSUME ~torn PROVE ListedIsLive'
      BY <1>1 DEF ListedIsLive
    <3>1. heap[b].live /\ \A t \in Sessions : ~Holds(t, b)
      BY <1>2, <2>4 DEF ListedIsLive
    <3> QED
      BY <1>1, <2>4, <2>11, <3>1 DEF ListedIsLive
  <2> QED
    BY <2>7, <2>8, <2>9, <2>10, <2>12, <2>13
<1> QED
  BY <1>3, <1>4 DEF RemoveKey

\* The block is free; unless the list is torn, nobody else has it for itself and
\* it is not in the list.
LEMMA FreeStep ==
    ASSUME IInv, NEW s \in Sessions, Free(s)
    PROVE  IInv'
<1> USE DEF IInv
<1> DEFINE b == work[s].block
<1>1. /\ work[s].at = "free" /\ work' = [work EXCEPT ![s] = Idle]
      /\ heap' = [heap EXCEPT ![b] = Unused] /\ lastUse' = [lastUse EXCEPT ![b] = 0]
      /\ fresh' = fresh \ {b} /\ overlapped' = overlapped \ {b}
      /\ UNCHANGED <<initialized, list, torn, now, lost>>
  BY DEF Free, Rest
<1>2. /\ b \in Blocks /\ now \in 0..MaxTime /\ None \notin Blocks /\ 0 <= now
      /\ 0 \in 0..MaxTime
  BY <1>1, KeysAssumption DEF TypeOK, Hands, HandsOf
<1>3. Idle \in Work /\ Idle.at = "idle" /\ Idle.block = None /\ HandsOf(Idle, now)
  BY <1>2 DEF Idle, Work, HandsOf
<1> HIDE DEF Idle
<1>4. /\ work'[s] = Idle /\ \A t \in Sessions \ {s} : work'[t] = work[t]
      /\ work' \in [Sessions -> Work]
  BY <1>1, <1>3, OneThread
<1>5. /\ ~heap'[b].live
      /\ \A c \in Blocks \ {b} : heap'[c] = heap[c] /\ lastUse'[c] = lastUse[c]
      /\ heap' \in [Blocks -> [live : BOOLEAN, born : 0..MaxTime, time : 0..MaxTime]]
      /\ lastUse' \in [Blocks -> 0..MaxTime]
  BY <1>1, <1>2 DEF TypeOK, Unused
<1>6. ~torn => b \notin ToSet(list) /\ \A t \in Sessions \ {s} : ~Holds(t, b)
  BY <1>1, <1>2 DEF ListedIsLive, Holds
<1>7. fresh \subseteq Blocks /\ \A c \in fresh' : c \in fresh /\ c \in Blocks \ {b}
  BY <1>1 DEF TypeOK
<1>8. TypeOK'
  BY <1>1, <1>4, <1>5 DEF TypeOK, Work
<1>9. Hands'
  BY <1>1, <1>3, <1>4 DEF Hands
<1>10. Made' /\ Alone'
  <2>1. Made'
    BY <1>1, <1>5, <1>7 DEF Made
  <2>2. Alone'
    BY <1>1, <1>2, <1>3, <1>4, <1>7 DEF Alone
  <2> QED
    BY <2>1, <2>2
<1>11. Judged'
  <2> SUFFICES ASSUME NEW t \in Sessions, work'[t].block \in fresh'
               PROVE  JudgedOf(work'[t], heap'[work'[t].block].born, lastUse'[work'[t].block],
                               overlapped', now)
    BY <1>1 DEF Judged
  <2> DEFINE c == work[t].block
  <2>1. work'[t] = work[t] /\ c \in fresh /\ c \in Blocks \ {b}
    BY <1>2, <1>3, <1>4, <1>7
  <2>2. JudgedOf(work[t], heap[c].born, lastUse[c], overlapped, now)
    BY <2>1 DEF Judged
  <2>3. JudgedOf(work[t], heap[c].born, lastUse[c], overlapped', now)
    BY <1>1, <2>1, <2>2 DEF JudgedOf
  <2> QED
    BY <1>5, <2>1, <2>3
<1>12. ~torn => \A t \in Sessions, c \in Blocks : Holds(t, c)' <=> (Holds(t, c) /\ c # b)
  <2>1. \A c \in Blocks : Holds(s, c) => c = b
    BY DEF Holds
  <2>2. \A c \in Blocks : ~Holds(s, c)'
    BY <1>3, <1>4 DEF Holds
  <2>3. \A t \in Sessions \ {s}, c \in Blocks : Holds(t, c)' <=> Holds(t, c)
    BY <1>4 DEF Holds
  <2> QED
    BY <1>6, <2>1, <2>2, <2>3
<1>13. Kept'
  BY <1>1, <1>7, <1>12 DEF Kept
<1>14. ListedIsLive'
  BY <1>1, <1>5, <1>6, <1>12, ListedAreBlocks DEF ListedIsLive
<1> QED
  BY <1>8, <1>9, <1>10, <1>11, <1>13, <1>14

-----------------------------------------------------------------------------
(* FTM_SSID_create.                                                        *)

\* A block that is allocated has one hand on it, unless some thread still had
\* it from before.
LEMMA MallocStep ==
    ASSUME IInv, NEW s \in Sessions, NEW b \in Blocks, Malloc(s, b)
    PROVE  IInv'
<1> USE DEF IInv
<1> DEFINE w == [work[s] EXCEPT !.at = "append", !.block = b, !.time = 0]
<1>1. /\ work[s].at = "malloc" /\ ~heap[b].live
      /\ heap' = [heap EXCEPT ![b] = [live |-> TRUE, born |-> work[s].time, time |-> work[s].time]]
      /\ lastUse' = [lastUse EXCEPT ![b] = work[s].time]
      /\ fresh' = IF Users(s, b) = {} THEN fresh \cup {b} ELSE fresh \ {b}
      /\ overlapped' = overlapped \ {b}
      /\ work' = [work EXCEPT ![s] = w]
      /\ UNCHANGED <<initialized, list, torn, now, lost>>
  BY DEF Malloc
<1>2. /\ work[s] \in Work /\ HandsOf(work[s], now)
      /\ now \in 0..MaxTime /\ None \notin Blocks
  BY KeysAssumption DEF TypeOK, Work, Hands
<1>3. /\ work[s].time <= now /\ work[s].time \in 0..MaxTime /\ work[s].block = None
  BY <1>1, <1>2 DEF HandsOf, Work
<1>4. 0 <= now /\ 0 \in 0..MaxTime
  BY <1>2, KeysAssumption
<1>5. w \in Work /\ w.at = "append" /\ w.block = b /\ w.time = 0
  BY <1>2, <1>4 DEF Work
<1> HIDE DEF w
<1>6. /\ work'[s] = w /\ \A t \in Sessions \ {s} : work'[t] = work[t]
      /\ work' \in [Sessions -> Work]
  BY <1>1, <1>5, OneThread
<1>7. /\ heap'[b].live /\ heap'[b].time = work[s].time /\ lastUse'[b] = work[s].time
      /\ \A c \in Blocks \ {b} : heap'[c] = heap[c] /\ lastUse'[c] = lastUse[c]
      /\ heap' \in [Blocks -> [live : BOOLEAN, born : 0..MaxTime, time : 0..MaxTime]]
      /\ lastUse' \in [Blocks -> 0..MaxTime]
  BY <1>1, <1>3 DEF TypeOK
<1>8. ~torn => b \notin ToSet(list) /\ \A t \in Sessions : ~Holds(t, b)
  BY <1>1 DEF ListedIsLive
<1>9. /\ fresh' \subseteq Blocks /\ overlapped' \subseteq Blocks
      /\ \A c \in fresh' \ {b} : c \in fresh /\ c \in Blocks /\ (c \in overlapped' <=> c \in overlapped)
      /\ b \in fresh' => \A t \in Sessions \ {s} : work[t].block # b
  BY <1>1 DEF TypeOK, Users
<1>10. TypeOK'
  BY <1>1, <1>6, <1>7, <1>9 DEF TypeOK, Work
<1>11. Hands'
  <2>1. HandsOf(w, now)
    BY <1>4, <1>5 DEF HandsOf
  <2> QED
    BY <1>1, <1>6, <2>1 DEF Hands
<1>12. Made'
  <2> SUFFICES ASSUME NEW c \in fresh'
               PROVE  heap'[c].live /\ heap'[c].time = lastUse'[c] /\ lastUse'[c] <= now
    BY <1>1 DEF Made
  <2>1. CASE c = b
    BY <1>3, <1>7, <2>1
  <2>2. CASE c # b
    <3>1. c \in fresh /\ heap'[c] = heap[c] /\ lastUse'[c] = lastUse[c]
      BY <1>7, <1>9, <2>2
    <3> QED
      BY <3>1 DEF Made
  <2> QED
    BY <2>1, <2>2
<1>13. Alone'
  BY <1>1, <1>2, <1>5, <1>6, <1>9 DEF Alone
<1>14. Judged'
  <2> SUFFICES ASSUME NEW t \in Sessions, work'[t].block \in fresh'
               PROVE  JudgedOf(work'[t], heap'[work'[t].block].born, lastUse'[work'[t].block],
                               overlapped', now)
    BY <1>1 DEF Judged
  <2>1. CASE t = s
    BY <1>5, <1>6, <2>1 DEF JudgedOf
  <2>2. CASE t # s
    <3> DEFINE c == work[t].block
    <3>1. work'[t] = work[t] /\ c # b /\ c \in fresh /\ c \in Blocks
          /\ (c \in overlapped' <=> c \in overlapped)
      BY <1>6, <1>9, <2>2
    <3>2. JudgedOf(work[t], heap[c].born, lastUse[c], overlapped, now)
      BY <3>1 DEF Judged
    <3>3. JudgedOf(work[t], heap[c].born, lastUse[c], overlapped', now)
      BY <3>1, <3>2 DEF JudgedOf
    <3> QED
      BY <1>7, <3>1, <3>3
  <2> QED
    BY <2>1, <2>2
<1>15. \A t \in Sessions, c \in Blocks :
          Holds(t, c)' <=> (Holds(t, c) \/ (t = s /\ c = b))
  BY <1>1, <1>5, <1>6 DEF Holds
<1>16. Kept'
  BY <1>1, <1>9, <1>15 DEF Kept
<1>17. ListedIsLive'
  <2> SUFFICES ASSUME ~torn PROVE ListedIsLive'
    BY <1>1 DEF ListedIsLive
  <2>1. \A c \in ToSet(list) : heap'[c].live
    BY <1>7, <1>8, ListedAreBlocks DEF ListedIsLive
  <2>2. ASSUME NEW t \in Sessions, NEW c \in Blocks, Holds(t, c)'
        PROVE  /\ heap'[c].live /\ c \notin ToSet(list)
               /\ \A u \in Sessions \ {t} : ~Holds(u, c)'
    <3>1. CASE c = b
      BY <1>7, <1>8, <1>15, <2>2, <3>1
    <3>2. CASE c # b
      BY <1>7, <1>15, <2>2, <3>2 DEF ListedIsLive
    <3> QED
      BY <3>1, <3>2
  <2> QED
    BY <1>1, <2>1, <2>2 DEF ListedIsLive
<1> QED
  BY <1>10, <1>11, <1>12, <1>13, <1>14, <1>16, <1>17

\* The block of a new key is entered, once, or there is no memory for its entry
\* and it is not fresh any more.
LEMMA AppendKeySteps ==
    ASSUME IInv, NEW s \in Sessions, AppendKey(s) \/ AppendFails(s)
    PROVE  IInv'
<1> USE DEF IInv
<1> DEFINE b == work[s].block
<1>1. /\ work[s].at = "append" /\ work' = [work EXCEPT ![s] = Idle]
      /\ \/ list' = (IF torn THEN list ELSE Append(list, b)) /\ fresh' = fresh
         \/ list' = list /\ fresh' = fresh \ {b}
      /\ UNCHANGED <<initialized, torn, heap, now, lastUse, overlapped, lost>>
  BY DEF AppendKey, AppendFails, Rest, ghosts
<1>2. /\ b \in Blocks /\ now \in 0..MaxTime /\ None \notin Blocks /\ 0 <= now
      /\ 0 \in 0..MaxTime
  BY <1>1, KeysAssumption DEF TypeOK, Hands, HandsOf
<1>3. Idle \in Work /\ Idle.at = "idle" /\ Idle.block = None /\ HandsOf(Idle, now)
  BY <1>2 DEF Idle, Work, HandsOf
<1> HIDE DEF Idle
<1>4. /\ work'[s] = Idle /\ \A t \in Sessions \ {s} : work'[t] = work[t]
      /\ work' \in [Sessions -> Work]
  BY <1>1, <1>3, OneThread
<1>5. ~torn =>
      /\ heap[b].live /\ b \notin ToSet(list) /\ IsInjective(list) /\ list \in Seq(Blocks)
      /\ \A t \in Sessions \ {s} : ~Holds(t, b)
  BY <1>1, <1>2 DEF ListedIsLive, Holds, TypeOK
<1>6. /\ list' \in Seq(Blocks) /\ fresh' \subseteq fresh
      /\ ~torn => /\ IsInjective(list') /\ ToSet(list') \subseteq ToSet(list) \cup {b}
                  /\ ToSet(list) \subseteq ToSet(list') /\ (b \in fresh' => b \in ToSet(list'))
  <2>1. list \in Seq(Blocks)
    BY DEF TypeOK
  <2>2. CASE list' = list /\ (torn \/ fresh' = fresh \ {b})
    BY <1>1, <1>5, <2>1, <2>2
  <2>3. CASE ~torn /\ list' = Append(list, b) /\ fresh' = fresh
    <3>1. /\ list' \in Seq(Blocks) /\ IsInjective(list')
          /\ ToSet(list') = ToSet(list) \cup {b}
      BY <1>2, <1>5, <2>1, <2>3, AppendNew
    <3> QED
      BY <2>3, <3>1
  <2> QED
    BY <1>1, <2>2, <2>3
<1>7. TypeOK'
  BY <1>1, <1>4, <1>6 DEF TypeOK, Work
<1>8. Hands'
  BY <1>1, <1>3, <1>4 DEF Hands
<1>9. None \notin fresh /\ None \notin fresh' /\ fresh \subseteq Blocks
  BY <1>2, <1>6 DEF TypeOK
<1>10. Made' /\ Alone' /\ Judged'
  <2>1. Made'
    BY <1>1, <1>6 DEF Made
  <2>2. Alone'
    BY <1>1, <1>3, <1>4, <1>6, <1>9 DEF Alone
  <2>3. Judged'
    BY <1>1, <1>3, <1>4, <1>6, <1>9 DEF Judged
  <2> QED
    BY <2>1, <2>2, <2>3
<1>11. ~torn => \A t \in Sessions, c \in Blocks : Holds(t, c)' <=> (Holds(t, c) /\ c # b)
  <2>1. \A c \in Blocks : Holds(s, c) => c = b
    BY DEF Holds
  <2>2. \A c \in Blocks : ~Holds(s, c)'
    BY <1>3, <1>4 DEF Holds
  <2>3. \A t \in Sessions \ {s}, c \in Blocks : Holds(t, c)' <=> Holds(t, c)
    BY <1>4 DEF Holds
  <2> QED
    BY <1>5, <2>1, <2>2, <2>3
<1>12. Kept'
  BY <1>1, <1>6, <1>9, <1>11 DEF Kept
<1>13. ListedIsLive'
  BY <1>1, <1>5, <1>6, <1>11 DEF ListedIsLive
<1> QED
  BY <1>7, <1>8, <1>10, <1>12, <1>13

-----------------------------------------------------------------------------
(* The invariant.                                                          *)

\* It holds before the first request.
LEMMA InitHolds == Init => IInv
<1> SUFFICES ASSUME Init PROVE IInv
  OBVIOUS
<1>1. 0 \in 0..MaxTime /\ None \notin Blocks
  BY KeysAssumption
<1>2. /\ Idle \in Work /\ Idle.at = "idle" /\ Idle.block = None /\ HandsOf(Idle, 0)
  BY <1>1 DEF Idle, Work, HandsOf
<1> HIDE DEF Idle
<1>3. <<>> \in Seq(Blocks)
  OBVIOUS
<1>4. TypeOK
  BY <1>1, <1>2, <1>3 DEF Init, TypeOK, Work, Unused
<1>5. Hands /\ Made /\ Alone /\ Judged
  BY <1>2 DEF Init, Hands, Made, Alone, Judged
<1>6. (\A b \in Blocks : ~heap[b].live) /\ \A s \in Sessions, b \in Blocks : ~Holds(s, b)
  BY <1>2 DEF Init, Holds, Unused
<1>7. list = <<>> /\ ToSet(list) = {} /\ IsInjective(list)
  BY DEF Init, ToSet, IsInjective
<1>8. Kept /\ ListedIsLive
  <2>1. fresh = {}
    BY DEF Init
  <2> QED
    BY <1>6, <1>7, <2>1 DEF Kept, ListedIsLive
<1> QED
  BY <1>4, <1>5, <1>8 DEF IInv

\* Every step of a session, and the clock's, keeps it.
LEMMA NextKeeps == IInv /\ [Next]_vars => IInv'
<1> SUFFICES ASSUME IInv, [Next]_vars PROVE IInv'
  OBVIOUS
<1>1. CASE Tick
  BY <1>1, TickStep
<1>2. ASSUME NEW s \in Sessions, SessionStep(s)
      PROVE  IInv'
  <2>1. CASE ReadClock(s)
    BY <2>1, RequestSteps, ReadClockStep
  <2>2. CASE \E b \in Blocks : Malloc(s, b)
    BY <2>2, MallocStep
  <2> QED
    BY <1>2, <2>1, <2>2, RequestSteps, InitListStep, AppendKeySteps, FindStep, CompareStep,
       StampStep, RemoveKeyStep, FreeStep DEF SessionStep
<1>3. CASE UNCHANGED vars
  BY <1>3 DEF vars, IInv, TypeOK, Hands, Made, Alone, Judged, Kept, ListedIsLive, Holds
<1> QED
  BY <1>1, <1>2, <1>3 DEF Next

\* The invariant holds throughout.
LEMMA Invariance == Spec => []IInv
  BY InitHolds, NextKeeps, PTL DEF Spec

-----------------------------------------------------------------------------
(* Theorems.                                                               *)

\* Every variable keeps its type: no time that is kept is later than the clock
\* can be.
THEOREM TypeCorrect == Spec => []TypeOK
<1>1. IInv => TypeOK
  BY DEF IInv
<1> QED
  BY <1>1, Invariance, PTL

\* FTM_SSID_create, FTM_SSID_get and FTM_SSID_destroy never free a key that is
\* in the list, and none twice, unless the list is initialised, lock included,
\* while another of them is at work on it.
THEOREM ListedIsLiveCorrect == Spec => []ListedIsLive
<1>1. IInv => ListedIsLive
  BY DEF IInv
<1> QED
  BY <1>1, Invariance, PTL

\* FTM_SSID_isValid accepts no key that was not used for longer than the
\* time-out when it read the clock, even in a torn list.
THEOREM NoLateServiceCorrect == Spec => []NoLateService
<1>1. IInv => NoLateService
  <2> SUFFICES ASSUME IInv, NEW s \in Sessions, work[s].at = "stamp", work[s].block \in fresh
               PROVE  Recent(work[s].block, work[s].time)
    BY DEF NoLateService
  <2>1. InTime(lastUse[work[s].block], work[s].time)
    BY DEF IInv, Judged, JudgedOf
  <2> QED
    BY <2>1 DEF InTime, Recent
<1> QED
  BY <1>1, Invariance, PTL

\* A key in use is lost to no request for another and to no expiry, but for the
\* four accidents ActiveKept names.
THEOREM ActiveKeptCorrect == Spec => []ActiveKept
<1>1. IInv => ActiveKept
  <2> SUFFICES ASSUME IInv, NEW b \in Blocks, b \in fresh, b \notin overlapped,
                      heap[b].live, Recent(b, now), ~lost, ~torn, b \notin ToSet(list)
               PROVE  \E s \in Sessions :
                         Holds(s, b) /\ (work[s].at = "append" \/ work[s].for = "delete")
    BY DEF ActiveKept
  <2>1. PICK s \in Sessions : Holds(s, b)
    BY DEF IInv, Kept
  <2>2. InTime(lastUse[b], now)
    BY DEF InTime, Recent
  <2>3. JudgedOf(work[s], heap[b].born, lastUse[b], overlapped, now) /\ work[s].block = b
    BY <2>1 DEF IInv, Judged, Holds
  <2> QED
    BY <2>1, <2>2, <2>3 DEF JudgedOf, Holds
<1> QED
  BY <1>1, Invariance, PTL
=============================================================================
