---------------------------- MODULE Alarms_proofs ----------------------------
(***************************************************************************)
(* Proofs about Alarms for any numbers of texts, blocks and sessions: an   *)
(* alarm has one owner, the iterator that all share stays in the list, the *)
(* notifier stays within its array and tells everyone who was to be told,  *)
(* and alarms whose INSERT did not fail come back after a restart.         *)
(***************************************************************************)
EXTENDS Alarms, ListLemmas

-----------------------------------------------------------------------------
(* The inductive invariant.                                                *)

\* A thread that adds or deletes has a block, and the notifier that copies has
\* a block and room for it.
WorkOK ==
    /\ \A s \in Sessions :
          work[s].at \in {"append", "insert", "remove", "free"} => work[s].block \in Blocks
    /\ notifier.at = "copy" => notifier.block \in Blocks
    /\ notifier.at \in {"start", "next", "copy"} => notifier.left > 0

\* An alarm whose addition is over has a row under its name, or its INSERT
\* failed.
Rowed ==
    \A b \in ToSet(list) :
       \/ \E s \in Sessions : work[s].at = "insert" /\ work[s].block = b
       \/ b \in failed
       \/ HasRow(NameOf[heap[b]])

\* The table has one text for a name; and a name that was not given with another
\* text is that of one text only, in alarms, rows and what a thread may still
\* read of a freed block.
Same ==
    /\ \A x, y \in ToSet(rows) : NameOf[x] = NameOf[y] => x = y
    /\ \A x, y \in Around \ {None} :
          NameOf[x] = NameOf[y] /\ NameOf[x] \notin reworded => x = y

IInv == TypeOK /\ WorkOK /\ OneOwner /\ IterInList /\ Rowed /\ Same

-----------------------------------------------------------------------------
(* The ring of entries.                                                    *)

\* A block in the list has one place there, which is its entry.
LEMMA EntryInList ==
    ASSUME TypeOK, NEW b \in ToSet(list)
    PROVE  Entry(b) \in 1..Len(list) /\ list[Entry(b)] = b
<1>1. \E i \in DOMAIN list : list[i] = b
  BY DEF ToSet
<1>2. DOMAIN list = 1..Len(list)
  BY DEF TypeOK
<1>3. Entry(b) \in DOMAIN list /\ list[Entry(b)] = b
  BY <1>1, Zenon DEF Entry
<1> QED
  BY <1>2, <1>3

\* What is in the list is a block.
LEMMA ListedAreBlocks == TypeOK => ToSet(list) \subseteq Blocks
BY DEF TypeOK, ToSet

\* One step on from an entry or from the head stays in the ring.
LEMMA NextInRing ==
    ASSUME TypeOK, NEW e \in ToSet(list) \cup {xHead}
    PROVE  NextOf(e) \in ToSet(list) \cup {xHead}
<1>0. Len(list) \in Nat
  BY DEF TypeOK
<1>1. DOMAIN list = 1..Len(list)
  BY DEF TypeOK
<1>2. PICK k \in 0..Len(list) : NextOf(e) = IF k = Len(list) THEN xHead ELSE list[k + 1]
  <2>1. CASE e = xHead
    BY <1>0, <2>1 DEF NextOf
  <2>2. CASE e # xHead
    <3>1. Entry(e) \in 0..Len(list)
      BY <1>0, <2>2, EntryInList
    <3> QED
      BY <2>2, <3>1 DEF NextOf
  <2> QED
    BY <2>1, <2>2
<1>3. CASE k = Len(list)
  BY <1>2, <1>3
<1>4. CASE k # Len(list)
  <2>1. k + 1 \in 1..Len(list)
    BY <1>0, <1>4
  <2> QED
    BY <1>1, <1>2, <1>4, <2>1 DEF ToSet
<1> QED
  BY <1>3, <1>4

\* Taking an entry out leaves the others, once each, and takes the iterator
\* back to one of them or to the head (FTM_LIST_remove).
LEMMA UnlinkKeeps ==
    ASSUME TypeOK, IsInjective(list), IterInList, NEW b \in ToSet(list), UnlinkBack(b)
    PROVE  /\ list' \in Seq(Blocks) /\ IsInjective(list')
           /\ ToSet(list') = ToSet(list) \ {b}
           /\ iter' \in ToSet(list') \cup {xHead}
<1> DEFINE k == Entry(b)
<1>1. k \in 1..Len(list) /\ list[k] = b
  BY EntryInList
<1>2. list' = RemoveAt(list, k) /\ iter' = IF iter = b THEN PrevOf(b) ELSE iter
  BY DEF UnlinkBack
<1>3. PrevOf(b) = IF k = 1 THEN xHead ELSE list[k - 1]
  BY DEF PrevOf
<1> HIDE DEF k
<1>4. /\ list' \in Seq(Blocks) /\ IsInjective(list')
      /\ ToSet(list') = ToSet(list) \ {b}
  BY <1>1, <1>2, RemoveAtProperties, RemoveAtInjective DEF TypeOK
<1>5. PrevOf(b) \in (ToSet(list) \ {b}) \cup {xHead}
  <2>1. CASE k = 1
    BY <1>3, <2>1
  <2>2. CASE k # 1
    <3>1. k - 1 \in DOMAIN list /\ k \in DOMAIN list /\ k - 1 # k
      BY <1>1, <2>2 DEF TypeOK
    <3>2. list[k - 1] # b
      BY <1>1, <3>1 DEF IsInjective
    <3> QED
      BY <1>3, <2>2, <3>1, <3>2 DEF ToSet
  <2> QED
    BY <2>1, <2>2
<1> QED
  BY <1>2, <1>4, <1>5 DEF IterInList

-----------------------------------------------------------------------------
(* Additions (FTM_CATCHB_addAlarm).                                        *)

\* Steps that bring no new text.
LEMMA SameStays ==
    ASSUME Same, Around' \subseteq Around \cup {None}, UNCHANGED reworded,
           \A x, y \in ToSet(rows') : NameOf[x] = NameOf[y] => x = y
    PROVE  Same'
BY DEF Same

\* A free block has no owner before malloc gives it to a thread.
LEMMA MallocStep ==
    ASSUME IInv, NEW s \in Sessions, NEW t \in Texts, NEW b \in Blocks, Malloc(s, t, b)
    PROVE  IInv'
<1> USE DEF IInv
<1>1. /\ work[s].at = "idle" /\ heap[b] = None
      /\ heap' = [heap EXCEPT ![b] = t]
      /\ was' = [was EXCEPT ![b] = None]
      /\ work' = [work EXCEPT ![s] = [at |-> "append", block |-> b]]
      /\ UNCHANGED <<list, iter, rows, failed, notifier, pending, due>>
  BY DEF Malloc, notifierVars
<1>2. b \notin ToSet(list) /\ \A u \in Sessions : ~Holds(u, b)
  BY <1>1 DEF OneOwner
<1>3. t # None
  BY AlarmsAssumption
<1>4. /\ reworded \subseteq reworded' /\ reworded' \subseteq Names
      /\ (\E u \in Around \ {None, t} : NameOf[u] = NameOf[t]) => NameOf[t] \in reworded'
  BY DEF Malloc, TypeOK, Names
<1>5. TypeOK'
  BY <1>1, <1>4 DEF TypeOK
<1>6. WorkOK'
  BY <1>1 DEF WorkOK, TypeOK
<1>7. OneOwner'
  <2>1. \A u \in Sessions \ {s}, c \in Blocks : Holds(u, c)' = Holds(u, c)
    BY <1>1 DEF Holds, TypeOK
  <2>2. \A c \in Blocks : Holds(s, c)' <=> c = b
    BY <1>1 DEF Holds, TypeOK
  <2>3. \A c \in Blocks : ~Holds(s, c)
    BY <1>1 DEF Holds
  <2>4. ASSUME NEW c \in Blocks
        PROVE  /\ (heap[c] # None)' <=> (c \in ToSet(list) \/ \E u \in Sessions : Holds(u, c))'
               /\ \A u \in Sessions : Holds(u, c)' =>
                     /\ c \notin ToSet(list')
                     /\ \A v \in Sessions \ {u} : ~Holds(v, c)'
    <3>1. CASE c = b
      BY <1>1, <1>2, <1>3, <2>1, <2>2, <3>1 DEF TypeOK
    <3>2. CASE c # b
      <4>1. \A u \in Sessions : Holds(u, c)' <=> Holds(u, c)
        BY <2>1, <2>2, <2>3, <3>2
      <4>2. heap'[c] = heap[c] /\ list' = list
        BY <1>1, <3>2 DEF TypeOK
      <4> QED
        BY <4>1, <4>2 DEF OneOwner
    <3> QED
      BY <3>1, <3>2
  <2>5. IsInjective(list')
    BY <1>1 DEF OneOwner
  <2> QED
    BY <2>4, <2>5 DEF OneOwner
<1>8. IterInList'
  BY <1>1 DEF IterInList
<1>9. Rowed'
  <2>1. \A u \in Sessions : work[u].at = "insert" => u # s /\ work'[u] = work[u]
    BY <1>1 DEF TypeOK
  <2>2. \A c \in ToSet(list) : c \in Blocks /\ c # b
    BY <1>2, ListedAreBlocks
  <2>3. \A c \in ToSet(list) : heap'[c] = heap[c]
    BY <1>1, <2>2 DEF TypeOK
  <2> QED
    BY <1>1, <2>1, <2>3 DEF Rowed, HasRow
<1>10. Same'
  <2>1. Around' \subseteq Around \cup {None, t}
    BY <1>1 DEF Around, TypeOK
  <2>2. ASSUME NEW x \in Around' \ {None}, NEW y \in Around' \ {None},
               NameOf[x] = NameOf[y], NameOf[x] \notin reworded', x # y
        PROVE  FALSE
    <3>1. CASE x # t /\ y # t
      BY <1>4, <2>1, <2>2, <3>1 DEF Same
    <3>2. CASE x = t \/ y = t
      BY <1>4, <2>1, <2>2, <3>2
    <3> QED
      BY <3>1, <3>2
  <2> QED
    BY <1>1, <2>2 DEF Same
<1> QED
  BY <1>5, <1>6, <1>7, <1>8, <1>9, <1>10

\* The list takes the block over from the thread.
LEMMA AppendStep ==
    ASSUME IInv, NEW s \in Sessions, AppendAlarm(s)
    PROVE  IInv'
<1> USE DEF IInv
<1> DEFINE b == work[s].block
<1>1. /\ work[s].at = "append" /\ b \in Blocks
      /\ list' = Append(list, b)
      /\ work' = [work EXCEPT ![s].at = "insert"]
      /\ UNCHANGED <<iter, heap, storage, notifier, pending, due>>
  BY DEF AppendAlarm, notifierVars, WorkOK
<1>2. Holds(s, b) /\ b \notin ToSet(list) /\ \A t \in Sessions \ {s} : ~Holds(t, b)
  BY <1>1 DEF OneOwner, Holds
<1>3. /\ list' \in Seq(Blocks) /\ IsInjective(list')
      /\ ToSet(list') = ToSet(list) \cup {b}
  BY <1>1, <1>2, AppendNew DEF TypeOK, OneOwner
<1>4. /\ work'[s].at = "insert" /\ work'[s].block = b
      /\ \A t \in Sessions \ {s} : work'[t] = work[t]
  BY <1>1 DEF TypeOK
<1>5. TypeOK'
  BY <1>1, <1>3 DEF TypeOK, storage
<1>6. WorkOK'
  BY <1>1, <1>4 DEF WorkOK
<1>7. OneOwner'
  <2>1. \A t \in Sessions \ {s}, c \in Blocks : Holds(t, c)' <=> Holds(t, c)
    BY <1>4 DEF Holds
  <2>2. \A c \in Blocks : ~Holds(s, c)' /\ (Holds(s, c) <=> c = b)
    BY <1>1, <1>4 DEF Holds
  <2> HIDE DEF b
  <2>3. ASSUME NEW c \in Blocks
        PROVE  /\ (heap[c] # None)' <=> (c \in ToSet(list) \/ \E t \in Sessions : Holds(t, c))'
               /\ \A t \in Sessions : Holds(t, c)' =>
                     /\ c \notin ToSet(list')
                     /\ \A u \in Sessions \ {t} : ~Holds(u, c)'
    BY <1>1, <1>2, <1>3, <2>1, <2>2 DEF OneOwner
  <2> QED
    BY <1>3, <2>3 DEF OneOwner
<1>8. IterInList'
  BY <1>1, <1>3 DEF IterInList
<1>9. Rowed' /\ Same'
  BY <1>1, <1>3, <1>4 DEF Rowed, HasRow, Same, Around, storage
<1> QED
  BY <1>5, <1>6, <1>7, <1>8, <1>9

\* Without memory for its entry the alarm stays with the thread, to be freed.
LEMMA AppendFailsStep ==
    ASSUME IInv, NEW s \in Sessions, AppendFails(s)
    PROVE  IInv'
<1> USE DEF IInv
<1>1. /\ work[s].at = "append" /\ work' = [work EXCEPT ![s].at = "free"]
      /\ UNCHANGED <<list, iter, heap, storage, notifier, pending, due>>
  BY DEF AppendFails, notifierVars
<1>2. /\ work'[s].at = "free" /\ work'[s].block = work[s].block
      /\ \A t \in Sessions \ {s} : work'[t] = work[t]
  BY <1>1 DEF TypeOK
<1>3. TypeOK' /\ WorkOK'
  BY <1>1, <1>2 DEF TypeOK, WorkOK, storage
<1>4. \A t \in Sessions, c \in Blocks : Holds(t, c)' <=> Holds(t, c)
  BY <1>1, <1>2 DEF Holds
<1>5. OneOwner' /\ IterInList'
  BY <1>1, <1>4 DEF OneOwner, IterInList
<1>6. Rowed' /\ Same'
  BY <1>1, <1>2 DEF Rowed, HasRow, Same, Around, storage
<1> QED
  BY <1>3, <1>5, <1>6

\* An INSERT keeps the rows there are, adds none but the alarm's own, and either
\* there is a row of the alarm's name afterwards or the alarm counts as failed.
LEMMA InsertProperties ==
    ASSUME TypeOK, NEW b \in Blocks, NEW t \in Texts, Insert(b, t)
    PROVE  /\ rows' \in Seq(Texts) /\ failed' \subseteq Blocks
           /\ ToSet(rows) \subseteq ToSet(rows') /\ ToSet(rows') \subseteq ToSet(rows) \cup {t}
           /\ \A c \in failed : c \in failed' \/ \E u \in ToSet(rows') : NameOf[u] = NameOf[heap[c]]
           /\ heap[b] = t => b \in failed' \/ \E u \in ToSet(rows') : NameOf[u] = NameOf[t]
           /\ Same => \A x, y \in ToSet(rows') : NameOf[x] = NameOf[y] => x = y
<1>1. CASE /\ ~HasRow(NameOf[t]) /\ rows' = Append(rows, t)
           /\ failed' = {c \in failed : NameOf[heap[c]] # NameOf[t]}
  <2>1. /\ Append(rows, t) \in Seq(Texts) /\ Len(rows) \in Nat
        /\ DOMAIN Append(rows, t) = 1..(Len(rows) + 1) /\ DOMAIN rows = 1..Len(rows)
        /\ \A i \in 1..Len(rows) : Append(rows, t)[i] = rows[i]
        /\ Append(rows, t)[Len(rows) + 1] = t
    BY AppendProperties DEF TypeOK
  <2>2. ToSet(rows') = ToSet(rows) \cup {t}
    BY <1>1, <2>1 DEF ToSet
  <2> QED
    BY <1>1, <2>1, <2>2 DEF TypeOK, HasRow, Same
<1>2. CASE /\ UNCHANGED rows
           /\ failed' = IF HasRow(NameOf[t]) \/ heap[b] # t THEN failed ELSE failed \cup {b}
  BY <1>2 DEF HasRow, TypeOK, Same
<1> QED
  BY <1>1, <1>2 DEF Insert

\* What the statement is made of is in the block or was its last text, so that
\* no other text gets into the table.
LEMMA InsertStep ==
    ASSUME IInv, NEW s \in Sessions, InsertAlarm(s)
    PROVE  IInv'
<1> USE DEF IInv
<1> DEFINE b == work[s].block
<1>1. /\ work[s].at = "insert" /\ b \in Blocks
      /\ work' = [work EXCEPT ![s] = Idle]
      /\ was' = [was EXCEPT ![b] = IF Writers(b) = {s} THEN None ELSE was[b]]
      /\ UNCHANGED <<list, iter, heap, reworded, notifier, pending, due>>
  BY DEF InsertAlarm, notifierVars, WorkOK
<1>2. PICK t \in Around :
         /\ rows' \in Seq(Texts) /\ failed' \subseteq Blocks
         /\ ToSet(rows) \subseteq ToSet(rows') /\ ToSet(rows') \subseteq ToSet(rows) \cup {t}
         /\ \A c \in failed : c \in failed' \/ \E u \in ToSet(rows') : NameOf[u] = NameOf[heap[c]]
         /\ heap[b] # None =>
               b \in failed' \/ \E u \in ToSet(rows') : NameOf[u] = NameOf[heap[b]]
         /\ \A x, y \in ToSet(rows') : NameOf[x] = NameOf[y] => x = y
  <2>1. heap[b] \in Texts \cup {None} /\ was[b] \in Texts \cup {None}
    BY <1>1 DEF TypeOK
  <2>2. heap[b] \in Around /\ was[b] \in Around
    BY <1>1 DEF Around
  <2> HIDE DEF b
  <2>3. CASE heap[b] # None /\ Insert(b, heap[b])
    BY <1>1, <2>1, <2>2, <2>3, InsertProperties
  <2>4. CASE heap[b] = None /\ was[b] # None /\ Insert(b, was[b])
    BY <1>1, <2>1, <2>2, <2>4, InsertProperties
  <2>5. CASE heap[b] = None /\ UNCHANGED <<rows, failed>>
    BY <2>2, <2>5 DEF TypeOK, Same
  <2> QED
    BY <2>3, <2>4, <2>5 DEF InsertAlarm, b
<1>3. work'[s] = Idle /\ \A u \in Sessions \ {s} : work'[u] = work[u]
  BY <1>1 DEF TypeOK
<1>4. TypeOK'
  BY <1>1, <1>2 DEF TypeOK, Idle
<1>5. WorkOK'
  BY <1>1, <1>3 DEF WorkOK, Idle
<1>6. OneOwner'
  <2>1. \A u \in Sessions, c \in Blocks : Holds(u, c)' <=> Holds(u, c)
    BY <1>1, <1>3 DEF Holds, Idle
  <2> QED
    BY <1>1, <2>1 DEF OneOwner
<1>7. IterInList'
  BY <1>1 DEF IterInList
<1>8. Rowed'
  <2>1. ASSUME NEW c \in ToSet(list)
        PROVE  \/ \E u \in Sessions : work'[u].at = "insert" /\ work'[u].block = c
               \/ c \in failed'
               \/ \E u \in ToSet(rows') : NameOf[u] = NameOf[heap[c]]
    <3>1. CASE c \in failed \/ HasRow(NameOf[heap[c]])
      BY <1>2, <3>1 DEF HasRow
    <3>2. CASE \E u \in Sessions : work[u].at = "insert" /\ work[u].block = c
      <4>1. PICK u \in Sessions : work[u].at = "insert" /\ work[u].block = c
        BY <3>2
      <4>2. CASE u = s
        <5>1. heap[c] # None
          BY ListedAreBlocks DEF OneOwner
        <5> QED
          BY <1>2, <4>1, <4>2, <5>1
      <4>3. CASE u # s
        BY <1>3, <4>1, <4>3
      <4> QED
        BY <4>2, <4>3
    <3> QED
      BY <3>1, <3>2 DEF Rowed
  <2> QED
    BY <1>1, <2>1 DEF Rowed, HasRow
<1>9. Same'
  <2>1. Around' \subseteq Around \cup {None}
    BY <1>1, <1>2 DEF Around, TypeOK
  <2> QED
    BY <1>1, <1>2, <2>1, SameStays
<1> QED
  BY <1>4, <1>5, <1>6, <1>7, <1>8, <1>9

-----------------------------------------------------------------------------
(* Deletions (FTM_CATCHB_delAlarm) and browsing.                           *)

\* The steps of a thread that change neither the list nor the heap nor the
\* table, and give the thread no block to itself.
LEMMA SessionMoves ==
    ASSUME IInv, NEW s \in Sessions,
           NEW w \in [at : {"idle", "remove", "browse"}, block : Blocks \cup {None}],
           w.at = "remove" => w.block \in Blocks,
           work[s].at \in {"idle", "browse"},
           work' = [work EXCEPT ![s] = w],
           iter' \in ToSet(list) \cup {xHead},
           due' \subseteq Blocks,
           UNCHANGED <<list, heap, storage, notifier, pending>>
    PROVE  IInv'
<1> USE DEF IInv
<1>1. /\ work'[s] = w /\ \A t \in Sessions \ {s} : work'[t] = work[t]
      /\ UNCHANGED <<list, heap, was, rows, failed, reworded, notifier, pending>>
  BY DEF TypeOK, storage
<1>2. TypeOK'
  BY <1>1, ListedAreBlocks DEF TypeOK
<1>3. WorkOK'
  BY <1>1 DEF WorkOK
<1>4. OneOwner'
  <2>1. \A t \in Sessions, c \in Blocks : Holds(t, c)' <=> Holds(t, c)
    BY <1>1 DEF Holds
  <2> QED
    BY <1>1, <2>1 DEF OneOwner
<1>5. IterInList'
  BY <1>1 DEF IterInList
<1>6. Rowed' /\ Same'
  BY <1>1 DEF Rowed, HasRow, Same, Around
<1> QED
  BY <1>2, <1>3, <1>4, <1>5, <1>6

\* FTM_LIST_get hands a block of the list to the thread, which does not own it.
LEMMA GetStep ==
    ASSUME IInv, NEW s \in Sessions, NEW n \in Names, GetAlarm(s, n)
    PROVE  IInv'
<1> USE DEF IInv
<1>1. PICK i \in DOMAIN list :
         work' = [work EXCEPT ![s] = [at |-> "remove", block |-> list[i]]]
  BY DEF GetAlarm
<1>2. list[i] \in Blocks
  BY <1>1, ListedAreBlocks DEF ToSet
<1>3. /\ work[s].at = "idle" /\ iter' \in ToSet(list) \cup {xHead}
      /\ due' \subseteq Blocks /\ UNCHANGED <<list, heap, storage, notifier, pending>>
  BY DEF GetAlarm, IterInList, TypeOK, notifierVars
<1> QED
  BY <1>1, <1>2, <1>3, SessionMoves

\* Whoever walks moves the iterator, and stays in the ring.
LEMMA BrowseStep ==
    ASSUME IInv, NEW s \in Sessions, BrowseStart(s) \/ BrowseNext(s)
    PROVE  IInv'
<1> USE DEF IInv
<1>1. due' \subseteq Blocks /\ UNCHANGED <<list, heap, storage, notifier, pending>>
  BY DEF BrowseStart, BrowseNext, TypeOK
<1>2. iter' \in ToSet(list) \cup {xHead}
  BY NextInRing DEF BrowseStart, BrowseNext, IterInList
<1>3. work[s] \in [at : {"idle", "append", "insert", "remove", "free", "browse"},
                   block : Blocks \cup {None}]
  BY DEF TypeOK
<1>4. CASE BrowseStart(s)
  <2> DEFINE w == [work[s] EXCEPT !.at = "browse"]
  <2>1. /\ w \in [at : {"idle", "remove", "browse"},
                   block : Blocks \cup {None}]
        /\ w.at = "browse"
    BY <1>3
  <2>2. work[s].at = "idle" /\ work' = [work EXCEPT ![s] = w]
    BY <1>4 DEF BrowseStart
  <2> HIDE DEF w
  <2> QED
    BY <1>1, <1>2, <2>1, <2>2, SessionMoves
<1>5. CASE BrowseNext(s) /\ work' = [work EXCEPT ![s] = Idle]
  <2>1. /\ Idle \in [at : {"idle", "remove", "browse"},
                      block : Blocks \cup {None}]
        /\ Idle.at = "idle" /\ work[s].at = "browse"
    BY <1>5 DEF Idle, BrowseNext
  <2> QED
    BY <1>1, <1>2, <1>5, <2>1, SessionMoves
<1>6. CASE BrowseNext(s) /\ UNCHANGED work
  <2>1. /\ work[s] \in [at : {"idle", "remove", "browse"},
                         block : Blocks \cup {None}]
        /\ work[s].at = "browse" /\ work' = [work EXCEPT ![s] = work[s]]
    BY <1>3, <1>6 DEF BrowseNext, TypeOK
  <2> QED
    BY <1>1, <1>2, <2>1, SessionMoves
<1> QED
  BY <1>4, <1>5, <1>6 DEF BrowseNext

\* Only who finds the block in the list takes it, and has it for itself then.
LEMMA RemoveStep ==
    ASSUME IInv, NEW s \in Sessions, RemoveAlarm(s)
    PROVE  IInv'
<1> USE DEF IInv
<1> DEFINE b == work[s].block
<1>1. /\ work[s].at = "remove" /\ b \in Blocks
      /\ UNCHANGED <<heap, was, rows, failed, reworded, notifier, pending>>
  BY DEF RemoveAlarm, WorkOK, storage
<1>2. CASE b \in ToSet(list)
  <2>1. /\ UnlinkBack(b) /\ due' = due \ {b}
        /\ work' = [work EXCEPT ![s].at = "free"]
    BY <1>2 DEF RemoveAlarm
  <2>2. /\ list' \in Seq(Blocks) /\ IsInjective(list')
        /\ ToSet(list') = ToSet(list) \ {b}
        /\ iter' \in ToSet(list') \cup {xHead}
    BY <1>2, <2>1, UnlinkKeeps DEF OneOwner
  <2>3. /\ work'[s].at = "free" /\ work'[s].block = b
        /\ \A t \in Sessions \ {s} : work'[t] = work[t]
    BY <2>1 DEF TypeOK
  <2>4. \A t \in Sessions : ~Holds(t, b)
    BY <1>1, <1>2 DEF OneOwner
  <2>5. TypeOK'
    <3>1. iter' \in Blocks \cup {xHead} /\ due' \subseteq Blocks
      BY <2>1, <2>2, ListedAreBlocks DEF TypeOK
    <3>2. work' \in [Sessions -> [at : {"idle", "append", "insert", "remove", "free", "browse"},
                                  block : Blocks \cup {None}]]
      BY <2>1 DEF TypeOK
    <3> QED
      BY <1>1, <2>2, <3>1, <3>2 DEF TypeOK
  <2>6. WorkOK'
    BY <1>1, <2>3 DEF WorkOK
  <2>7. OneOwner'
    <3>1. \A t \in Sessions \ {s}, c \in Blocks : Holds(t, c)' <=> Holds(t, c)
      BY <2>3 DEF Holds
    <3>2. \A c \in Blocks : ~Holds(s, c) /\ (Holds(s, c)' <=> c = b)
      BY <1>1, <2>3 DEF Holds
    <3> HIDE DEF b
    <3>3. ASSUME NEW c \in Blocks
          PROVE  /\ (heap[c] # None)' <=> (c \in ToSet(list) \/ \E t \in Sessions : Holds(t, c))'
                 /\ \A t \in Sessions : Holds(t, c)' =>
                       /\ c \notin ToSet(list')
                       /\ \A u \in Sessions \ {t} : ~Holds(u, c)'
      BY <1>1, <1>2, <2>2, <2>4, <3>1, <3>2 DEF OneOwner
    <3> QED
      BY <2>2, <3>3 DEF OneOwner
  <2>8. IterInList'
    BY <2>2 DEF IterInList
  <2>9. Rowed' /\ Same'
    BY <1>1, <2>2, <2>3 DEF Rowed, HasRow, Same, Around
  <2> QED
    BY <2>5, <2>6, <2>7, <2>8, <2>9
<1>3. CASE b \notin ToSet(list)
  <2>1. work' = [work EXCEPT ![s] = Idle] /\ UNCHANGED <<list, iter, due>>
    BY <1>3 DEF RemoveAlarm
  <2>2. work'[s] = Idle /\ \A t \in Sessions \ {s} : work'[t] = work[t]
    BY <2>1 DEF TypeOK
  <2>3. TypeOK'
    BY <1>1, <2>1 DEF TypeOK, Idle
  <2>4. WorkOK'
    BY <1>1, <2>2 DEF WorkOK, Idle
  <2>5. OneOwner'
    <3>1. \A t \in Sessions, c \in Blocks : Holds(t, c)' <=> Holds(t, c)
      BY <1>1, <2>2 DEF Holds, Idle
    <3> QED
      BY <1>1, <2>1, <3>1 DEF OneOwner
  <2>6. IterInList' /\ Rowed' /\ Same'
    BY <1>1, <2>1, <2>2 DEF IterInList, Rowed, HasRow, Same, Around
  <2> QED
    BY <2>3, <2>4, <2>5, <2>6
<1> QED
  BY <1>2, <1>3

\* The block a thread has for itself is free, and nobody's, afterwards.
LEMMA FreeStep ==
    ASSUME IInv, NEW s \in Sessions, Free(s)
    PROVE  IInv'
<1> USE DEF IInv
<1> DEFINE b == work[s].block
<1>1. /\ work[s].at = "free" /\ b \in Blocks
      /\ heap' = [heap EXCEPT ![b] = None]
      /\ work' = [work EXCEPT ![s] = Idle]
      /\ was' = [was EXCEPT ![b] = IF Writers(b) = {} THEN None ELSE heap[b]]
      /\ failed' = failed \ {b}
      /\ UNCHANGED <<list, iter, rows, reworded, notifier, pending, due>>
  BY DEF Free, FreeBlock, notifierVars, WorkOK
<1>2. Holds(s, b) /\ b \notin ToSet(list) /\ \A t \in Sessions \ {s} : ~Holds(t, b)
  BY <1>1 DEF OneOwner, Holds
<1>3. work'[s] = Idle /\ \A t \in Sessions \ {s} : work'[t] = work[t]
  BY <1>1 DEF TypeOK
<1>4. \A c \in Blocks : heap'[c] = IF c = b THEN None ELSE heap[c]
  BY <1>1 DEF TypeOK
<1>5. TypeOK'
  BY <1>1 DEF TypeOK, Idle
<1>6. WorkOK'
  BY <1>1, <1>3 DEF WorkOK, Idle
<1>7. OneOwner'
  <2>1. \A t \in Sessions \ {s}, c \in Blocks : Holds(t, c)' <=> Holds(t, c)
    BY <1>3 DEF Holds
  <2>2. \A c \in Blocks : ~Holds(s, c)' /\ (Holds(s, c) <=> c = b)
    BY <1>1, <1>3 DEF Holds, Idle
  <2> HIDE DEF b
  <2>3. ASSUME NEW c \in Blocks
        PROVE  /\ (heap[c] # None)' <=> (c \in ToSet(list) \/ \E t \in Sessions : Holds(t, c))'
               /\ \A t \in Sessions : Holds(t, c)' =>
                     /\ c \notin ToSet(list')
                     /\ \A u \in Sessions \ {t} : ~Holds(u, c)'
    BY <1>1, <1>2, <1>4, <2>1, <2>2 DEF OneOwner
  <2>4. IsInjective(list')
    BY <1>1 DEF OneOwner
  <2> QED
    BY <2>3, <2>4 DEF OneOwner
<1>8. IterInList'
  BY <1>1 DEF IterInList
<1>9. Rowed'
  <2>1. \A c \in ToSet(list) : heap'[c] = heap[c] /\ c # b
    BY <1>2, <1>4, ListedAreBlocks
  <2>2. \A t \in Sessions : work[t].at = "insert" => work'[t] = work[t]
    BY <1>1, <1>3
  <2> QED
    BY <1>1, <2>1, <2>2 DEF Rowed, HasRow
<1>10. Same'
  <2>1. Around' \subseteq Around \cup {None}
    BY <1>1, <1>4 DEF Around, TypeOK
  <2> QED
    BY <1>1, <2>1, SameStays DEF Same
<1> QED
  BY <1>5, <1>6, <1>7, <1>8, <1>9, <1>10

-----------------------------------------------------------------------------
(* The notifier, the restart, and all steps together.                      *)

\* The notifier moves the iterator within the ring, copies no more than it has
\* room for, and owns no alarm.
LEMMA NotifierSteps ==
    ASSUME IInv, SendAlarm \/ NotifierStep
    PROVE  IInv'
<1> USE DEF IInv
<1>1. UNCHANGED <<list, heap, was, rows, failed, reworded, work>>
  BY DEF SendAlarm, NotifierStep, CountAlarms, NotifierStart, NotifierNext, NotifierCopy, Mail,
         storage
<1>2. OneOwner' /\ Rowed' /\ Same'
  BY <1>1 DEF OneOwner, Holds, Rowed, HasRow, Same, Around
<1>3. iter' \in ToSet(list) \cup {xHead}
  BY NextInRing DEF SendAlarm, NotifierStep, CountAlarms, NotifierStart, NotifierNext,
                    NotifierCopy, Mail, IterInList
<1>4. IterInList'
  BY <1>1, <1>3 DEF IterInList
<1>5. /\ notifier' \in [at : {"idle", "start", "next", "copy", "mail"},
                         block : Blocks \cup {None}, left : Nat]
      /\ notifier'.at \in {"start", "next", "copy"} => notifier'.left > 0
      /\ notifier'.at = "copy" => notifier'.block \in Blocks
      /\ pending' \in Nat /\ due' \subseteq Blocks
  <2>1. CASE SendAlarm
    BY <2>1 DEF SendAlarm, TypeOK, WorkOK
  <2>2. CASE CountAlarms
    <3>1. CASE list = <<>>
      BY <2>2, <3>1 DEF CountAlarms, TypeOK, WorkOK
    <3>2. CASE list # <<>>
      <4>1. Len(list) \in Nat /\ Len(list) > 0
        BY <3>2, EmptySeq DEF TypeOK
      <4>2. /\ pending' = pending - 1 /\ pending > 0
            /\ notifier' = [at |-> "start", block |-> None, left |-> Len(list)]
            /\ due' = ToSet(list)
        BY <2>2, <3>2 DEF CountAlarms
      <4>3. pending' \in Nat /\ due' \subseteq Blocks
        <5>1. pending \in Nat
          BY DEF TypeOK
        <5> QED
          BY <4>2, <5>1, ListedAreBlocks
      <4>4. /\ notifier' \in [at : {"idle", "start", "next", "copy", "mail"},
                               block : Blocks \cup {None}, left : Nat]
            /\ notifier'.at = "start" /\ notifier'.left > 0
        BY <4>1, <4>2
      <4> QED
        BY <4>2, <4>3, <4>4
    <3> QED
      BY <3>1, <3>2
  <2>3. CASE NotifierStart
    BY <2>3 DEF NotifierStart, TypeOK, WorkOK
  <2>4. CASE NotifierNext
    <3>1. iter' # xHead => iter' \in Blocks
      BY <1>3, ListedAreBlocks
    <3> QED
      BY <2>4, <3>1 DEF NotifierNext, TypeOK
  <2>5. CASE NotifierCopy
    <3>1. notifier.left \in Nat /\ notifier.left > 0 /\ notifier.block \in Blocks
      BY <2>5 DEF NotifierCopy, TypeOK, WorkOK
    <3>2. /\ notifier' = [at |-> IF notifier.left = 1 THEN "mail" ELSE "next",
                          block |-> None, left |-> notifier.left - 1]
          /\ due' = due \ {notifier.block} /\ UNCHANGED pending
      BY <2>5 DEF NotifierCopy
    <3> QED
      BY <3>1, <3>2 DEF TypeOK
  <2>6. CASE Mail
    BY <2>6 DEF Mail, Resting, TypeOK
  <2> QED
    BY <2>1, <2>2, <2>3, <2>4, <2>5, <2>6 DEF NotifierStep
<1>6. TypeOK'
  BY <1>1, <1>3, <1>5, ListedAreBlocks DEF TypeOK
<1>7. WorkOK'
  BY <1>1, <1>5 DEF WorkOK
<1> QED
  BY <1>2, <1>4, <1>6, <1>7

\* A start makes an alarm of each row and gives it to the list.
LEMMA RestartStep ==
    ASSUME IInv, Restart
    PROVE  IInv'
<1> USE DEF IInv
<1>1. PICK f \in [1..Len(rows) -> Blocks] :
         /\ IsInjective(f)
         /\ list' = f
         /\ heap' = [b \in Blocks |->
                       IF \E i \in 1..Len(rows) : f[i] = b
                       THEN rows[CHOOSE i \in 1..Len(rows) : f[i] = b] ELSE None]
  BY DEF Restart
<1>2. /\ iter' = xHead /\ work' = [s \in Sessions |-> Idle]
      /\ notifier' = Resting /\ pending' = 0
      /\ was' = [b \in Blocks |-> None] /\ failed' = {} /\ reworded' = {}
      /\ due' = {} /\ rows' = rows
  BY DEF Restart
<1>3. Len(rows) \in Nat
  BY DEF TypeOK
<1>4. list' \in Seq(Blocks)
  BY <1>1, <1>3
<1>5. ToSet(list') = {b \in Blocks : \E i \in 1..Len(rows) : f[i] = b}
  BY <1>1 DEF ToSet
<1>6. ASSUME NEW b \in Blocks
      PROVE  IF b \in ToSet(list') THEN heap'[b] \in ToSet(rows) /\ heap'[b] \in Texts
             ELSE heap'[b] = None
  <2>1. CASE \E i \in 1..Len(rows) : f[i] = b
    <3> DEFINE i == CHOOSE i \in 1..Len(rows) : f[i] = b
    <3>1. i \in 1..Len(rows)
      BY <2>1
    <3>2. heap'[b] = rows[i]
      BY <1>1, <2>1
    <3> HIDE DEF i
    <3>3. rows[i] \in ToSet(rows) /\ rows[i] \in Texts
      BY <3>1 DEF ToSet, TypeOK
    <3> QED
      BY <1>5, <2>1, <3>2, <3>3
  <2>2. CASE ~\E i \in 1..Len(rows) : f[i] = b
    BY <1>1, <1>5, <2>2
  <2> QED
    BY <2>1, <2>2
<1>7. \A s \in Sessions : work'[s] = Idle
  BY <1>2
<1>8. TypeOK'
  <2>1. heap' \in [Blocks -> Texts \cup {None}]
    <3>1. DOMAIN heap' = Blocks /\ heap' = [b \in Blocks |-> heap'[b]]
      BY <1>1
    <3> QED
      BY <1>6, <3>1
  <2> QED
    BY <1>2, <1>4, <2>1 DEF TypeOK, Idle, Resting
<1>9. WorkOK'
  BY <1>2, <1>7 DEF WorkOK, Idle, Resting
<1>10. OneOwner'
  <2>1. \A s \in Sessions, b \in Blocks : ~Holds(s, b)'
    BY <1>7 DEF Holds, Idle
  <2>2. \A b \in Blocks : heap'[b] # None <=> b \in ToSet(list')
    BY <1>6, AlarmsAssumption
  <2>3. IsInjective(list')
    BY <1>1
  <2> QED
    BY <2>1, <2>2, <2>3 DEF OneOwner
<1>11. IterInList'
  BY <1>2 DEF IterInList
<1>12. Rowed'
  BY <1>2, <1>5, <1>6 DEF Rowed, HasRow
<1>13. Same'
  <2>1. Around' \subseteq ToSet(rows) \cup {None}
    BY <1>2, <1>6 DEF Around
  <2> QED
    BY <1>2, <2>1 DEF Same
<1> QED
  BY <1>8, <1>9, <1>10, <1>11, <1>12, <1>13

\* The daemon starts with an empty table and list.
LEMMA InitHolds == Init => IInv
<1> SUFFICES ASSUME Init PROVE IInv
  OBVIOUS
<1>1. list = <<>> /\ rows = <<>> /\ ToSet(list) = {}
  BY DEF Init, ToSet
<1>2. \A s \in Sessions : work[s] = Idle
  BY DEF Init
<1>3. TypeOK
  <2>1. <<>> \in Seq(Blocks) /\ <<>> \in Seq(Texts)
    OBVIOUS
  <2> QED
    BY <1>1, <2>1 DEF Init, TypeOK, Idle, Resting
<1>4. WorkOK
  BY <1>2 DEF Init, WorkOK, Idle, Resting
<1>5. OneOwner
  <2>1. IsInjective(list)
    BY <1>1 DEF IsInjective
  <2>2. \A b \in Blocks : heap[b] = None
    BY DEF Init
  <2> QED
    BY <1>1, <1>2, <2>1, <2>2 DEF OneOwner, Holds, Idle
<1>6. IterInList /\ Rowed
  BY <1>1 DEF Init, IterInList, Rowed
<1>7. Same
  BY <1>1 DEF Init, Same, Around, ToSet
<1> QED
  BY <1>3, <1>4, <1>5, <1>6, <1>7 DEF IInv

\* Every step of sessions and notifier, and a restart, keeps the invariant.
LEMMA NextKeeps == IInv /\ [Next]_vars => IInv'
<1> SUFFICES ASSUME IInv, [Next]_vars PROVE IInv'
  OBVIOUS
<1>1. CASE \E s \in Sessions : SessionStep(s)
  BY <1>1, MallocStep, AppendStep, AppendFailsStep, InsertStep, GetStep, RemoveStep, FreeStep, BrowseStep
     DEF SessionStep
<1>2. CASE SendAlarm \/ NotifierStep
  BY <1>2, NotifierSteps
<1>3. CASE Restart
  BY <1>3, RestartStep
<1>4. CASE UNCHANGED vars
  BY <1>4 DEF vars, notifierVars, storage, IInv, TypeOK, WorkOK, OneOwner, Holds, IterInList,
               Rowed, HasRow, Same, Around
<1> QED
  BY <1>1, <1>2, <1>3, <1>4 DEF Next

\* The invariant holds throughout.
LEMMA Invariance == Spec => []IInv
  BY InitHolds, NextKeeps, PTL DEF Spec

-----------------------------------------------------------------------------
(* Theorems.                                                               *)

\* Every variable keeps its type; FTM_CATCHB_getAlarmList never writes past
\* the array the notifier made.
THEOREM TypeCorrect == Spec => []TypeOK
<1>1. IInv => TypeOK
  BY DEF IInv
<1> QED
  BY <1>1, Invariance, PTL

\* FTM_CATCHB_addAlarm and FTM_CATCHB_delAlarm never free, enter or lose an
\* alarm twice.
THEOREM OneOwnerCorrect == Spec => []OneOwner
<1>1. IInv => OneOwner
  BY DEF IInv
<1> QED
  BY <1>1, Invariance, PTL

\* FTM_LIST_remove leaves the shared iterator on an entry of the list.
THEOREM IterInListCorrect == Spec => []IterInList
<1>1. IInv => IterInList
  BY DEF IInv
<1> QED
  BY <1>1, Invariance, PTL

\* FTM_CATCHB_initProcess finds the text of every alarm that was in the list in
\* the table, but for the alarms whose INSERT failed and the names that were in
\* use with another text.
THEOREM ComesBackCorrect == Spec => []ComesBack
<1>1. ASSUME IInv PROVE ComesBack
  <2>1. ASSUME NEW b \in ToSet(list), HasRow(NameOf[heap[b]]), NameOf[heap[b]] \notin reworded
        PROVE  heap[b] \in ToSet(rows)
    <3>1. b \in Blocks /\ heap[b] # None /\ heap[b] \in Around
      BY <1>1, ListedAreBlocks DEF IInv, OneOwner, Around
    <3>2. PICK t \in ToSet(rows) : NameOf[t] = NameOf[heap[b]]
      BY <2>1 DEF HasRow
    <3>3. t \in Around /\ t # None
      BY <1>1, AlarmsAssumption DEF IInv, TypeOK, ToSet, Around
    <3> QED
      BY <1>1, <2>1, <3>1, <3>2, <3>3 DEF IInv, Same
  <2> QED
    BY <1>1, <2>1 DEF IInv, Rowed, ComesBack
<1> QED
  BY <1>1, Invariance, PTL

-----------------------------------------------------------------------------
(* Everyone is told.  The alarms to be told are among the first of the     *)
(* list, since what is added comes after them, and the walk has copied     *)
(* those up to the iterator and has room for the rest.                     *)

\* The first d alarms were there when the notifier counted and the iterator is
\* at the p-th: what is still to be copied, and has room, while somebody is.
Told(d, p) ==
    /\ notifier.at = "start" => d <= notifier.left
    /\ notifier.at = "next" =>
          /\ d <= p + notifier.left
          /\ \A i \in 1..d : i <= p => list[i] \notin due
    /\ notifier.at = "copy" =>
          /\ d < p + notifier.left
          /\ \A i \in 1..d : i <= p => list[i] \notin due \ {notifier.block}
    /\ notifier.at # "mail"

\* The iterator is at the p-th entry; the head is before the first.
At(p) == IF p = 0 THEN iter = xHead ELSE iter = list[p]

Walked(d, p) ==
    /\ At(p)
    /\ due \subseteq {list[i] : i \in 1..d}
    /\ due # {} => Told(d, p)

WalkInv == notifier.at # "idle" => \E d, p \in 0..Len(list) : Walked(d, p)

WInv == IInv /\ WalkInv

\* The iterator is somewhere in the list, at one place.
LEMMA SomewhereOnce ==
    ASSUME IInv
    PROVE  /\ \E p \in 0..Len(list) : At(p)
           /\ \A p, q \in 0..Len(list) : At(p) /\ At(q) => p = q
<1>1. DOMAIN list = 1..Len(list) /\ Len(list) \in Nat
  BY DEF IInv, TypeOK
<1>2. \E p \in 0..Len(list) : At(p)
  BY <1>1 DEF IInv, IterInList, ToSet, At
<1>3. \A i, j \in 1..Len(list) : list[i] = list[j] => i = j
  BY <1>1 DEF IInv, OneOwner, IsInjective
<1>4. \A i \in 1..Len(list) : list[i] # xHead
  BY <1>1, AlarmsAssumption DEF IInv, TypeOK
<1>5. ASSUME NEW p \in 0..Len(list), NEW q \in 0..Len(list), At(p), At(q)
      PROVE  p = q
  <2>1. CASE p = 0
    BY <1>1, <1>4, <1>5, <2>1 DEF At
  <2>2. CASE q = 0
    BY <1>1, <1>4, <1>5, <2>2 DEF At
  <2>3. CASE p # 0 /\ q # 0
    <3>1. p \in 1..Len(list) /\ q \in 1..Len(list)
      BY <1>1, <2>3
    <3> QED
      BY <1>3, <1>5, <2>3, <3>1 DEF At
  <2> QED
    BY <2>1, <2>2, <2>3
<1> QED
  BY <1>2, <1>5

\* After a step too.
LEMMA SomewhereNext == (IInv => \E p \in 0..Len(list) : At(p))'
<1>1. IInv => \E p \in 0..Len(list) : At(p)
  BY SomewhereOnce
<1> QED
  BY <1>1, PTL

\* One step on goes to the next place, and from the last to the head.
LEMMA NextPlace ==
    ASSUME IInv, NEW p \in 0..Len(list), At(p)
    PROVE  NextOf(iter) = IF p = Len(list) THEN xHead ELSE list[p + 1]
<1>1. Len(list) \in Nat /\ DOMAIN list = 1..Len(list)
  BY DEF IInv, TypeOK
<1>2. CASE p = 0
  BY <1>1, <1>2 DEF At, NextOf
<1>3. CASE p # 0
  <2>1. p \in 1..Len(list) /\ iter = list[p]
    BY <1>1, <1>3 DEF At
  <2>2. iter \in ToSet(list) /\ iter # xHead
    BY <1>1, <2>1, AlarmsAssumption, ListedAreBlocks DEF ToSet, IInv
  <2>3. Entry(iter) \in 1..Len(list) /\ list[Entry(iter)] = iter
    BY <2>2, EntryInList DEF IInv
  <2>4. Entry(iter) \in 0..Len(list) /\ At(Entry(iter))
    BY <1>1, <2>3 DEF At
  <2>5. Entry(iter) = p
    BY <2>4, SomewhereOnce
  <2> QED
    BY <2>2, <2>5 DEF NextOf
<1> QED
  BY <1>2, <1>3

\* A step that leaves the list, the iterator and the walk alone.
LEMMA WalkStays ==
    ASSUME WInv, UNCHANGED <<list, iter, notifier, due>>
    PROVE  WalkInv'
BY DEF WInv, WalkInv, Walked, At, Told

\* What is added goes to the end and is nobody's to tell.
LEMMA WalkAppends ==
    ASSUME WInv, NEW s \in Sessions, AppendAlarm(s)
    PROVE  WalkInv'
<1> DEFINE b == work[s].block
<1>1. /\ list' = Append(list, b) /\ b \in Blocks
      /\ UNCHANGED <<iter, notifier, due>>
  BY DEF AppendAlarm, notifierVars, WInv, IInv, WorkOK
<1> HIDE DEF b
<1>2. CASE notifier.at = "idle"
  BY <1>1, <1>2 DEF WalkInv
<1>3. CASE notifier.at # "idle"
  <2>1. PICK d \in 0..Len(list), p \in 0..Len(list) : Walked(d, p)
    BY <1>3 DEF WInv, WalkInv
  <2>2. /\ Len(list) \in Nat /\ Len(list') = Len(list) + 1
        /\ \A i \in 1..Len(list) : list'[i] = list[i]
    BY <1>1, AppendProperties DEF WInv, IInv, TypeOK
  <2>3. d \in 0..Len(list') /\ p \in 0..Len(list')
    BY <2>2
  <2>4. {list'[i] : i \in 1..d} = {list[i] : i \in 1..d}
    BY <2>2
  <2>5. At(p)'
    BY <1>1, <2>1, <2>2 DEF Walked, At
  <2>6. \A i \in 1..d : list'[i] = list[i]
    BY <2>2
  <2>7. Told(d, p) => Told(d, p)'
    BY <1>1, <2>6 DEF Told
  <2>8. Walked(d, p)'
    BY <1>1, <2>1, <2>4, <2>5, <2>7 DEF Walked
  <2> QED
    BY <2>3, <2>8 DEF WalkInv
<1> QED
  BY <1>2, <1>3

\* What is taken out of the list is no longer to be told; the places behind it
\* move up, the iterator's with them when it is not before it.
LEMMA WalkUnlinks ==
    ASSUME WInv, NEW b \in ToSet(list), UnlinkBack(b), due' = due \ {b},
           UNCHANGED notifier
    PROVE  WalkInv'
<1>0. IInv /\ TypeOK
  BY DEF WInv, IInv
<1>k. PICK k : k = Entry(b)
  OBVIOUS
<1>n. PICK n : n = Len(list)
  OBVIOUS
<1>1. k \in 1..n /\ list[k] = b
  BY <1>0, <1>k, <1>n, EntryInList
<1>2. list' = RemoveAt(list, k) /\ iter' = IF iter = b THEN PrevOf(b) ELSE iter
  BY <1>k DEF UnlinkBack
<1>3. PrevOf(b) = IF k = 1 THEN xHead ELSE list[k - 1]
  BY <1>k DEF PrevOf
<1>4. n \in Nat /\ DOMAIN list = 1..n
  BY <1>0, <1>n DEF TypeOK
<1>5. \A i, j \in 1..n : list[i] = list[j] => i = j
  BY <1>0, <1>4 DEF IInv, OneOwner, IsInjective
<1>6. /\ Len(list') = n - 1
      /\ \A i \in 1..(n - 1) : list'[i] = IF i < k THEN list[i] ELSE list[i + 1]
  BY <1>0, <1>1, <1>2, <1>n, RemoveAtProperties DEF TypeOK
<1>7. CASE notifier.at = "idle"
  BY <1>7 DEF WalkInv
<1>8. CASE notifier.at # "idle"
  <2>1. PICK d \in 0..n, p \in 0..n : Walked(d, p)
    BY <1>8, <1>n DEF WInv, WalkInv
  <2> DEFINE e == IF k <= d THEN d - 1 ELSE d
             q == IF k <= p THEN p - 1 ELSE p
  <2>2. e \in 0..(n - 1) /\ q \in 0..(n - 1)
    BY <1>1, <1>4
  <2>3. At(q)'
    <3>1. p # 0 => iter = list[p] /\ p \in 1..n
      BY <2>1, <1>4 DEF Walked, At
    <3>2. CASE p = k
      <4>1. iter' = IF k = 1 THEN xHead ELSE list[k - 1]
        BY <1>1, <1>2, <1>3, <3>1, <3>2
      <4>2. q = k - 1
        BY <1>1, <3>2
      <4>3. k # 1 => list'[k - 1] = list[k - 1]
        BY <1>1, <1>4, <1>6
      <4> QED
        BY <1>1, <4>1, <4>2, <4>3 DEF At
    <3>3. CASE p # k
      <4>1. iter' = iter
        <5>1. CASE p = 0
          <6>1. iter = xHead
            BY <2>1, <5>1 DEF Walked, At
          <6>2. b \in Blocks
            BY <1>0, ListedAreBlocks
          <6> QED
            BY <1>2, <6>1, <6>2, AlarmsAssumption
        <5>2. CASE p # 0
          <6>1. iter # b
            BY <1>1, <1>5, <3>1, <3>3, <5>2
          <6> QED
            BY <1>2, <6>1
        <5> QED
          BY <5>1, <5>2
      <4>2. CASE p = 0
        BY <1>1, <2>1, <4>1, <4>2 DEF Walked, At
      <4>3. CASE p # 0 /\ p < k
        <5>1. q = p /\ p \in 1..(n - 1)
          BY <1>1, <1>4, <4>3
        <5>2. list'[p] = list[p]
          BY <1>6, <4>3, <5>1
        <5> QED
          BY <3>1, <4>1, <4>3, <5>1, <5>2 DEF At
      <4>4. CASE p > k
        <5>1. q = p - 1 /\ p - 1 \in 1..(n - 1) /\ p - 1 >= k
          BY <1>1, <1>4, <4>4
        <5>2. list'[p - 1] = list[p] /\ p - 1 # 0 /\ p # 0
          BY <1>1, <1>4, <1>6, <5>1
        <5>3. iter' = list'[q] /\ q # 0
          BY <3>1, <4>1, <5>1, <5>2
        <5> HIDE DEF q
        <5> QED
          BY <5>3 DEF At
      <4> QED
        BY <1>1, <3>3, <4>2, <4>3, <4>4
    <3> QED
      BY <3>2, <3>3
  <2>4. due' \subseteq {list'[i] : i \in 1..e}
    <3>1. due' \subseteq {list[i] : i \in 1..d} \ {list[k]}
      BY <1>1, <2>1 DEF Walked
    <3>2. ASSUME NEW j \in 1..d, list[j] # list[k]
          PROVE  \E i \in 1..e : list'[i] = list[j]
      <4>1. CASE j < k
        <5>1. j \in 1..e /\ j \in 1..(n - 1) /\ list'[j] = list[j]
          BY <1>1, <1>4, <1>6, <4>1
        <5> QED
          BY <5>1
      <4>2. CASE j > k
        <5>1. j - 1 \in 1..e /\ j - 1 \in 1..(n - 1) /\ list'[j - 1] = list[j]
          BY <1>1, <1>4, <1>6, <4>2
        <5> QED
          BY <5>1
      <4>3. j # k
        BY <3>2
      <4> QED
        BY <1>1, <4>1, <4>2, <4>3
    <3> HIDE DEF e
    <3> QED
      BY <3>1, <3>2
  <2>5. Told(d, p) => Told(e, q)'
    <3> SUFFICES ASSUME Told(d, p) PROVE Told(e, q)'
      OBVIOUS
    <3>0. notifier.left \in Nat
      BY <1>0 DEF TypeOK
    <3>1. e <= d
      OBVIOUS
    <3>2. notifier.at = "next" => e <= q + notifier.left
      BY <1>1, <3>0 DEF Told
    <3>3. notifier.at = "copy" => notifier.left > 0
      BY <1>0 DEF TypeOK
    <3>4. notifier.at = "copy" => e < q + notifier.left
      BY <1>1, <3>0, <3>3 DEF Told
    <3>5. ASSUME NEW i \in 1..e, i <= q
          PROVE  \E j \in 1..d : j <= p /\ list'[i] = list[j]
      <4>1. CASE i < k
        <5>1. i \in 1..d /\ i <= p /\ list'[i] = list[i]
          BY <1>1, <1>4, <1>6, <3>5, <4>1
        <5> QED
          BY <5>1
      <4>2. CASE i >= k
        <5>1. i + 1 \in 1..d /\ i + 1 <= p /\ list'[i] = list[i + 1]
          BY <1>1, <1>4, <1>6, <3>5, <4>2
        <5> QED
          BY <5>1
      <4> QED
        BY <1>1, <4>1, <4>2
    <3> HIDE DEF e, q
    <3>6. notifier.at = "start" => e <= notifier.left
      BY <3>0, <3>1, <2>2, <1>4 DEF Told
    <3>7. notifier.at # "mail"
      BY DEF Told
    <3>8. notifier.at = "next" => \A i \in 1..e : i <= q => list'[i] \notin due'
      BY <3>5 DEF Told
    <3>9. notifier.at = "copy" =>
             \A i \in 1..e : i <= q => list'[i] \notin due' \ {notifier.block}
      BY <3>5 DEF Told
    <3> QED
      BY <3>2, <3>4, <3>6, <3>7, <3>8, <3>9 DEF Told
  <2> HIDE DEF e, q
  <2>6. Walked(e, q)'
    BY <2>1, <2>3, <2>4, <2>5 DEF Walked
  <2> QED
    BY <1>6, <2>2, <2>6 DEF WalkInv
<1> QED
  BY <1>7, <1>8

\* Who browses takes the iterator, and nobody is left to be told by a walk that
\* is copying.
LEMMA WalkDisturbed ==
    ASSUME WInv, NEW s \in Sessions, BrowseStart(s) \/ BrowseNext(s)
    PROVE  WalkInv'
<1>1. /\ UNCHANGED <<list, notifier>>
      /\ due' = IF Copying THEN {} ELSE due
      /\ IInv /\ IInv'
  BY BrowseStep DEF BrowseStart, BrowseNext, WInv
<1>2. CASE notifier.at = "idle"
  BY <1>1, <1>2 DEF WalkInv
<1>3. CASE notifier.at # "idle"
  <2>1. PICK d \in 0..Len(list), p \in 0..Len(list) : Walked(d, p)
    BY <1>3 DEF WInv, WalkInv
  <2>2. \E q \in 0..Len(list) : At(q)'
    BY <1>1, SomewhereNext
  <2>3. PICK q \in 0..Len(list) : At(q)'
    BY <2>2
  <2>4. ASSUME due' # {} PROVE Told(d, q)'
    BY <1>1, <2>1, <2>4 DEF Walked, Told, Copying
  <2>5. Walked(d, q)'
    BY <1>1, <2>1, <2>3, <2>4 DEF Walked
  <2> QED
    BY <1>1, <2>5 DEF WalkInv
<1> QED
  BY <1>2, <1>3

\* Counting, the notifier makes room for all that are in the list.
LEMMA WalkCounts ==
    ASSUME WInv, CountAlarms
    PROVE  WalkInv'
<1>1. CASE list = <<>>
  BY <1>1, WalkStays DEF CountAlarms
<1>2. CASE list # <<>>
  <2>1. /\ notifier' = [at |-> "start", block |-> None, left |-> Len(list)]
        /\ due' = ToSet(list) /\ UNCHANGED <<list, iter>>
    BY <1>2 DEF CountAlarms
  <2>2. Len(list) \in Nat /\ DOMAIN list = 1..Len(list)
    BY DEF WInv, IInv, TypeOK
  <2>3. PICK p \in 0..Len(list) : At(p)
    BY SomewhereOnce DEF WInv
  <2>4. PICK d : d = Len(list)
    OBVIOUS
  <2>5. due' \subseteq {list[i] : i \in 1..d}
    BY <2>1, <2>2, <2>4 DEF ToSet
  <2>6. At(p)'
    BY <2>1, <2>3 DEF At
  <2>7. Told(d, p)'
    BY <2>1, <2>2, <2>4 DEF Told
  <2>8. Walked(d, p)'
    BY <2>1, <2>5, <2>6, <2>7 DEF Walked
  <2>9. d \in 0..Len(list')
    BY <2>1, <2>2, <2>4
  <2> QED
    BY <2>1, <2>8, <2>9 DEF WalkInv
<1> QED
  BY <1>1, <1>2

\* The walk starts before the first entry.
LEMMA WalkStarts ==
    ASSUME WInv, NotifierStart
    PROVE  WalkInv'
<1>1. /\ notifier.at = "start" /\ iter' = xHead
      /\ notifier'.at = "next" /\ notifier'.left = notifier.left
      /\ UNCHANGED <<list, due>>
  BY DEF NotifierStart, WInv, IInv, TypeOK
<1>2. PICK d \in 0..Len(list), p \in 0..Len(list) : Walked(d, p)
  BY <1>1 DEF WInv, WalkInv
<1>3. notifier.left \in Nat /\ Len(list) \in Nat
  BY DEF WInv, IInv, TypeOK
<1>4. At(0)'
  BY <1>1 DEF At
<1>5. due # {} => Told(d, 0)'
  BY <1>1, <1>2, <1>3 DEF Walked, Told
<1>6. Walked(d, 0)'
  BY <1>1, <1>2, <1>4, <1>5 DEF Walked
<1>7. 0 \in 0..Len(list')
  BY <1>1, <1>3
<1> QED
  BY <1>1, <1>6, <1>7 DEF WalkInv

\* The walk goes on to the entry it will copy, or has passed them all.
LEMMA WalkGoesOn ==
    ASSUME WInv, NotifierNext
    PROVE  WalkInv'
<1>1. /\ notifier.at = "next" /\ iter' = NextOf(iter)
      /\ notifier' = IF iter' = xHead THEN [notifier EXCEPT !.at = "mail"]
                     ELSE [notifier EXCEPT !.at = "copy", !.block = iter']
      /\ UNCHANGED <<list, due>>
  BY DEF NotifierNext
<1>2. PICK d \in 0..Len(list), p \in 0..Len(list) : Walked(d, p)
  BY <1>1 DEF WInv, WalkInv
<1>3. /\ notifier.left \in Nat /\ Len(list) \in Nat
      /\ \A i \in 1..Len(list) : list[i] # xHead
      /\ notifier \in [at : {"idle", "start", "next", "copy", "mail"},
                       block : Blocks \cup {None}, left : Nat]
  BY AlarmsAssumption DEF WInv, IInv, TypeOK
<1>4. iter' = IF p = Len(list) THEN xHead ELSE list[p + 1]
  BY <1>1, <1>2, NextPlace DEF WInv, Walked
<1>5. CASE p = Len(list)
  <2>1. iter' = xHead /\ notifier'.at = "mail"
    BY <1>1, <1>3, <1>4, <1>5
  <2>2. At(0)'
    BY <2>1 DEF At
  <2>3. due = {}
    <3> SUFFICES ASSUME due # {} PROVE FALSE
      OBVIOUS
    <3>1. \A i \in 1..d : i <= p
      BY <1>3, <1>5
    <3> QED
      BY <1>1, <1>2, <3>1 DEF Walked, Told
  <2>4. Walked(d, 0)'
    BY <1>1, <1>2, <2>2, <2>3 DEF Walked
  <2>5. 0 \in 0..Len(list')
    BY <1>1, <1>3
  <2> QED
    BY <1>1, <2>4, <2>5 DEF WalkInv
<1>6. CASE p # Len(list)
  <2>1. p + 1 \in 1..Len(list) /\ p + 1 # 0
    BY <1>3, <1>6
  <2>2. iter' = list[p + 1] /\ iter' # xHead
    BY <1>3, <1>4, <1>6, <2>1
  <2>3. /\ notifier'.at = "copy" /\ notifier'.block = list[p + 1]
        /\ notifier'.left = notifier.left
    BY <1>1, <1>3, <2>2
  <2>4. At(p + 1)'
    BY <1>1, <2>1, <2>2 DEF At
  <2>5. ASSUME due # {} PROVE Told(d, p + 1)'
    <3>1. d <= p + notifier.left /\ \A i \in 1..d : i <= p => list[i] \notin due
      BY <1>1, <1>2, <2>5 DEF Walked, Told
    <3>2. d < p + 1 + notifier.left
      BY <1>3, <3>1
    <3>3. \A i \in 1..d : i <= p + 1 => i <= p \/ i = p + 1
      OBVIOUS
    <3>4. \A i \in 1..d : i <= p + 1 => list[i] \notin due \ {list[p + 1]}
      BY <3>1, <3>3
    <3> QED
      BY <1>1, <2>3, <3>2, <3>4 DEF Told
  <2>6. Walked(d, p + 1)'
    BY <1>1, <1>2, <2>4, <2>5 DEF Walked
  <2>7. p + 1 \in 0..Len(list')
    BY <1>1, <1>3, <2>1
  <2> QED
    BY <1>1, <2>6, <2>7 DEF WalkInv
<1> QED
  BY <1>5, <1>6

\* The alarm is copied; when the array is full there was no other to tell.
LEMMA WalkCopies ==
    ASSUME WInv, NotifierCopy
    PROVE  WalkInv'
<1>1. /\ notifier.at = "copy" /\ due' = due \ {notifier.block}
      /\ notifier'.at = IF notifier.left = 1 THEN "mail" ELSE "next"
      /\ notifier'.left = notifier.left - 1
      /\ UNCHANGED <<list, iter>>
  BY DEF NotifierCopy
<1>2. PICK d \in 0..Len(list), p \in 0..Len(list) : Walked(d, p)
  BY <1>1 DEF WInv, WalkInv
<1>3. notifier.left \in Nat /\ notifier.left > 0 /\ Len(list) \in Nat
  BY <1>1 DEF WInv, IInv, TypeOK
<1>4. ASSUME due' # {} PROVE Told(d, p)'
  <2>1. d < p + notifier.left /\ \A i \in 1..d : i <= p => list[i] \notin due'
    BY <1>1, <1>2, <1>4 DEF Walked, Told
  <2>2. notifier.left # 1
    <3> SUFFICES ASSUME notifier.left = 1 PROVE FALSE
      OBVIOUS
    <3>1. \A i \in 1..d : i <= p
      BY <2>1
    <3> QED
      BY <1>1, <1>2, <1>4, <2>1, <3>1 DEF Walked
  <2>3. d <= p + (notifier.left - 1)
    BY <1>3, <2>1
  <2> QED
    BY <1>1, <2>1, <2>2, <2>3 DEF Told
<1>5. At(p)'
  BY <1>1, <1>2 DEF Walked, At
<1>6. Walked(d, p)'
  BY <1>1, <1>2, <1>4, <1>5 DEF Walked
<1> QED
  BY <1>1, <1>6 DEF WalkInv

\* No walk is under way at the start, and every step keeps the invariant.
LEMMA WalkKeeps == WInv /\ [Next]_vars => WInv'
<1> SUFFICES ASSUME WInv, [Next]_vars PROVE WalkInv'
  BY NextKeeps DEF WInv
<1>1. ASSUME NEW s \in Sessions, SessionStep(s) PROVE WalkInv'
  <2>1. CASE \/ \E n \in Names : GetAlarm(s, n)
             \/ \E t \in Texts, b \in Blocks : Malloc(s, t, b)
             \/ AppendFails(s) \/ InsertAlarm(s) \/ Free(s)
    BY <2>1, WalkStays DEF GetAlarm, Malloc, AppendFails, InsertAlarm, Free, notifierVars
  <2>2. CASE AppendAlarm(s)
    BY <2>2, WalkAppends
  <2>3. CASE RemoveAlarm(s)
    <3>1. CASE work[s].block \in ToSet(list)
      BY <2>3, <3>1, WalkUnlinks DEF RemoveAlarm
    <3>2. CASE work[s].block \notin ToSet(list)
      BY <2>3, <3>2, WalkStays DEF RemoveAlarm
    <3> QED
      BY <3>1, <3>2
  <2>4. CASE BrowseStart(s) \/ BrowseNext(s)
    BY <2>4, WalkDisturbed
  <2> QED
    BY <1>1, <2>1, <2>2, <2>3, <2>4 DEF SessionStep
<1>2. CASE SendAlarm
  BY <1>2, WalkStays DEF SendAlarm
<1>3. CASE NotifierStep
  <2>1. CASE Mail
    BY <2>1 DEF Mail, Resting, WalkInv
  <2> QED
    BY <1>3, <2>1, WalkCounts, WalkStarts, WalkGoesOn, WalkCopies DEF NotifierStep
<1>4. CASE Restart
  BY <1>4 DEF Restart, Resting, WalkInv
<1>5. CASE UNCHANGED vars
  BY <1>5, WalkStays DEF vars, notifierVars
<1> QED
  BY <1>1, <1>2, <1>3, <1>4, <1>5 DEF Next

\* FTM_CATCHB_getAlarmList copies every alarm that was there when the notifier
\* counted and still is, unless another thread has moved the iterator.
THEOREM NotifiesAllCorrect == Spec => []NotifiesAll
<1>1. Init => WInv
  BY InitHolds DEF Init, Resting, WInv, WalkInv
<1>2. WInv => NotifiesAll
  BY DEF WInv, WalkInv, Walked, Told, NotifiesAll
<1> QED
  BY <1>1, <1>2, WalkKeeps, PTL DEF Spec
=============================================================================
