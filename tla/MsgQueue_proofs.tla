--------------------------- MODULE MsgQueue_proofs ---------------------------
(***************************************************************************)
(* Proofs about MsgQueue for any number of threads and buffers.            *)
(***************************************************************************)
EXTENDS MsgQueue, FiniteSetTheorems, SequenceTheorems, TLAPS

\* RemoveFirst on a sequence that holds m once: the sequence without that
\* entry, the others in their order (FTM_LIST_remove).
LEMMA RemoveFirstProperties ==
    ASSUME NEW S, NEW q \in Seq(S), NEW k \in 1..Len(q), IsInjective(q)
    PROVE  /\ RemoveFirst(q, q[k]) \in Seq(S)
           /\ Len(RemoveFirst(q, q[k])) = Len(q) - 1
           /\ \A i \in 1..(Len(q) - 1) :
                 RemoveFirst(q, q[k])[i] = IF i < k THEN q[i] ELSE q[i+1]
<1> DEFINE A == SubSeq(q, 1, k-1)
           B == SubSeq(q, k+1, Len(q))
           I == {i \in 1..Len(q) : q[i] = q[k]}
<1>1. I = {k}
  BY DEF IsInjective
<1>2. Min(I) = k
  BY <1>1 DEF Min
<1>3. SelectInSeq(q, LAMBDA v : v = q[k]) = k
  BY <1>1, <1>2 DEF SelectInSeq
<1>4. RemoveFirst(q, q[k]) = A \o B
  BY <1>3 DEF RemoveFirst, RemoveAt
<1>5. /\ A \in Seq(S)
      /\ Len(A) = k - 1
      /\ \A i \in 1..(k-1) : A[i] = q[i]
  BY SubSeqProperties
<1>6. /\ B \in Seq(S)
      /\ Len(B) = Len(q) - k
      /\ \A i \in 1..(Len(q) - k) : B[i] = q[k+i]
  BY SubSeqProperties
<1>7. /\ A \o B \in Seq(S)
      /\ Len(A \o B) = Len(A) + Len(B)
      /\ \A i \in 1..(Len(A) + Len(B)) :
            (A \o B)[i] = IF i <= Len(A) THEN A[i] ELSE B[i - Len(A)]
  BY <1>5, <1>6, ConcatProperties
<1> HIDE DEF A, B
<1>8. Len(A \o B) = Len(q) - 1
  BY <1>5, <1>6, <1>7
<1>9. ASSUME NEW i \in 1..(Len(q) - 1)
      PROVE  (A \o B)[i] = IF i < k THEN q[i] ELSE q[i+1]
  <2>1. CASE i < k
    BY <1>5, <1>6, <1>7, <2>1
  <2>2. CASE ~(i < k)
    <3>1. (A \o B)[i] = B[i - (k-1)]
      BY <1>5, <1>6, <1>7, <2>2
    <3>2. i - (k-1) \in 1..(Len(q) - k)
      BY <2>2
    <3> QED
      BY <1>6, <2>2, <3>1, <3>2
  <2> QED
    BY <2>1, <2>2
<1> QED
  BY <1>4, <1>7, <1>8, <1>9

\* Appending an entry the sequence does not hold keeps entries distinct, and
\* the set of entries grows by it (FTM_LIST_append).
LEMMA AppendNew ==
    ASSUME NEW S, NEW q \in Seq(S), NEW m \in S
    PROVE  /\ Append(q, m) \in Seq(S)
           /\ Len(Append(q, m)) = Len(q) + 1
           /\ ToSet(Append(q, m)) = ToSet(q) \cup {m}
           /\ IsInjective(q) /\ m \notin ToSet(q) => IsInjective(Append(q, m))
<1>1. /\ Append(q, m) \in Seq(S)
      /\ Len(Append(q, m)) = Len(q) + 1
      /\ DOMAIN q = 1..Len(q)
      /\ DOMAIN Append(q, m) = 1..(Len(q) + 1)
      /\ \A i \in 1..Len(q) : Append(q, m)[i] = q[i]
      /\ Append(q, m)[Len(q) + 1] = m
  OBVIOUS
<1>2. ToSet(Append(q, m)) = ToSet(q) \cup {m}
  <2>1. \A i \in 1..(Len(q) + 1) : i \in 1..Len(q) \/ i = Len(q) + 1
    OBVIOUS
  <2>2. \A i \in 1..Len(q) : i \in 1..(Len(q) + 1)
    OBVIOUS
  <2>3. Len(q) + 1 \in 1..(Len(q) + 1)
    OBVIOUS
  <2> QED
    BY <1>1, <2>1, <2>2, <2>3, Zenon DEF ToSet
<1>3. IsInjective(q) /\ m \notin ToSet(q) => IsInjective(Append(q, m))
  BY <1>1 DEF IsInjective, ToSet
<1> QED
  BY <1>1, <1>2, <1>3

\* Removing the entry of a queue without duplicates removes exactly it.
LEMMA RemoveEntry ==
    ASSUME NEW S, NEW q \in Seq(S), NEW m \in ToSet(q), IsInjective(q)
    PROVE  /\ RemoveFirst(q, m) \in Seq(S)
           /\ Len(RemoveFirst(q, m)) = Len(q) - 1
           /\ ToSet(RemoveFirst(q, m)) = ToSet(q) \ {m}
           /\ IsInjective(RemoveFirst(q, m))
           /\ m = Head(q) => RemoveFirst(q, m) = Tail(q)
<1>1. PICK k \in 1..Len(q) : m = q[k]
  BY DEF ToSet
<1> DEFINE r == RemoveFirst(q, m)
<1>2. /\ r \in Seq(S)
      /\ Len(r) = Len(q) - 1
      /\ \A i \in 1..(Len(q) - 1) : r[i] = IF i < k THEN q[i] ELSE q[i+1]
  BY <1>1, RemoveFirstProperties
<1> HIDE DEF r
<1>3. DOMAIN r = 1..(Len(q) - 1) /\ DOMAIN q = 1..Len(q)
  BY <1>2
<1>4. IsInjective(r)
  BY <1>2, <1>3 DEF IsInjective
<1>5. ToSet(r) = ToSet(q) \ {m}
  <2>1. ASSUME NEW x \in ToSet(r)
        PROVE  x \in ToSet(q) \ {m}
    <3>1. PICK i \in 1..(Len(q) - 1) : x = r[i]
      BY <1>3 DEF ToSet
    <3>2. PICK j \in 1..Len(q) : j # k /\ x = q[j]
      <4>1. CASE i < k
        BY <1>2, <3>1, <4>1
      <4>2. CASE ~(i < k)
        <5>1. i + 1 \in 1..Len(q) /\ i + 1 # k /\ x = q[i+1]
          BY <1>2, <3>1, <4>2
        <5> QED
          BY <5>1
      <4> QED
        BY <4>1, <4>2
    <3> QED
      BY <1>1, <1>3, <3>2 DEF IsInjective, ToSet
  <2>2. ASSUME NEW x \in ToSet(q) \ {m}
        PROVE  x \in ToSet(r)
    <3>1. PICK j \in 1..Len(q) : x = q[j]
      BY <1>3 DEF ToSet
    <3>2. CASE j < k
      <4>1. j \in 1..(Len(q) - 1) /\ r[j] = x
        BY <1>2, <3>1, <3>2
      <4> QED
        BY <1>3, <4>1 DEF ToSet
    <3>3. CASE j > k
      <4>1. j - 1 \in 1..(Len(q) - 1) /\ r[j-1] = q[j]
        <5>1. j - 1 \in 1..(Len(q) - 1) /\ ~(j - 1 < k) /\ (j - 1) + 1 = j
          BY <3>3
        <5>2. r[j-1] = q[(j-1) + 1]
          BY <1>2, <5>1
        <5> QED
          BY <5>1, <5>2
      <4> QED
        BY <1>3, <3>1, <4>1 DEF ToSet
    <3>4. j # k
      BY <1>1, <3>1
    <3> QED
      BY <3>2, <3>3, <3>4
  <2> QED
    BY <2>1, <2>2
<1>6. m = Head(q) => r = Tail(q)
  <2>1. q # <<>>
    OBVIOUS
  <2>2. m = Head(q) => k = 1
    <3>1. Head(q) = q[1] /\ 1 \in 1..Len(q)
      BY <2>1
    <3> QED
      BY <1>1, <1>3, <3>1 DEF IsInjective
  <2>3. /\ Tail(q) \in Seq(S)
        /\ Len(Tail(q)) = Len(q) - 1
        /\ \A i \in 1..(Len(q) - 1) : Tail(q)[i] = q[i+1]
    BY <2>1, HeadTailProperties
  <2>4. ASSUME m = Head(q) PROVE \A i \in 1..Len(r) : r[i] = Tail(q)[i]
    BY <1>2, <2>2, <2>3, <2>4
  <2> QED
    BY <1>2, <2>3, <2>4, SeqEqual
<1> QED
  BY <1>2, <1>4, <1>5, <1>6 DEF r
-----------------------------------------------------------------------------
\* A thread that fills, removes or handles a buffer has one.
BufferHeld ==
    /\ \A p \in Producers : ppc[p] = "append" => pmsg[p] \in Message
    /\ \A c \in Consumers : cpc[c] \in {"remove", "handle"} => cmsg[c] \in Message

TypeInv == TypeOK /\ BufferHeld

\* Types are kept by every step (the whole of FTM_MSGQ and its two callers).
LEMMA TypeStep == TypeInv /\ OneOwner /\ [Next]_vars => TypeInv'
<1> SUFFICES ASSUME TypeInv, OneOwner, [Next]_vars
             PROVE  TypeInv'
  OBVIOUS
<1> USE DEF TypeInv, TypeOK, BufferHeld, producerVars, consumerVars
<1>1. ASSUME NEW p \in Producers, Malloc(p) PROVE TypeInv'
  <2>1. PICK m \in Message : pmsg' = [pmsg EXCEPT ![p] = m]
    BY <1>1 DEF Malloc
  <2> QED
    BY <1>1, <2>1 DEF Malloc
<1>2. ASSUME NEW p \in Producers, PushEntry(p) PROVE TypeInv'
  <2>1. queue' \in Seq(Message)
    BY <1>2, AppendNew DEF PushEntry
  <2> QED
    BY <1>2, <2>1 DEF PushEntry
<1>3. ASSUME NEW p \in Producers, PushFails(p) PROVE TypeInv'
  BY <1>3 DEF PushFails
<1>4. ASSUME NEW p \in Producers, Post(p) PROVE TypeInv'
  BY <1>4 DEF Post
<1>5. ASSUME NEW c \in Consumers, Loop(c) PROVE TypeInv'
  BY <1>5 DEF Loop
<1>6. ASSUME NEW c \in Consumers, SemTimedWait(c) PROVE TypeInv'
  BY <1>6 DEF SemTimedWait
<1>7. ASSUME NEW c \in Consumers, Timeout(c) PROVE TypeInv'
  BY <1>7 DEF Timeout
<1>8. ASSUME NEW c \in Consumers, ListGetAt(c) PROVE TypeInv'
  <2>1. CASE queue = <<>>
    BY <1>8, <2>1 DEF ListGetAt
  <2>2. CASE queue # <<>>
    <3>1. Head(queue) \in Message
      BY <2>2
    <3> QED
      BY <1>8, <2>2, <3>1 DEF ListGetAt
  <2> QED
    BY <2>1, <2>2
<1>9. ASSUME NEW c \in Consumers, ListRemove(c) PROVE TypeInv'
  <2>1. queue' \in Seq(Message)
    BY <1>9, RemoveEntry DEF ListRemove, OneOwner
  <2> QED
    BY <1>9, <2>1 DEF ListRemove
<1>10. ASSUME NEW c \in Consumers, Repost(c) PROVE TypeInv'
  BY <1>10 DEF Repost
<1>11. ASSUME NEW c \in Consumers, HandleAndFree(c) PROVE TypeInv'
  BY <1>11 DEF HandleAndFree
<1>12. CASE Stop
  BY <1>12 DEF Stop
<1>13. CASE Destroy
  <2>1. queue' \in Seq(Message)
    BY <1>13 DEF Destroy
  <2>2. UNCHANGED <<ppc, pmsg, cpc, cmsg, bStop>> /\ sem' = 0 /\ open' = FALSE
    BY <1>13 DEF Destroy
  <2> QED
    BY <2>1, <2>2
<1>14. CASE UNCHANGED vars
  BY <1>14 DEF vars
<1> QED
  BY <1>1, <1>2, <1>3, <1>4, <1>5, <1>6, <1>7, <1>8, <1>9, <1>10, <1>11,
     <1>12, <1>13, <1>14 DEF Next, ProducerStep, ConsumerStep

\* A buffer changes hands only where the code gives it away.
LEMMA OwnerStep == TypeInv /\ OneOwner /\ [Next]_vars => OneOwner'
<1> SUFFICES ASSUME TypeInv, OneOwner, [Next]_vars
             PROVE  OneOwner'
  OBVIOUS
<1> USE DEF TypeInv, TypeOK, BufferHeld, producerVars, consumerVars, OneOwner
<1>1. ASSUME NEW p \in Producers, Malloc(p) PROVE OneOwner'
  <2>1. PICK m \in Message \ Live : pmsg' = [pmsg EXCEPT ![p] = m]
    BY <1>1 DEF Malloc
  <2>2. /\ m \notin ToSet(queue)
        /\ \A q \in Producers : ppc[q] = "append" => pmsg[q] # m
        /\ \A c \in Consumers : cpc[c] = "handle" => cmsg[c] # m
    BY <2>1 DEF Live
  <2>3. pmsg'[p] = m /\ \A q \in Producers \ {p} : pmsg'[q] = pmsg[q]
    BY <2>1
  <2>4. \A q \in Producers \ {p} : ppc'[q] = ppc[q]
    BY <1>1 DEF Malloc
  <2>5. UNCHANGED <<queue, cpc, cmsg>>
    BY <1>1 DEF Malloc
  <2> QED
    BY <2>2, <2>3, <2>4, <2>5
<1>2. ASSUME NEW p \in Producers, PushEntry(p) PROVE OneOwner'
  <2>1. /\ IsInjective(queue')
        /\ ToSet(queue') = ToSet(queue) \cup {pmsg[p]}
    BY <1>2, AppendNew DEF PushEntry
  <2>2. /\ ppc'[p] = "post"
        /\ \A q \in Producers \ {p} : ppc'[q] = ppc[q] /\ pmsg'[q] = pmsg[q]
        /\ UNCHANGED <<cpc, cmsg>>
    BY <1>2 DEF PushEntry
  <2> QED
    BY <1>2, <2>1, <2>2 DEF PushEntry
<1>3. ASSUME NEW p \in Producers, PushFails(p) PROVE OneOwner'
  BY <1>3 DEF PushFails
<1>4. ASSUME NEW p \in Producers, Post(p) PROVE OneOwner'
  BY <1>4 DEF Post
<1>5. ASSUME NEW c \in Consumers, Loop(c) PROVE OneOwner'
  BY <1>5 DEF Loop
<1>6. ASSUME NEW c \in Consumers, SemTimedWait(c) PROVE OneOwner'
  BY <1>6 DEF SemTimedWait
<1>7. ASSUME NEW c \in Consumers, Timeout(c) PROVE OneOwner'
  BY <1>7 DEF Timeout
<1>8. ASSUME NEW c \in Consumers, ListGetAt(c) PROVE OneOwner'
  BY <1>8 DEF ListGetAt
<1>9. ASSUME NEW c \in Consumers, ListRemove(c) PROVE OneOwner'
  <2>1. CASE cmsg[c] \in ToSet(queue)
    <3>1. /\ IsInjective(queue')
          /\ ToSet(queue') = ToSet(queue) \ {cmsg[c]}
      BY <1>9, <2>1, RemoveEntry DEF ListRemove
    <3>2. /\ UNCHANGED <<ppc, pmsg, cmsg>>
          /\ \A d \in Consumers \ {c} : cpc'[d] = cpc[d]
      BY <1>9, <2>1 DEF ListRemove
    <3> QED
      BY <2>1, <3>1, <3>2
  <2>2. CASE cmsg[c] \notin ToSet(queue)
    BY <1>9, <2>2 DEF ListRemove
  <2> QED
    BY <2>1, <2>2
<1>10. ASSUME NEW c \in Consumers, Repost(c) PROVE OneOwner'
  BY <1>10 DEF Repost
<1>11. ASSUME NEW c \in Consumers, HandleAndFree(c) PROVE OneOwner'
  BY <1>11 DEF HandleAndFree
<1>12. CASE Stop
  BY <1>12 DEF Stop
<1>13. CASE Destroy
  <2>1. queue' = <<>> /\ ToSet(queue') = {} /\ IsInjective(queue')
    BY <1>13 DEF Destroy, ToSet, IsInjective
  <2> QED
    BY <1>13, <2>1 DEF Destroy
<1>14. CASE UNCHANGED vars
  BY <1>14 DEF vars
<1> QED
  BY <1>1, <1>2, <1>3, <1>4, <1>5, <1>6, <1>7, <1>8, <1>9, <1>10, <1>11,
     <1>12, <1>13, <1>14 DEF Next, ProducerStep, ConsumerStep
-----------------------------------------------------------------------------
\* The two sets of threads that TokenBalance counts are finite.
LEMMA CountedSets ==
    /\ IsFiniteSet(Posting) /\ Cardinality(Posting) \in Nat
    /\ IsFiniteSet(Popping) /\ Cardinality(Popping) \in Nat
  BY ThreadsAssumption, FS_Subset, FS_CardinalityType DEF Posting, Popping

\* The conjuncts that keep the count: a post pays an entry's token into the
\* semaphore, a wait takes one out, and a pop spends it or gives it back.
LEMMA BalanceStep == TypeInv /\ OneOwner /\ TokenBalance /\ [Next]_vars => TokenBalance'
<1> SUFFICES ASSUME TypeInv, OneOwner, TokenBalance, [Next]_vars
             PROVE  TokenBalance'
  OBVIOUS
<1> USE DEF TypeInv, TypeOK
<1>0. /\ IsFiniteSet(Posting) /\ Cardinality(Posting) \in Nat
      /\ IsFiniteSet(Popping) /\ Cardinality(Popping) \in Nat
      /\ Len(queue) \in Nat
  BY CountedSets
<1>a. ASSUME UNCHANGED <<queue, sem>>, Posting' = Posting, Popping' = Popping
      PROVE  TokenBalance'
  BY <1>a DEF TokenBalance
<1>1. ASSUME NEW p \in Producers, Malloc(p) PROVE TokenBalance'
  <2>1. Posting' = Posting /\ Popping' = Popping
    BY <1>1 DEF Malloc, Posting, Popping, consumerVars
  <2> QED
    BY <1>1, <1>a, <2>1 DEF Malloc
<1>2. ASSUME NEW p \in Producers, PushEntry(p) PROVE TokenBalance'
  <2>1. Posting' = Posting \cup {p} /\ p \notin Posting /\ Popping' = Popping
    BY <1>2 DEF PushEntry, Posting, Popping, consumerVars
  <2>2. Cardinality(Posting') = Cardinality(Posting) + 1
    BY <1>0, <2>1, FS_AddElement
  <2>3. Len(queue') = Len(queue) + 1 /\ sem' = sem
    BY <1>2 DEF PushEntry
  <2> QED
    BY <1>0, <2>1, <2>2, <2>3 DEF TokenBalance
<1>3. ASSUME NEW p \in Producers, PushFails(p) PROVE TokenBalance'
  <2>1. Posting' = Posting /\ Popping' = Popping
    BY <1>3 DEF PushFails, Posting, Popping, consumerVars
  <2> QED
    BY <1>3, <1>a, <2>1 DEF PushFails
<1>4. ASSUME NEW p \in Producers, Post(p) PROVE TokenBalance'
  <2>1. Posting' = Posting \ {p} /\ p \in Posting /\ Popping' = Popping
    BY <1>4 DEF Post, Posting, Popping, consumerVars
  <2>2. Cardinality(Posting') = Cardinality(Posting) - 1
    BY <1>0, <2>1, FS_RemoveElement
  <2>3. queue' = queue /\ sem' = sem + 1
    BY <1>4 DEF Post
  <2> QED
    BY <1>0, <2>1, <2>2, <2>3 DEF TokenBalance
<1>5. ASSUME NEW c \in Consumers, Loop(c) PROVE TokenBalance'
  <2>1. Posting' = Posting /\ Popping' = Popping
    BY <1>5 DEF Loop, Posting, Popping, producerVars
  <2> QED
    BY <1>5, <1>a, <2>1 DEF Loop
<1>6. ASSUME NEW c \in Consumers, SemTimedWait(c) PROVE TokenBalance'
  <2>1. Popping' = Popping \cup {c} /\ c \notin Popping /\ Posting' = Posting
    BY <1>6 DEF SemTimedWait, Posting, Popping, producerVars
  <2>2. Cardinality(Popping') = Cardinality(Popping) + 1
    BY <1>0, <2>1, FS_AddElement
  <2>3. queue' = queue /\ sem' = sem - 1
    BY <1>6 DEF SemTimedWait
  <2> QED
    BY <1>0, <2>1, <2>2, <2>3 DEF TokenBalance
<1>7. ASSUME NEW c \in Consumers, Timeout(c) PROVE TokenBalance'
  <2>1. Posting' = Posting /\ Popping' = Popping
    BY <1>7 DEF Timeout, Posting, Popping, producerVars
  <2> QED
    BY <1>7, <1>a, <2>1 DEF Timeout
<1>8. ASSUME NEW c \in Consumers, ListGetAt(c) PROVE TokenBalance'
  <2>1. Posting' = Posting /\ Popping' = Popping
    BY <1>8 DEF ListGetAt, Posting, Popping, producerVars
  <2> QED
    BY <1>8, <1>a, <2>1 DEF ListGetAt
<1>9. ASSUME NEW c \in Consumers, ListRemove(c) PROVE TokenBalance'
  <2>1. CASE cmsg[c] \in ToSet(queue)
    <3>1. Popping' = Popping \ {c} /\ c \in Popping /\ Posting' = Posting
      BY <1>9, <2>1 DEF ListRemove, Posting, Popping, producerVars
    <3>2. Cardinality(Popping') = Cardinality(Popping) - 1
      BY <1>0, <3>1, FS_RemoveElement
    <3>3. Len(queue') = Len(queue) - 1 /\ sem' = sem
      BY <1>9, <2>1, RemoveEntry DEF ListRemove, OneOwner
    <3> QED
      BY <1>0, <3>1, <3>2, <3>3 DEF TokenBalance
  <2>2. CASE cmsg[c] \notin ToSet(queue)
    <3>1. Posting' = Posting /\ Popping' = Popping
      BY <1>9, <2>2 DEF ListRemove, Posting, Popping, producerVars
    <3> QED
      BY <1>9, <1>a, <2>2, <3>1 DEF ListRemove
  <2> QED
    BY <2>1, <2>2
<1>10. ASSUME NEW c \in Consumers, Repost(c) PROVE TokenBalance'
  <2>1. Popping' = Popping \ {c} /\ c \in Popping /\ Posting' = Posting
    BY <1>10 DEF Repost, Posting, Popping, producerVars
  <2>2. Cardinality(Popping') = Cardinality(Popping) - 1
    BY <1>0, <2>1, FS_RemoveElement
  <2>3. queue' = queue /\ sem' = sem + 1
    BY <1>10 DEF Repost
  <2> QED
    BY <1>0, <2>1, <2>2, <2>3 DEF TokenBalance
<1>11. ASSUME NEW c \in Consumers, HandleAndFree(c) PROVE TokenBalance'
  <2>1. Posting' = Posting /\ Popping' = Popping
    BY <1>11 DEF HandleAndFree, Posting, Popping, producerVars
  <2> QED
    BY <1>11, <1>a, <2>1 DEF HandleAndFree
<1>12. CASE Stop
  BY <1>12, <1>a DEF Stop, Posting, Popping, producerVars, consumerVars
<1>13. CASE Destroy
  <2>1. Posting' = {} /\ Popping' = {}
    BY <1>13 DEF Destroy, Posting, Popping, producerVars, consumerVars
  <2>2. Len(queue') = 0 /\ sem' = 0
    BY <1>13 DEF Destroy
  <2> QED
    BY <2>1, <2>2, FS_EmptySet DEF TokenBalance
<1>14. CASE UNCHANGED vars
  BY <1>14, <1>a DEF vars, Posting, Popping
<1> QED
  BY <1>1, <1>2, <1>3, <1>4, <1>5, <1>6, <1>7, <1>8, <1>9, <1>10, <1>11,
     <1>12, <1>13, <1>14 DEF Next, ProducerStep, ConsumerStep

-----------------------------------------------------------------------------
QueueInv == TypeInv /\ OneOwner /\ TokenBalance

LEMMA QueueInvInit == Init => QueueInv
<1> SUFFICES ASSUME Init PROVE QueueInv
  OBVIOUS
<1>1. TypeInv
  <2>1. queue \in Seq(Message)
    BY DEF Init
  <2>2. /\ sem \in Nat
        /\ ppc \in [Producers -> {"idle", "append", "post"}]
        /\ pmsg \in [Producers -> Message \cup {NoMsg}]
        /\ cpc \in [Consumers ->
              {"loop", "wait", "getAt", "remove", "repost", "handle", "exit"}]
        /\ cmsg \in [Consumers -> Message \cup {NoMsg}]
    BY DEF Init
  <2>3. bStop \in BOOLEAN /\ open \in BOOLEAN
    BY DEF Init
  <2>4. BufferHeld
    BY DEF Init, BufferHeld
  <2> QED
    BY <2>1, <2>2, <2>3, <2>4 DEF TypeInv, TypeOK
<1>2. OneOwner
  BY DEF Init, OneOwner, IsInjective
<1>3. TokenBalance
  <2>1. Posting = {} /\ Popping = {} /\ Len(queue) = 0 /\ sem = 0
    BY DEF Init, Posting, Popping
  <2> QED
    BY <2>1, FS_EmptySet DEF TokenBalance
<1> QED
  BY <1>1, <1>2, <1>3 DEF QueueInv

LEMMA QueueInvariant == Spec => []QueueInv
<1>1. QueueInv /\ [Next]_vars => QueueInv'
  BY TypeStep, OwnerStep, BalanceStep DEF QueueInv
<1> QED
  BY <1>1, QueueInvInit, PTL DEF Spec

\* The types of FTM_MSGQ's state and of its callers' locals are never left.
THEOREM TypeCorrect == Spec => []TypeOK
<1>1. QueueInv => TypeOK
  BY DEF QueueInv, TypeInv
<1> QED
  BY <1>1, QueueInvariant, PTL

\* A buffer has one owner, for any number of threads pushing and popping and
\* any reuse of addresses by malloc (FTM_QUEUE_pop's two critical sections).
THEOREM OwnershipCorrect == Spec => []OneOwner
<1>1. QueueInv => OneOwner
  BY DEF QueueInv
<1> QED
  BY <1>1, QueueInvariant, PTL

\* The semaphore of a message queue never drifts from its list.
THEOREM BalanceCorrect == Spec => []TokenBalance
<1>1. QueueInv => TokenBalance
  BY DEF QueueInv
<1> QED
  BY <1>1, QueueInvariant, PTL

\* After sem_timedwait returns a token the list is not empty at getAt.
THEOREM TokenMeansEntryCorrect == Spec => []TokenMeansEntry
<1>1. QueueInv => TokenMeansEntry
  <2> SUFFICES ASSUME QueueInv, NEW c \in Consumers, cpc[c] = "getAt"
               PROVE  queue # <<>>
    BY DEF TokenMeansEntry
  <2>1. c \in Popping
    BY DEF Popping
  <2>2. Cardinality(Popping) # 0
    BY <2>1, CountedSets, FS_EmptySet
  <2>3. Len(queue) # 0
    BY <2>2, CountedSets DEF QueueInv, TokenBalance, TypeInv, TypeOK
  <2> QED
    BY <2>3
<1> QED
  BY <1>1, QueueInvariant, PTL
-----------------------------------------------------------------------------
(* One reader, as every queue of the daemon has.                           *)

SingleInv ==
    /\ QueueInv
    /\ Cardinality(Consumers) = 1 =>
          \A c \in Consumers :
             /\ cpc[c] # "repost"
             /\ cpc[c] = "remove" => queue # <<>> /\ Head(queue) = cmsg[c]

\* With one reader the head cannot go between getAt and remove.
LEMMA SingleInvariant == Spec => []SingleInv
<1>1. Init => SingleInv
  BY QueueInvInit DEF Init, SingleInv
<1>2. SingleInv /\ [Next]_vars => SingleInv'
  <2> SUFFICES ASSUME SingleInv, [Next]_vars
               PROVE  SingleInv'
    OBVIOUS
  <2> USE DEF producerVars, consumerVars
  <2>0. QueueInv' /\ QueueInv
    BY TypeStep, OwnerStep, BalanceStep DEF QueueInv, SingleInv
  <2>1. ASSUME Cardinality(Consumers) = 1
        PROVE  \A c \in Consumers :
                  /\ cpc'[c] # "repost"
                  /\ cpc'[c] = "remove" => queue' # <<>> /\ Head(queue') = cmsg'[c]
    <3>1. PICK r : Consumers = {r}
      BY <2>1, ThreadsAssumption, FS_Singleton
    <3>2. /\ cpc[r] # "repost"
          /\ cpc[r] = "remove" => queue # <<>> /\ Head(queue) = cmsg[r]
      BY <2>1, <3>1 DEF SingleInv
    <3>3. /\ queue \in Seq(Message)
          /\ cpc \in [Consumers -> {"loop", "wait", "getAt", "remove", "repost", "handle", "exit"}]
          /\ cmsg \in [Consumers -> Message \cup {NoMsg}]
          /\ \A p \in Producers : ppc[p] = "append" => pmsg[p] \in Message
      BY <2>0 DEF QueueInv, TypeInv, TypeOK, BufferHeld
    <3> SUFFICES /\ cpc'[r] # "repost"
                 /\ cpc'[r] = "remove" => queue' # <<>> /\ Head(queue') = cmsg'[r]
      BY <3>1
    <3>a. ASSUME UNCHANGED <<queue, consumerVars>>
          PROVE  /\ cpc'[r] # "repost"
                 /\ cpc'[r] = "remove" => queue' # <<>> /\ Head(queue') = cmsg'[r]
      BY <3>a, <3>2
    <3>4. ASSUME NEW p \in Producers, ProducerStep(p)
          PROVE  /\ cpc'[r] # "repost"
                 /\ cpc'[r] = "remove" => queue' # <<>> /\ Head(queue') = cmsg'[r]
      <4>1. CASE Malloc(p)
        BY <3>a, <4>1 DEF Malloc
      <4>2. CASE PushEntry(p)
        <5>1. queue' = Append(queue, pmsg[p]) /\ pmsg[p] \in Message /\ UNCHANGED <<cpc, cmsg>>
          BY <3>3, <4>2 DEF PushEntry
        <5>2. queue' # <<>>
          BY <3>3, <5>1, AppendProperties
        <5>3. queue # <<>> => Head(queue') = Head(queue)
          BY <3>3, <5>1, HeadTailAppend
        <5> QED
          BY <3>2, <5>1, <5>2, <5>3
      <4>3. CASE PushFails(p)
        BY <3>a, <4>3 DEF PushFails
      <4>4. CASE Post(p)
        BY <3>a, <4>4 DEF Post
      <4> QED
        BY <3>4, <4>1, <4>2, <4>3, <4>4 DEF ProducerStep
    <3>5. CASE ConsumerStep(r)
      <4> USE <3>1, <3>2, <3>3
      <4>1. CASE Loop(r)
        BY <4>1 DEF Loop
      <4>2. CASE SemTimedWait(r)
        BY <4>2 DEF SemTimedWait
      <4>3. CASE Timeout(r)
        BY <4>3 DEF Timeout
      <4>4. CASE ListGetAt(r)
        <5>1. r \in Popping
          BY <4>4 DEF ListGetAt, Popping
        <5>2. Cardinality(Popping) # 0
          BY <5>1, CountedSets, FS_EmptySet
        <5>3. queue # <<>>
          BY <2>0, <5>2, CountedSets DEF QueueInv, TokenBalance, TypeInv, TypeOK
        <5> QED
          BY <4>4, <5>3 DEF ListGetAt
      <4>5. CASE ListRemove(r)
        <5>1. cmsg[r] \in ToSet(queue)
          BY <4>5 DEF ListRemove, ToSet
        <5> QED
          BY <4>5, <5>1 DEF ListRemove
      <4>6. CASE Repost(r)
        BY <4>6 DEF Repost
      <4>7. CASE HandleAndFree(r)
        BY <4>7 DEF HandleAndFree
      <4> QED
        BY <3>5, <4>1, <4>2, <4>3, <4>4, <4>5, <4>6, <4>7 DEF ConsumerStep
    <3>6. CASE Stop
      BY <3>a, <3>6 DEF Stop
    <3>7. CASE Destroy
      BY <3>1, <3>7 DEF Destroy
    <3>8. CASE UNCHANGED vars
      BY <3>a, <3>8 DEF vars
    <3> QED
      BY <3>1, <3>4, <3>5, <3>6, <3>7, <3>8 DEF Next
  <2> QED
    BY <2>0, <2>1 DEF SingleInv
<1> QED
  BY <1>1, <1>2, PTL DEF Spec

\* With one reader a pop that got past the semaphore succeeds.
THEOREM SingleReaderCorrect == Spec => []SingleReaderPops
<1>1. SingleInv => SingleReaderPops
  BY DEF SingleInv, SingleReaderPops
<1> QED
  BY <1>1, SingleInvariant, PTL

\* With one reader the queue implements a FIFO from which each message is
\* received once (the safety half of ImplementsFifo; fairness is left to TLC).
THEOREM FifoRefinement == Cardinality(Consumers) = 1 => (Spec => Fifo!Spec)
<1> SUFFICES ASSUME Cardinality(Consumers) = 1
             PROVE  Spec => Fifo!Spec
  OBVIOUS
<1>1. PICK r : Consumers = {r} /\ Reader = r
  BY ThreadsAssumption, FS_Singleton DEF Reader
<1> USE DEF producerVars, consumerVars
<1>2. Init => Fifo!Init
  BY <1>1 DEF Init, Fifo!Init
<1>3. SingleInv /\ [Next]_vars => [Fifo!Next]_(Fifo!vars)
  <2> SUFFICES ASSUME SingleInv, [Next]_vars
               PROVE  [Fifo!Next]_(Fifo!vars)
    OBVIOUS
  <2>1. /\ queue \in Seq(Message)
        /\ cpc \in [Consumers -> {"loop", "wait", "getAt", "remove", "repost", "handle", "exit"}]
        /\ cmsg \in [Consumers -> Message \cup {NoMsg}]
        /\ \A p \in Producers : ppc[p] = "append" => pmsg[p] \in Message
        /\ cpc[r] \in {"remove", "handle"} => cmsg[r] \in Message
        /\ cpc[r] # "repost"
        /\ cpc[r] = "remove" => queue # <<>> /\ Head(queue) = cmsg[r]
    BY <1>1 DEF SingleInv, QueueInv, TypeInv, TypeOK, BufferHeld
  <2>2. OneOwner
    BY DEF SingleInv, QueueInv
  <2>a. ASSUME UNCHANGED <<queue, consumerVars>>
        PROVE  [Fifo!Next]_(Fifo!vars)
    BY <2>a DEF Fifo!vars
  <2>3. ASSUME NEW p \in Producers, ProducerStep(p)
        PROVE  [Fifo!Next]_(Fifo!vars)
    <3>1. CASE Malloc(p)
      BY <2>a, <3>1 DEF Malloc
    <3>2. CASE PushEntry(p)
      <4>1. pmsg[p] \in Message /\ queue' = Append(queue, pmsg[p]) /\ UNCHANGED <<cpc, cmsg>>
        BY <2>1, <3>2 DEF PushEntry
      <4>2. \A i \in DOMAIN queue : queue[i] # pmsg[p]
        BY <2>2, <3>2 DEF PushEntry, OneOwner, ToSet
      <4>3. cpc[r] = "handle" => cmsg[r] # pmsg[p]
        BY <1>1, <2>2, <3>2 DEF PushEntry, OneOwner
      <4>4. pmsg[p] # NoMsg
        BY <4>1, NoMsgAssumption
      <4>5. Fifo!Send(pmsg[p])
        BY <1>1, <4>1, <4>2, <4>3, <4>4 DEF Fifo!Send
      <4> QED
        BY <4>1, <4>5 DEF Fifo!Next
    <3>3. CASE PushFails(p)
      BY <2>a, <3>3 DEF PushFails
    <3>4. CASE Post(p)
      BY <2>a, <3>4 DEF Post
    <3> QED
      BY <2>3, <3>1, <3>2, <3>3, <3>4 DEF ProducerStep
  <2>4. CASE ConsumerStep(r)
    <3> USE <1>1, <2>1
    <3>1. CASE Loop(r)
      <4>1. CASE bStop
        BY <3>1, <4>1 DEF Loop, Fifo!Next, Fifo!Leave
      <4>2. CASE ~bStop
        BY <3>1, <4>2 DEF Loop, Fifo!vars
      <4> QED
        BY <4>1, <4>2
    <3>2. CASE SemTimedWait(r)
      BY <3>2 DEF SemTimedWait, Fifo!vars
    <3>3. CASE Timeout(r)
      BY <3>3 DEF Timeout, Fifo!vars
    <3>4. CASE ListGetAt(r)
      BY <3>4 DEF ListGetAt, Fifo!vars
    <3>5. CASE ListRemove(r)
      <4>1. cmsg[r] \in ToSet(queue)
        BY <3>5 DEF ListRemove, ToSet
      <4>2. queue' = Tail(queue)
        BY <2>2, <3>5, <4>1, RemoveEntry DEF ListRemove, OneOwner
      <4>3. Fifo!Receive
        BY <3>5, <4>1, <4>2 DEF ListRemove, Fifo!Receive
      <4> QED
        BY <4>3 DEF Fifo!Next
    <3>6. CASE Repost(r)
      BY <3>6 DEF Repost
    <3>7. CASE HandleAndFree(r)
      <4>1. cmsg[r] # NoMsg
        BY <3>7, NoMsgAssumption DEF HandleAndFree
      <4> QED
        BY <3>7, <4>1 DEF HandleAndFree, Fifo!Next, Fifo!Finish
    <3> QED
      BY <2>4, <3>1, <3>2, <3>3, <3>4, <3>5, <3>6, <3>7 DEF ConsumerStep
  <2>5. CASE Stop
    BY <2>a, <2>5 DEF Stop
  <2>6. CASE Destroy
    <3>1. cpc[r] = "exit" /\ queue' = <<>> /\ UNCHANGED <<cpc, cmsg>>
      BY <1>1, <2>6 DEF Destroy
    <3>2. CASE queue = <<>>
      BY <3>1, <3>2 DEF Fifo!vars
    <3>3. CASE queue # <<>>
      BY <1>1, <3>1, <3>3 DEF Fifo!Next, Fifo!Drop
    <3> QED
      BY <3>2, <3>3
  <2>7. CASE UNCHANGED vars
    BY <2>a, <2>7 DEF vars
  <2> QED
    BY <1>1, <2>3, <2>4, <2>5, <2>6, <2>7 DEF Next
<1> QED
  BY <1>2, <1>3, SingleInvariant, PTL DEF Spec, Fifo!Spec
=============================================================================
