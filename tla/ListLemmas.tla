---------------------------- MODULE ListLemmas ----------------------------
(***************************************************************************)
(* What appending to a list and removing from it (FTM_LIST_append,         *)
(* FTM_LIST_remove, FTM_LIST_removeAt) do to a sequence.                   *)
(***************************************************************************)
EXTENDS Naturals, Sequences, SequencesExt, SequenceTheorems, TLAPS

\* Removing an element keeps the others (FTM_LIST_remove).
LEMMA RemoveAtProperties ==
    ASSUME NEW S, NEW q \in Seq(S), NEW k \in 1..Len(q)
    PROVE  /\ RemoveAt(q, k) \in Seq(S)
           /\ Len(RemoveAt(q, k)) = Len(q) - 1
           /\ \A i \in 1..(Len(q) - 1) :
                 RemoveAt(q, k)[i] = IF i < k THEN q[i] ELSE q[i+1]
<1> DEFINE A == SubSeq(q, 1, k-1)
           B == SubSeq(q, k+1, Len(q))
<1>1. /\ A \in Seq(S)
      /\ Len(A) = k - 1
      /\ \A i \in 1..(k-1) : A[i] = q[i]
  BY SubSeqProperties
<1>2. /\ B \in Seq(S)
      /\ Len(B) = Len(q) - k
      /\ \A i \in 1..(Len(q) - k) : B[i] = q[k+i]
  BY SubSeqProperties
<1>3. /\ A \o B \in Seq(S)
      /\ Len(A \o B) = Len(A) + Len(B)
      /\ \A i \in 1..(Len(A) + Len(B)) :
            (A \o B)[i] = IF i <= Len(A) THEN A[i] ELSE B[i - Len(A)]
  BY <1>1, <1>2, ConcatProperties
<1>4. RemoveAt(q, k) = A \o B
  BY DEF RemoveAt
<1> HIDE DEF A, B
<1>5. ASSUME NEW i \in 1..(Len(q) - 1)
      PROVE  (A \o B)[i] = IF i < k THEN q[i] ELSE q[i+1]
  <2>1. CASE i < k
    BY <1>1, <1>2, <1>3, <2>1
  <2>2. CASE ~(i < k)
    <3>1. (A \o B)[i] = B[i - (k-1)]
      BY <1>1, <1>2, <1>3, <2>2
    <3>2. i - (k-1) \in 1..(Len(q) - k)
      BY <2>2
    <3>3. B[i - (k-1)] = q[k + (i - (k-1))]
      BY <1>2, <3>2
    <3>4. k + (i - (k-1)) = i + 1
      OBVIOUS
    <3> QED
      BY <2>2, <3>1, <3>3, <3>4
  <2> QED
    BY <2>1, <2>2
<1>6. Len(A \o B) = Len(q) - 1
  BY <1>1, <1>2, <1>3
<1>7. /\ RemoveAt(q, k) \in Seq(S)
      /\ Len(RemoveAt(q, k)) = Len(q) - 1
  BY <1>3, <1>4, <1>6
<1> QED
  BY <1>4, <1>5, <1>7, Zenon

\* An element other than the removed one has a place in what is left.
LEMMA RemoveAtKeeps ==
    ASSUME NEW S, NEW q \in Seq(S), NEW k \in 1..Len(q),
           NEW j \in 1..Len(q), j # k
    PROVE  \E i \in 1..Len(RemoveAt(q, k)) : RemoveAt(q, k)[i] = q[j]
<1>1. CASE j < k
  <2>1. j \in 1..(Len(q) - 1)
    BY <1>1
  <2> QED
    BY <1>1, <2>1, RemoveAtProperties
<1>2. CASE j > k
  <2>1. j - 1 \in 1..(Len(q) - 1) /\ ~(j - 1 < k) /\ (j - 1) + 1 = j
    BY <1>2
  <2> QED
    BY <2>1, RemoveAtProperties
<1> QED
  BY <1>1, <1>2

\* What is left of a list after a removal was in it, at another place.
LEMMA RemoveAtOrigin ==
    ASSUME NEW S, NEW q \in Seq(S), NEW k \in 1..Len(q),
           NEW i \in 1..Len(RemoveAt(q, k))
    PROVE  \E j \in 1..Len(q) :
              /\ j # k
              /\ j = IF i < k THEN i ELSE i + 1
              /\ RemoveAt(q, k)[i] = q[j]
<1>1. i \in 1..(Len(q) - 1)
  BY RemoveAtProperties
<1>2. CASE i < k
  BY <1>1, <1>2, RemoveAtProperties
<1>3. CASE ~(i < k)
  <2>1. i + 1 \in 1..Len(q) /\ i + 1 # k
    BY <1>1, <1>3
  <2> QED
    BY <1>1, <1>3, <2>1, RemoveAtProperties
<1> QED
  BY <1>2, <1>3

\* Removing an element of a list that holds each element once leaves the
\* others, each of them once.
LEMMA RemoveAtInjective ==
    ASSUME NEW S, NEW q \in Seq(S), NEW k \in 1..Len(q), IsInjective(q)
    PROVE  /\ IsInjective(RemoveAt(q, k))
           /\ ToSet(RemoveAt(q, k)) = ToSet(q) \ {q[k]}
<1> DEFINE r == RemoveAt(q, k)
<1>1. /\ r \in Seq(S) /\ Len(r) = Len(q) - 1
      /\ DOMAIN r = 1..Len(r) /\ DOMAIN q = 1..Len(q)
  BY RemoveAtProperties
<1>2. ASSUME NEW i \in 1..Len(r), NEW j \in 1..Len(r), r[i] = r[j]
      PROVE  i = j
  <2>1. PICK a \in 1..Len(q) : a = (IF i < k THEN i ELSE i + 1) /\ r[i] = q[a]
    BY RemoveAtOrigin
  <2>2. PICK b \in 1..Len(q) : b = (IF j < k THEN j ELSE j + 1) /\ r[j] = q[b]
    BY RemoveAtOrigin
  <2>3. a = b
    BY <1>1, <1>2, <2>1, <2>2 DEF IsInjective
  <2> HIDE DEF r
  <2> QED
    BY <1>1, <2>1, <2>2, <2>3
<1>3. ASSUME NEW i \in 1..Len(r)
      PROVE  r[i] \in ToSet(q) \ {q[k]}
  <2>1. PICK a \in 1..Len(q) : a # k /\ r[i] = q[a]
    BY RemoveAtOrigin
  <2> QED
    BY <1>1, <2>1 DEF IsInjective, ToSet
<1>4. ASSUME NEW j \in 1..Len(q), q[j] # q[k]
      PROVE  q[j] \in ToSet(r)
  <2>1. \E i \in 1..Len(r) : r[i] = q[j]
    BY <1>4, RemoveAtKeeps
  <2> QED
    BY <1>1, <2>1 DEF ToSet
<1> HIDE DEF r
<1>5. IsInjective(r)
  BY <1>1, <1>2 DEF IsInjective
<1>6. ToSet(r) = ToSet(q) \ {q[k]}
  BY <1>1, <1>3, <1>4 DEF ToSet
<1> QED
  BY <1>5, <1>6 DEF r

\* Appending an element that is not in the list yet.
LEMMA AppendNew ==
    ASSUME NEW S, NEW q \in Seq(S), NEW e \in S, IsInjective(q), e \notin ToSet(q)
    PROVE  IsInjective(Append(q, e)) /\ ToSet(Append(q, e)) = ToSet(q) \cup {e}
<1>1. /\ Len(Append(q, e)) = Len(q) + 1 /\ Len(q) \in Nat
      /\ DOMAIN Append(q, e) = 1..(Len(q) + 1) /\ DOMAIN q = 1..Len(q)
      /\ \A i \in 1..Len(q) : Append(q, e)[i] = q[i]
      /\ Append(q, e)[Len(q) + 1] = e
  BY AppendProperties
<1>2. \A i \in 1..Len(q) : q[i] # e
  BY <1>1 DEF ToSet
<1>3. \A i, j \in 1..(Len(q) + 1) : Append(q, e)[i] = Append(q, e)[j] => i = j
  BY <1>1, <1>2 DEF IsInjective
<1>4. IsInjective(Append(q, e))
  BY <1>1, <1>3 DEF IsInjective
<1>5. ToSet(Append(q, e)) = ToSet(q) \cup {e}
  BY <1>1 DEF ToSet
<1> QED
  BY <1>4, <1>5

\* Taking the head off a list that holds each element once.
LEMMA TailOfInjective ==
    ASSUME NEW S, NEW q \in Seq(S), q # <<>>, IsInjective(q)
    PROVE  /\ IsInjective(Tail(q))
           /\ ToSet(Tail(q)) = ToSet(q) \ {Head(q)}
           /\ Head(q) \in ToSet(q)
<1>1. /\ Tail(q) \in Seq(S) /\ Len(Tail(q)) = Len(q) - 1 /\ Len(q) \in Nat \ {0}
      /\ DOMAIN Tail(q) = 1..(Len(q) - 1) /\ DOMAIN q = 1..Len(q)
      /\ \A i \in 1..(Len(q) - 1) : Tail(q)[i] = q[i + 1]
      /\ Head(q) = q[1]
  BY HeadTailProperties
<1>2. IsInjective(Tail(q))
  BY <1>1 DEF IsInjective
<1>3. ToSet(Tail(q)) = ToSet(q) \ {Head(q)}
  <2>1. ASSUME NEW i \in 1..(Len(q) - 1)
        PROVE  Tail(q)[i] \in ToSet(q) \ {Head(q)}
    BY <1>1 DEF IsInjective, ToSet
  <2>2. ASSUME NEW j \in 1..Len(q), q[j] # q[1]
        PROVE  q[j] \in ToSet(Tail(q))
    <3>1. j - 1 \in 1..(Len(q) - 1) /\ Tail(q)[j - 1] = q[j]
      BY <1>1, <2>2
    <3> QED
      BY <1>1, <3>1 DEF ToSet
  <2> QED
    BY <1>1, <2>1, <2>2 DEF ToSet
<1>4. Head(q) \in ToSet(q)
  BY <1>1 DEF ToSet
<1> QED
  BY <1>2, <1>3, <1>4

\* What a list holds after an element is appended (FTM_LIST_append).
LEMMA AppendSet ==
    ASSUME NEW S, NEW q \in Seq(S), NEW e \in S
    PROVE  ToSet(Append(q, e)) = ToSet(q) \cup {e}
<1>1. /\ Len(q) \in Nat
      /\ DOMAIN Append(q, e) = 1..(Len(q) + 1) /\ DOMAIN q = 1..Len(q)
      /\ \A i \in 1..Len(q) : Append(q, e)[i] = q[i]
      /\ Append(q, e)[Len(q) + 1] = e
  BY AppendProperties
<1> QED
  BY <1>1 DEF ToSet

\* What a queue holds beside its head (FTM_MSGQ_timedPop).
LEMMA TailSet ==
    ASSUME NEW S, NEW q \in Seq(S), q # <<>>
    PROVE  ToSet(q) = ToSet(Tail(q)) \cup {Head(q)}
<1>1. /\ Len(q) \in Nat \ {0}
      /\ DOMAIN Tail(q) = 1..(Len(q) - 1) /\ DOMAIN q = 1..Len(q)
      /\ \A i \in 1..(Len(q) - 1) : Tail(q)[i] = q[i + 1]
      /\ Head(q) = q[1]
  BY HeadTailProperties
<1>2. ASSUME NEW j \in 1..Len(q), j # 1
      PROVE  q[j] \in ToSet(Tail(q))
  <2>1. j - 1 \in 1..(Len(q) - 1) /\ Tail(q)[j - 1] = q[j]
    BY <1>1, <1>2
  <2> QED
    BY <1>1, <2>1 DEF ToSet
<1>3. \A i \in 1..(Len(q) - 1) : Tail(q)[i] \in ToSet(q)
  BY <1>1 DEF ToSet
<1> QED
  BY <1>1, <1>2, <1>3 DEF ToSet

\* What two queues hold together.
LEMMA ConcatSet ==
    ASSUME NEW S, NEW q \in Seq(S), NEW r \in Seq(S)
    PROVE  ToSet(q \o r) = ToSet(q) \cup ToSet(r)
<1>1. /\ Len(q) \in Nat /\ Len(r) \in Nat
      /\ DOMAIN q = 1..Len(q) /\ DOMAIN r = 1..Len(r)
      /\ DOMAIN (q \o r) = 1..(Len(q) + Len(r))
      /\ \A i \in 1..(Len(q) + Len(r)) :
            (q \o r)[i] = IF i <= Len(q) THEN q[i] ELSE r[i - Len(q)]
  BY ConcatProperties
<1>2. ASSUME NEW i \in 1..(Len(q) + Len(r))
      PROVE  (q \o r)[i] \in ToSet(q) \cup ToSet(r)
  <2>1. CASE i <= Len(q)
    BY <1>1, <2>1 DEF ToSet
  <2>2. CASE ~(i <= Len(q))
    <3>1. i - Len(q) \in 1..Len(r)
      BY <1>1, <2>2
    <3> QED
      BY <1>1, <2>2, <3>1 DEF ToSet
  <2> QED
    BY <2>1, <2>2
<1>3. ASSUME NEW i \in 1..Len(q)
      PROVE  q[i] \in ToSet(q \o r)
  BY <1>1 DEF ToSet
<1>4. ASSUME NEW i \in 1..Len(r)
      PROVE  r[i] \in ToSet(q \o r)
  <2>1. i + Len(q) \in 1..(Len(q) + Len(r)) /\ (q \o r)[i + Len(q)] = r[i]
    BY <1>1
  <2> QED
    BY <1>1, <2>1 DEF ToSet
<1> QED
  BY <1>1, <1>2, <1>3, <1>4 DEF ToSet

\* An element put in front of a queue is its head, the queue what follows; and a
\* queue is its head in front of the rest (FTM_DETECTOR_onSetControl).
LEMMA ConcatOne ==
    ASSUME NEW S, NEW q \in Seq(S)
    PROVE  /\ \A e \in S : /\ <<e>> \o q # <<>>
                           /\ Head(<<e>> \o q) = e /\ Tail(<<e>> \o q) = q
           /\ q # <<>> => <<Head(q)>> \o Tail(q) = q
<1>1. ASSUME NEW e \in S
      PROVE  /\ <<e>> \o q # <<>>
             /\ Head(<<e>> \o q) = e /\ Tail(<<e>> \o q) = q
  <2>1. <<e>> \in Seq(S) /\ Len(<<e>>) = 1 /\ <<e>>[1] = e
    OBVIOUS
  <2>2. PICK r \in Seq(S) : r = <<e>> \o q
    BY <2>1, ConcatProperties
  <2>3. /\ Len(q) \in Nat /\ Len(r) = 1 + Len(q)
        /\ \A i \in 1..(1 + Len(q)) : r[i] = IF i <= 1 THEN <<e>>[i] ELSE q[i - 1]
    BY <2>1, <2>2, ConcatProperties
  <2>4. r # <<>> /\ Head(r) = e
    BY <2>1, <2>3
  <2>5. /\ Tail(r) \in Seq(S) /\ Len(Tail(r)) = Len(q)
        /\ \A i \in 1..Len(q) : Tail(r)[i] = q[i]
    <3>1. /\ Tail(r) \in Seq(S) /\ Len(Tail(r)) = Len(r) - 1
          /\ \A i \in 1..Len(Tail(r)) : Tail(r)[i] = r[i + 1]
      BY <2>4, HeadTailProperties
    <3> QED
      BY <2>3, <3>1
  <2>6. Tail(r) = q
    BY <2>5, SeqEqual
  <2> QED
    BY <2>2, <2>4, <2>6
<1>2. ASSUME q # <<>>
      PROVE  <<Head(q)>> \o Tail(q) = q
  <2>1. /\ Head(q) \in S /\ Tail(q) \in Seq(S) /\ Len(Tail(q)) = Len(q) - 1
        /\ \A i \in 1..Len(Tail(q)) : Tail(q)[i] = q[i + 1]
        /\ Head(q) = q[1]
    BY <1>2, HeadTailProperties
  <2>0. Len(q) \in Nat /\ Len(q) # 0
    BY <1>2, EmptySeq
  <2>2. PICK h \in Seq(S) : h = <<Head(q)>> /\ Len(h) = 1 /\ h[1] = q[1]
    <3>1. <<Head(q)>> \in Seq(S)
      BY <2>1
    <3> QED
      BY <2>1, <3>1
  <2>3. PICK t \in Seq(S) : t = Tail(q)
    BY <2>1
  <2>4. /\ h \o t \in Seq(S) /\ Len(h \o t) = Len(q)
        /\ \A i \in 1..Len(q) : (h \o t)[i] = IF i <= 1 THEN h[i] ELSE t[i - 1]
    BY <2>0, <2>1, <2>2, <2>3, ConcatProperties
  <2>5. \A i \in 1..Len(q) : (h \o t)[i] = q[i]
    <3>1. \A i \in 1..Len(q) : i # 1 => i - 1 \in 1..Len(t) /\ t[i - 1] = q[i]
      BY <2>0, <2>1, <2>3
    <3> QED
      BY <2>2, <2>4, <3>1
  <2>6. h \o t = q
    BY <2>4, <2>5, SeqEqual
  <2> QED
    BY <2>2, <2>3, <2>6
<1> QED
  BY <1>1, <1>2

\* Adding to a queue adds to what is made of it and of what comes before.
LEMMA ConcatAppend ==
    ASSUME NEW S, NEW r \in Seq(S), NEW q \in Seq(S), NEW e \in S
    PROVE  r \o Append(q, e) = Append(r \o q, e)
<1>1. <<e>> \in Seq(S) /\ r \o q \in Seq(S)
  BY ConcatProperties
<1>2. Append(q, e) = q \o <<e>> /\ Append(r \o q, e) = (r \o q) \o <<e>>
  BY <1>1, AppendIsConcat
<1>3. (r \o q) \o <<e>> = r \o (q \o <<e>>)
  BY <1>1, ConcatAssociative
<1> QED
  BY <1>2, <1>3
=============================================================================
