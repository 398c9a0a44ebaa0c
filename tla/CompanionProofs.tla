---------------------------- MODULE CompanionProofs ----------------------------
(* Theorems about the two halves of a companion bridge: CompanionInbox, for     *)
(* any messages and limits, and CompanionReplies, for any requests, messages,   *)
(* listeners and number of connections.  The two have no variable or constant   *)
(* in common.                                                                   *)
EXTENDS CompanionInbox, CompanionReplies, SequenceTheorems, FiniteSetTheorems, TLAPS

-----------------------------------------------------------------------------
(* CompanionInbox: the operators on its queues.                              *)

\* FirstChannel chooses an index of the queue, and a channel message there.
LEMMA FirstChannelIsThere ==
    ASSUME NEW S, NEW q \in Seq(S), HasChannel(q)
    PROVE  FirstChannel(q) \in 1..Len(q) /\ q[FirstChannel(q)] \in Channel
<1> DEFINE T == {i \in 1..Len(q) : q[i] \in Channel}
<1>1. DOMAIN q = 1..Len(q) /\ Len(q) \in Nat
  BY LenProperties
<1>2. T \in SUBSET Nat /\ T # {}
  BY <1>1 DEF HasChannel
<1>3. PICK i \in T : \A j \in T : ~(<<j, i>> \in OpToRel(<, Nat))
  <2> HIDE DEF T
  <2> QED BY <1>2, WFMin, NatLessThanWellFounded, Zenon
<1>4. \A j \in T : ~(j < i)
  <2>1. i \in Nat /\ \A j \in T : j \in Nat
    BY <1>2
  <2> HIDE DEF T
  <2> QED BY <2>1, <1>3, Zenon DEF OpToRel
<1>5. i \in DOMAIN q /\ q[i] \in Channel /\ \A j \in 1..(i - 1) : q[j] \notin Channel
  BY <1>1, <1>4
<1>6. FirstChannel(q) \in DOMAIN q /\ q[FirstChannel(q)] \in Channel
  BY <1>5 DEF FirstChannel
<1> QED BY <1>1, <1>6

\* A queue without the entry at i, index by index.
LEMMA RemoveIndexProperties ==
    ASSUME NEW S, NEW q \in Seq(S), NEW i \in 1..Len(q)
    PROVE  /\ RemoveIndex(q, i) \in Seq(S)
           /\ Len(RemoveIndex(q, i)) = Len(q) - 1
           /\ \A j \in 1..(Len(q) - 1) :
                RemoveIndex(q, i)[j] = IF j < i THEN q[j] ELSE q[j + 1]
<1>1. Len(q) \in Nat /\ \A j \in 1..Len(q) : q[j] \in S
  BY LenProperties, ElementOfSeq
<1> DEFINE a == SubSeq(q, 1, i - 1)
           b == SubSeq(q, i + 1, Len(q))
<1>2. /\ a \in Seq(S) /\ Len(a) = i - 1
      /\ \A j \in 1..(i - 1) : a[j] = q[j]
  <2>1. \A j \in 1..(i - 1) : q[j] \in S
    BY <1>1
  <2>2. 1 \in Int /\ i - 1 \in Int
    BY <1>1
  <2>3. /\ SubSeq(q, 1, i - 1) \in Seq(S)
        /\ Len(SubSeq(q, 1, i - 1)) = IF 1 <= i - 1 THEN (i - 1) - 1 + 1 ELSE 0
        /\ \A j \in 1..((i - 1) - 1 + 1) : SubSeq(q, 1, i - 1)[j] = q[1 + j - 1]
    BY <2>1, <2>2, SubSeqProperties
  <2> QED BY <2>3, <1>1
<1>3. /\ b \in Seq(S) /\ Len(b) = Len(q) - i
      /\ \A j \in 1..(Len(q) - i) : b[j] = q[j + i]
  <2>1. \A j \in (i + 1)..Len(q) : q[j] \in S
    BY <1>1
  <2>2. i + 1 \in Int /\ Len(q) \in Int
    BY <1>1
  <2>3. /\ SubSeq(q, i + 1, Len(q)) \in Seq(S)
        /\ Len(SubSeq(q, i + 1, Len(q))) =
             IF i + 1 <= Len(q) THEN Len(q) - (i + 1) + 1 ELSE 0
        /\ \A j \in 1..(Len(q) - (i + 1) + 1) :
             SubSeq(q, i + 1, Len(q))[j] = q[(i + 1) + j - 1]
    BY <2>1, <2>2, SubSeqProperties
  <2> QED BY <2>3, <1>1
<1>4. RemoveIndex(q, i) = a \o b
  BY DEF RemoveIndex
<1> HIDE DEF a, b
<1>5. /\ a \o b \in Seq(S)
      /\ Len(a \o b) = Len(a) + Len(b)
      /\ \A j \in 1..(Len(a) + Len(b)) :
           (a \o b)[j] = IF j <= Len(a) THEN a[j] ELSE b[j - Len(a)]
  BY <1>2, <1>3, ConcatProperties
<1>6. Len(RemoveIndex(q, i)) = Len(q) - 1
  BY <1>1, <1>2, <1>3, <1>4, <1>5
<1>7. ASSUME NEW j \in 1..(Len(q) - 1)
      PROVE  RemoveIndex(q, i)[j] = IF j < i THEN q[j] ELSE q[j + 1]
  <2>1. CASE j < i
    BY <2>1, <1>1, <1>2, <1>3, <1>4, <1>5
  <2>2. CASE ~(j < i)
    <3>1. j - (i - 1) \in 1..(Len(q) - i) /\ ~(j <= i - 1)
      BY <2>2, <1>1
    <3>2. (j - (i - 1)) + i = j + 1
      BY <1>1
    <3>3. (a \o b)[j] = b[j - (i - 1)]
      BY <3>1, <1>1, <1>2, <1>3, <1>5
    <3> QED BY <3>1, <3>2, <3>3, <1>3, <1>4, <2>2
  <2> QED BY <2>1, <2>2
<1> QED BY <1>4, <1>5, <1>6, <1>7

\* Counting the entries equal to x: the number is finite, and not zero exactly
\* when x is in the queue.
LEMMA CopiesCount ==
    ASSUME NEW S, NEW q \in Seq(S), NEW x
    PROVE  /\ IsFiniteSet({i \in DOMAIN q : q[i] = x})
           /\ Copies(x, q) \in Nat
           /\ Copies(x, q) = 0 <=> ~InSeq(x, q)
<1> DEFINE P == {i \in DOMAIN q : q[i] = x}
<1>1. DOMAIN q = 1..Len(q) /\ Len(q) \in Nat
  BY LenProperties
<1>2. IsFiniteSet(DOMAIN q)
  BY <1>1, FS_Interval
<1>3. IsFiniteSet(P)
  BY <1>2, FS_Subset
<1>4. Cardinality(P) \in Nat /\ (Cardinality(P) = 0 <=> P = {})
  BY <1>3, FS_CardinalityType, FS_EmptySet
<1> QED BY <1>3, <1>4 DEF Copies, InSeq

LEMMA CopiesOfEmpty == \A x : Copies(x, << >>) = 0 /\ ~InSeq(x, << >>)
<1> SUFFICES ASSUME NEW x PROVE Copies(x, << >>) = 0 /\ ~InSeq(x, << >>)
  OBVIOUS
<1>1. << >> \in Seq({}) /\ DOMAIN << >> = {}
  OBVIOUS
<1>2. {i \in DOMAIN << >> : << >>[i] = x} = {}
  BY <1>1
<1> QED BY <1>1, <1>2, FS_EmptySet DEF Copies, InSeq

\* Append adds the entry to what the queue holds.
LEMMA CopiesOfAppend ==
    ASSUME NEW S, NEW q \in Seq(S), NEW e \in S, NEW x
    PROVE  /\ Copies(x, Append(q, e)) = Copies(x, q) + (IF e = x THEN 1 ELSE 0)
           /\ InSeq(x, Append(q, e)) <=> InSeq(x, q) \/ e = x
<1> DEFINE n == Len(q)
           P == {i \in DOMAIN q : q[i] = x}
           R == {i \in DOMAIN Append(q, e) : Append(q, e)[i] = x}
<1>1. /\ n \in Nat /\ DOMAIN q = 1..n /\ DOMAIN Append(q, e) = 1..(n + 1)
      /\ \A i \in 1..n : Append(q, e)[i] = q[i]
      /\ Append(q, e)[n + 1] = e
  BY LenProperties, AppendProperties
<1>2. IsFiniteSet(P) /\ Cardinality(P) \in Nat
  BY CopiesCount DEF Copies
<1>3. n + 1 \notin P
  BY <1>1
<1>4. CASE e = x
  <2>1. R = P \cup {n + 1}
    BY <1>1, <1>4
  <2>2. Cardinality(P \cup {n + 1}) = Cardinality(P) + 1
    BY <1>2, <1>3, FS_AddElement
  <2>3. Copies(x, Append(q, e)) = Copies(x, q) + 1
    BY <2>1, <2>2 DEF Copies
  <2>4. n + 1 \in DOMAIN Append(q, e) /\ Append(q, e)[n + 1] = x
    BY <1>1, <1>4
  <2> QED BY <2>3, <2>4, <1>4 DEF InSeq
<1>5. CASE e # x
  <2>1. R = P
    BY <1>1, <1>5
  <2>2. Copies(x, Append(q, e)) = Copies(x, q)
    BY <2>1 DEF Copies
  <2>3. Copies(x, q) \in Nat
    BY CopiesCount
  <2>4. InSeq(x, Append(q, e)) <=> InSeq(x, q)
    BY <2>1 DEF InSeq
  <2> QED BY <2>2, <2>3, <2>4, <1>5
<1> QED BY <1>4, <1>5

\* Tail takes the head away.
LEMMA CopiesOfTail ==
    ASSUME NEW S, NEW q \in Seq(S), q # << >>, NEW x
    PROVE  /\ Copies(x, q) = Copies(x, Tail(q)) + (IF Head(q) = x THEN 1 ELSE 0)
           /\ InSeq(x, q) <=> InSeq(x, Tail(q)) \/ Head(q) = x
<1> DEFINE t == Tail(q)
           P == {i \in DOMAIN t : t[i] = x}
           R == {i \in DOMAIN q : q[i] = x}
           T == R \ {1}
           f == [i \in P |-> i + 1]
<1>1. /\ Len(q) \in Nat \ {0} /\ DOMAIN q = 1..Len(q)
      /\ t \in Seq(S) /\ Len(t) = Len(q) - 1 /\ DOMAIN t = 1..(Len(q) - 1)
      /\ \A i \in 1..(Len(q) - 1) : t[i] = q[i + 1]
      /\ Head(q) = q[1]
  BY LenProperties, EmptySeq, HeadTailProperties
<1>2. IsFiniteSet(P) /\ IsFiniteSet(R) /\ Cardinality(P) \in Nat
  BY <1>1, CopiesCount DEF Copies
<1>3. Cardinality(T) = Cardinality(P)
  <2>1. f \in [P -> T]
    BY <1>1
  <2>2. \A i, j \in P : f[i] = f[j] => i = j
    BY <1>1
  <2>3. \A j \in T : \E i \in P : f[i] = j
    <3>1. ASSUME NEW j \in T PROVE j - 1 \in P /\ f[j - 1] = j
      <4>1. j - 1 \in 1..(Len(q) - 1) /\ (j - 1) + 1 = j /\ q[j] = x
        BY <1>1
      <4>2. j - 1 \in P
        BY <4>1, <1>1
      <4> QED BY <4>1, <4>2
    <3> QED BY <3>1
  <2>4. f \in Bijection(P, T)
    <3> HIDE DEF f, P, T
    <3>1. IsInjective(f)
      BY <2>1, <2>2 DEF IsInjective
    <3> QED BY <2>1, <2>3, <3>1 DEF Bijection, Injection, Surjection
  <2> HIDE DEF f, P, T
  <2>5. ExistsBijection(P, T)
    BY <2>4 DEF ExistsBijection
  <2> QED BY <2>5, <1>2, FS_Bijection
<1>4. Cardinality(T) = IF 1 \in R THEN Cardinality(R) - 1 ELSE Cardinality(R)
  BY <1>2, FS_RemoveElement
<1>5. 1 \in R <=> Head(q) = x
  BY <1>1
<1>6. Cardinality(R) \in Nat
  BY <1>2, FS_CardinalityType
<1>7. Copies(x, q) = Copies(x, t) + (IF Head(q) = x THEN 1 ELSE 0)
  <2>1. Copies(x, q) = Cardinality(R) /\ Copies(x, t) = Cardinality(P)
    BY DEF Copies
  <2> HIDE DEF P, R, T, t
  <2> QED BY <2>1, <1>2, <1>3, <1>4, <1>5, <1>6
<1>8. Copies(x, t) \in Nat /\ (Copies(x, t) = 0 <=> ~InSeq(x, t))
      /\ (Copies(x, q) = 0 <=> ~InSeq(x, q))
  BY <1>1, CopiesCount
<1> QED
  <2> HIDE DEF t
  <2> QED BY <1>7, <1>8 DEF t

\* Removing one entry loses no other and adds none.
LEMMA CopiesOfRemoveIndex ==
    ASSUME NEW S, NEW q \in Seq(S), NEW i \in 1..Len(q), NEW x
    PROVE  /\ Copies(x, RemoveIndex(q, i)) <= Copies(x, q)
           /\ InSeq(x, q) => InSeq(x, RemoveIndex(q, i)) \/ q[i] = x
<1> DEFINE t == RemoveIndex(q, i)
           P == {j \in DOMAIN t : t[j] = x}
           R == {j \in DOMAIN q : q[j] = x}
           f == [j \in P |-> IF j < i THEN j ELSE j + 1]
<1>1. /\ Len(q) \in Nat /\ DOMAIN q = 1..Len(q)
      /\ t \in Seq(S) /\ DOMAIN t = 1..(Len(q) - 1)
      /\ \A j \in 1..(Len(q) - 1) : t[j] = IF j < i THEN q[j] ELSE q[j + 1]
  BY LenProperties, RemoveIndexProperties
<1>2. IsFiniteSet(R)
  BY CopiesCount
<1>3. f \in [P -> R]
  <2>1. ASSUME NEW j \in P PROVE (IF j < i THEN j ELSE j + 1) \in R
    <3>1. j \in 1..(Len(q) - 1) /\ t[j] = x
      BY <1>1
    <3> HIDE DEF t
    <3> QED BY <3>1, <1>1
  <2> QED BY <2>1
<1>4. \A j, k \in P : f[j] = f[k] => j = k
  <2>1. \A j \in P : j \in Nat
    BY <1>1
  <2> HIDE DEF P
  <2> QED BY <2>1, <1>1
<1>5. IsInjective(f)
  <2> HIDE DEF f
  <2> QED BY <1>3, <1>4 DEF IsInjective
<1>6. Cardinality(P) <= Cardinality(R)
  <2>1. f \in Injection(P, R)
    <3> HIDE DEF f, P, R
    <3> QED BY <1>3, <1>5 DEF Injection
  <2> HIDE DEF f, P, R
  <2> QED BY <2>1, <1>2, FS_Injection
<1>7. ASSUME NEW k \in DOMAIN q, q[k] = x, q[i] # x PROVE InSeq(x, t)
  <2>1. CASE k < i
    <3>1. k \in DOMAIN t /\ t[k] = x
      BY <2>1, <1>1, <1>7
    <3> QED BY <3>1 DEF InSeq
  <2>2. CASE ~(k < i)
    <3>1. k # i
      BY <1>7
    <3>2. k - 1 \in 1..(Len(q) - 1) /\ ~(k - 1 < i) /\ (k - 1) + 1 = k
      BY <3>1, <2>2, <1>1
    <3>3. k - 1 \in DOMAIN t /\ t[k - 1] = x
      BY <3>2, <1>1, <1>7
    <3> QED BY <3>3 DEF InSeq
  <2> QED BY <2>1, <2>2
<1> QED BY <1>6, <1>7 DEF Copies, InSeq

\* pop_last takes the last entry away.
LEMMA PopLastProperties ==
    ASSUME NEW S, NEW q \in Seq(S)
    PROVE  /\ PopLast(q) \in Seq(S) /\ Len(PopLast(q)) <= Len(q)
           /\ q # << >> =>
                /\ q[Len(q)] \in S
                /\ \A x : /\ Copies(x, q) = Copies(x, PopLast(q))
                                            + (IF q[Len(q)] = x THEN 1 ELSE 0)
                          /\ InSeq(x, q) <=> InSeq(x, PopLast(q)) \/ q[Len(q)] = x
<1>1. CASE q = << >>
  <2>1. PopLast(q) = q /\ Len(q) \in Nat
    BY <1>1 DEF PopLast
  <2> QED BY <2>1, <1>1
<1>2. CASE q # << >>
  <2> DEFINE n == Len(q)
             t == SubSeq(q, 1, n - 1)
  <2>1. n \in Nat \ {0} /\ \A i \in 1..n : q[i] \in S
    BY <1>2, EmptySeq, ElementOfSeq
  <2>2. t \in Seq(S) /\ Len(t) = n - 1
    <3>1. \A i \in 1..(n - 1) : q[i] \in S
      BY <2>1
    <3>2. /\ SubSeq(q, 1, n - 1) \in Seq(S)
          /\ Len(SubSeq(q, 1, n - 1)) = IF 1 <= n - 1 THEN (n - 1) - 1 + 1 ELSE 0
      BY <3>1, <2>1, SubSeqProperties
    <3>3. \A k \in Nat : k > 0 =>
              (IF 1 <= k - 1 THEN (k - 1) - 1 + 1 ELSE 0) = k - 1
      OBVIOUS
    <3>4. n \in Nat /\ n > 0
      BY <2>1
    <3> HIDE DEF n
    <3> QED BY <3>2, <3>3, <3>4 DEF n
  <2>3. q[n] \in S
    BY <2>1
  <2>4. q = Append(t, q[n])
    <3>1. SubSeq(q, 1, n) = t \o <<q[n]>>
      BY <2>1, SubSeqRecursiveSecond
    <3>2. SubSeq(q, 1, n) = q
      BY SubSeqFull
    <3>3. Append(t, q[n]) = t \o <<q[n]>>
      BY <2>2, <2>3, AppendIsConcat
    <3> QED BY <3>1, <3>2, <3>3
  <2>5. PopLast(q) = t
    BY <1>2 DEF PopLast
  <2>6. ASSUME NEW x
        PROVE  /\ Copies(x, q) = Copies(x, t) + (IF q[n] = x THEN 1 ELSE 0)
               /\ InSeq(x, q) <=> InSeq(x, t) \/ q[n] = x
    <3> HIDE DEF t, n
    <3>1. /\ Copies(x, Append(t, q[n])) = Copies(x, t) + (IF q[n] = x THEN 1 ELSE 0)
          /\ InSeq(x, Append(t, q[n])) <=> InSeq(x, t) \/ q[n] = x
      BY <2>2, <2>3, CopiesOfAppend
    <3> QED BY <3>1, <2>4
  <2>7. Len(t) <= Len(q)
    BY <2>1, <2>2
  <2> QED BY <2>2, <2>3, <2>5, <2>6, <2>7
<1> QED BY <1>1, <1>2

\* push on a queue that accepts: the limit holds, and only the victim goes.
LEMMA PushedProperties ==
    ASSUME NEW S, NEW q \in Seq(S), NEW m \in S, Accepts(q), Len(q) <= Cap
    PROVE  /\ Pushed(q, m) \in Seq(S) /\ Len(Pushed(q, m)) <= Cap
           /\ Victims(q) \subseteq S
           /\ InSeq(m, Pushed(q, m))
           /\ \A x : /\ Copies(x, Pushed(q, m)) <= Copies(x, q) + (IF m = x THEN 1 ELSE 0)
                     /\ InSeq(x, q) => InSeq(x, Pushed(q, m)) \/ x \in Victims(q)
<1> DEFINE i == FirstChannel(q)
           t == IF Len(q) >= Cap THEN RemoveIndex(q, i) ELSE q
<1>1. Len(q) \in Nat /\ Cap \in Nat /\ Cap > 0
  BY LenProperties, InboxAssumption DEF Accepts
<1>2. /\ t \in Seq(S) /\ Len(t) <= Cap - 1
      /\ Victims(q) \subseteq S
      /\ \A x : /\ Copies(x, t) <= Copies(x, q)
                /\ InSeq(x, q) => InSeq(x, t) \/ x \in Victims(q)
  <2>1. CASE Len(q) >= Cap
    <3>1. HasChannel(q)
      BY <2>1, <1>1 DEF Accepts
    <3>2. i \in 1..Len(q)
      BY <3>1, FirstChannelIsThere
    <3>3. q[i] \in S
      BY <3>2, ElementOfSeq
    <3> HIDE DEF i
    <3>4. RemoveIndex(q, i) \in Seq(S) /\ Len(RemoveIndex(q, i)) = Len(q) - 1
      BY <3>2, RemoveIndexProperties
    <3>5. \A x : /\ Copies(x, RemoveIndex(q, i)) <= Copies(x, q)
                 /\ InSeq(x, q) => InSeq(x, RemoveIndex(q, i)) \/ q[i] = x
      BY <3>2, CopiesOfRemoveIndex
    <3>6. Victims(q) = {q[i]}
      BY <2>1 DEF Victims, i
    <3> QED BY <2>1, <1>1, <3>3, <3>4, <3>5, <3>6
  <2>2. CASE ~(Len(q) >= Cap)
    <3>1. \A x : Copies(x, q) \in Nat
      BY CopiesCount
    <3>2. \A x : Copies(x, q) <= Copies(x, q)
      BY <3>1
    <3> QED BY <2>2, <1>1, <3>2 DEF Victims
  <2> QED BY <2>1, <2>2
<1>3. Pushed(q, m) = Append(t, m)
  BY DEF Pushed
<1> HIDE DEF t
<1>4. Append(t, m) \in Seq(S) /\ Len(Append(t, m)) <= Cap
  <2>1. Append(t, m) \in Seq(S) /\ Len(Append(t, m)) = Len(t) + 1 /\ Len(t) \in Nat
    BY <1>2, AppendProperties, LenProperties
  <2> QED BY <2>1, <1>1, <1>2
<1>5. ASSUME NEW x
      PROVE  /\ Copies(x, Append(t, m)) <= Copies(x, q) + (IF m = x THEN 1 ELSE 0)
             /\ InSeq(x, q) => InSeq(x, Append(t, m)) \/ x \in Victims(q)
             /\ InSeq(m, Append(t, m))
  <2>1. /\ Copies(x, Append(t, m)) = Copies(x, t) + (IF m = x THEN 1 ELSE 0)
        /\ InSeq(x, Append(t, m)) <=> InSeq(x, t) \/ m = x
        /\ InSeq(m, Append(t, m))
    BY <1>2, CopiesOfAppend
  <2>2. Copies(x, t) \in Nat /\ Copies(x, q) \in Nat
    BY <1>2, CopiesCount
  <2> QED BY <2>1, <2>2, <1>2
<1> QED BY <1>2, <1>3, <1>4, <1>5

-----------------------------------------------------------------------------
(* CompanionInbox: types and limits.                                         *)

\* The sync command holds a row only between its thread and its answer.
RowOnlyOnResume == sync # "resume" => popped = NoMsg

Bounded == InboxTypeOK /\ RetentionLimit /\ RowOnlyOnResume

\* What _enqueue_frame does to the write queue.
LEMMA EnqueueProperties ==
    ASSUME Bounded, NEW f \in Frames, Enqueue(f)
    PROVE  /\ out' \in Seq(Frames) /\ Len(out') <= OutMax
           /\ \A x : /\ Copies(x, out') = Copies(x, out)
                                          + (IF Writable /\ f = x THEN 1 ELSE 0)
                     /\ InSeq(x, out) => InSeq(x, out')
           /\ Writable => InSeq(f, out')
<1>1. out \in Seq(Frames) /\ Len(out) \in Nat /\ OutMax \in Nat /\ Len(out) <= OutMax
  BY LenProperties, InboxAssumption DEF Bounded, InboxTypeOK, RetentionLimit
<1>2. CASE Writable
  <2>1. out' = Append(out, f) /\ Len(out) < OutMax
    BY <1>2 DEF Enqueue, Writable
  <2>2. Append(out, f) \in Seq(Frames) /\ Len(Append(out, f)) = Len(out) + 1
    BY <1>1, AppendProperties
  <2>3. \A x : /\ Copies(x, Append(out, f)) = Copies(x, out) + (IF f = x THEN 1 ELSE 0)
               /\ InSeq(x, Append(out, f)) <=> InSeq(x, out) \/ f = x
    BY <1>1, CopiesOfAppend
  <2>4. Len(out') <= OutMax
    BY <1>1, <2>1, <2>2
  <2> QED BY <1>2, <2>1, <2>2, <2>3, <2>4
<1>3. CASE ~Writable
  <2>1. out' = out
    BY <1>3 DEF Enqueue
  <2>2. \A x : Copies(x, out) \in Nat
    BY <1>1, CopiesCount
  <2>3. \A x : Copies(x, out) = Copies(x, out) + 0
    BY <2>2
  <2> QED BY <1>1, <1>3, <2>1, <2>3
<1> QED BY <1>2, <1>3

LEMMA FrameFacts ==
    /\ Waiting \in Frames /\ NoMore \in Frames
    /\ \A m \in Msgs : Frame(m) \in Frames /\ Frame(m) # Waiting /\ Frame(m) # NoMore
    /\ \A m, n \in Msgs : Frame(m) = Frame(n) => m = n
    /\ \A f \in Frames, m \in Msgs : f.msg = m <=> f = Frame(m)
<1>1. \A m, n : Frame(m) = Frame(n) => m = n
  BY DEF Frame
<1>2. \A m : Frame(m) # Waiting /\ Frame(m) # NoMore /\ Frame(m).msg = m
  BY DEF Frame, Waiting, NoMore
<1>3. Waiting.msg = NoMsg /\ NoMore.msg = NoMsg
  BY DEF Waiting, NoMore
<1>4. ASSUME NEW f \in Frames, NEW m \in Msgs PROVE f.msg = m <=> f = Frame(m)
  <2>1. f = Waiting \/ f = NoMore \/ \E n \in Msgs : f = Frame(n)
    BY DEF Frames
  <2> QED BY <2>1, <1>2, <1>3, InboxAssumption
<1> QED BY <1>1, <1>2, <1>4 DEF Frames

\* The types and the limits hold from the beginning and every step keeps them.
LEMMA BoundedInit == InboxInit => Bounded
<1> SUFFICES ASSUME InboxInit PROVE Bounded
  OBVIOUS
<1>1. << >> \in Seq(Msgs) /\ << >> \in Seq(Frames) /\ Len(<< >>) = 0
  OBVIOUS
<1>2. InboxTypeOK
  BY <1>1 DEF InboxInit, InboxTypeOK
<1>3. RetentionLimit /\ RowOnlyOnResume
  BY <1>1, InboxAssumption DEF InboxInit, RetentionLimit, RowOnlyOnResume
<1> QED BY <1>2, <1>3 DEF Bounded

LEMMA BoundedStep == Bounded /\ [InboxNext]_inboxVars => Bounded'
<1> SUFFICES ASSUME Bounded, [InboxNext]_inboxVars PROVE Bounded'
  OBVIOUS
<1> USE FrameFacts
<1>0. /\ InboxTypeOK /\ Len(mem) <= Cap /\ Len(db) <= Cap /\ Len(out) <= OutMax
      /\ Cap \in Nat /\ RowOnlyOnResume
  BY InboxAssumption DEF Bounded, RetentionLimit
<1> USE DEF InboxTypeOK, RetentionLimit, RowOnlyOnResume, inboxHistory
<1>1. ASSUME NEW m \in Msgs, ArriveQueued(m) PROVE Bounded'
  <2>1. /\ mem' \in Seq(Msgs) /\ Len(mem') <= Cap /\ Victims(mem) \subseteq Msgs
    BY <1>0, <1>1, PushedProperties DEF ArriveQueued
  <2>2. out' \in Seq(Frames) /\ Len(out') <= OutMax
    <3>1. CASE Enqueue(Waiting)
      BY <3>1, EnqueueProperties
    <3>2. CASE UNCHANGED out
      BY <3>2, <1>0
    <3> QED BY <1>1, <3>1, <3>2 DEF ArriveQueued
  <2>3. task' \in [Msgs -> {"new", "persist", "stored", "refused", "done", "kept", "rejected"}]
    BY <1>0, <1>1 DEF ArriveQueued
  <2> QED BY <1>0, <1>1, <2>1, <2>2, <2>3 DEF ArriveQueued, Bounded
<1>2. ASSUME NEW m \in Msgs, ArriveRejected(m) \/ AfterRefusal(m) PROVE Bounded'
  <2>1. Enqueue(Waiting)
    BY <1>2 DEF ArriveRejected, AfterRefusal
  <2>2. out' \in Seq(Frames) /\ Len(out') <= OutMax
    BY <2>1, EnqueueProperties
  <2> QED BY <1>0, <1>2, <2>2 DEF ArriveRejected, AfterRefusal, Bounded
<1>3. ASSUME NEW m \in Msgs, StoreRow(m) PROVE Bounded'
  <2>1. /\ db' \in Seq(Msgs) /\ Len(db') <= Cap /\ Victims(db) \subseteq Msgs
    BY <1>0, <1>3, PushedProperties DEF StoreRow
  <2> QED BY <1>0, <1>3, <2>1 DEF StoreRow, Bounded
<1>4. ASSUME NEW m \in Msgs, RefuseRow(m) PROVE Bounded'
  BY <1>0, <1>4 DEF RefuseRow, Bounded
<1>5. ASSUME NEW m \in Msgs, AfterStore(m) PROVE Bounded'
  <2>1. mem' \in Seq(Msgs) /\ Len(mem') <= Len(mem) /\ (mem # << >> => mem[Len(mem)] \in Msgs)
    BY <1>0, <1>5, PopLastProperties DEF AfterStore
  <2>2. Len(mem') <= Cap
    BY <1>0, <2>1, LenProperties
  <2>3. out' \in Seq(Frames) /\ Len(out') <= OutMax
    BY <1>5, EnqueueProperties DEF AfterStore
  <2>4. wronged' \subseteq Msgs /\ raced' \subseteq Msgs
    BY <1>0, <1>5, <2>1 DEF AfterStore
  <2> QED BY <1>0, <1>5, <2>1, <2>2, <2>3, <2>4 DEF AfterStore, Bounded
<1>6. CASE SyncFromMemory
  <2>1. Head(mem) \in Msgs /\ Tail(mem) \in Seq(Msgs) /\ Len(Tail(mem)) = Len(mem) - 1
    BY <1>0, <1>6, HeadTailProperties DEF SyncFromMemory
  <2>2. Len(Tail(mem)) <= Cap
    BY <1>0, <2>1, LenProperties
  <2>3. out' \in Seq(Frames) /\ Len(out') <= OutMax /\ shed' \subseteq Msgs
    BY <1>0, <1>6, <2>1, EnqueueProperties DEF SyncFromMemory, Send
  <2> QED BY <1>0, <1>6, <2>1, <2>2, <2>3 DEF SyncFromMemory, Bounded
<1>7. CASE SyncAskDatabase
  BY <1>0, <1>7 DEF SyncAskDatabase, Bounded
<1>8. CASE FetchRow
  <2>1. CASE db = << >>
    BY <1>0, <1>8, <2>1 DEF FetchRow, Bounded
  <2>2. CASE db # << >>
    <3>1. Head(db) \in Msgs /\ Tail(db) \in Seq(Msgs) /\ Len(Tail(db)) = Len(db) - 1
      BY <1>0, <2>2, HeadTailProperties
    <3>2. Len(Tail(db)) <= Cap
      BY <1>0, <3>1, LenProperties
    <3> QED BY <1>0, <1>8, <2>2, <3>1, <3>2 DEF FetchRow, Bounded
  <2> QED BY <2>1, <2>2
<1>9. CASE SyncAnswer
  <2>1. /\ out' \in Seq(Frames) /\ Len(out') <= OutMax
        /\ shed' \subseteq Msgs
    <3>1. CASE popped = NoMsg
      BY <1>0, <1>9, <3>1, EnqueueProperties DEF SyncAnswer
    <3>2. CASE popped # NoMsg
      <4>1. popped \in Msgs /\ Frame(popped) \in Frames
        BY <1>0, <3>2
      <4> QED BY <1>0, <1>9, <3>2, <4>1, EnqueueProperties DEF SyncAnswer, Send
    <3> QED BY <3>1, <3>2
  <2> QED BY <1>0, <1>9, <2>1 DEF SyncAnswer, Bounded
<1>10. CASE Connect
  BY <1>0, <1>10 DEF Connect, Bounded
<1>11. CASE Disconnect
  <2>1. << >> \in Seq(Frames) /\ Len(<< >>) <= OutMax
    BY InboxAssumption
  <2> QED BY <1>0, <1>11, <2>1 DEF Disconnect, Bounded
<1>12. CASE ClientReads
  <2>1. out' \in Seq(Frames) /\ Len(out') = Len(out) - 1
    BY <1>0, <1>12, HeadTailProperties DEF ClientReads
  <2>2. Len(out') <= OutMax
    BY <1>0, <2>1, LenProperties, InboxAssumption
  <2>3. delivered' \in [Msgs -> Nat]
    BY <1>0, <1>12 DEF ClientReads
  <2> QED BY <1>0, <1>12, <2>1, <2>2, <2>3 DEF ClientReads, Bounded
<1>13. CASE UNCHANGED inboxVars
  BY <1>0, <1>13 DEF inboxVars, Bounded
<1> QED
  BY <1>1, <1>2, <1>3, <1>4, <1>5, <1>6, <1>7, <1>8, <1>9, <1>10, <1>11, <1>12, <1>13
     DEF InboxNext, Handler

LEMMA BoundedCorrect == InboxSpec => []Bounded
  BY BoundedInit, BoundedStep, PTL DEF InboxSpec

\* Every variable keeps its type: the queues hold messages and frames only,
\* whatever the order of handlers, threads and sync commands.
THEOREM InboxTypeCorrect == InboxSpec => []InboxTypeOK
  <1>1. Bounded => InboxTypeOK
    BY DEF Bounded
  <1> QED BY <1>1, BoundedCorrect, PTL

\* The memory queue and SQLite keep to the offline limit and the write queue to
\* its size, for every limit and any number of messages.
THEOREM LimitCorrect == InboxSpec => []RetentionLimit
  <1>1. Bounded => RetentionLimit
    BY DEF Bounded
  <1> QED BY <1>1, BoundedCorrect, PTL

-----------------------------------------------------------------------------
(* CompanionInbox: how many copies of a message there are.                   *)

\* The parts of CopyCount are numbers.
LEMMA CountParts ==
    ASSUME Bounded, NEW m \in Msgs
    PROVE  /\ delivered[m] \in Nat /\ Copies(m, mem) \in Nat /\ Copies(m, db) \in Nat
           /\ Copies(Frame(m), out) \in Nat
           /\ CopyCount(m) \in Nat
<1>1. /\ delivered[m] \in Nat /\ Copies(m, mem) \in Nat /\ Copies(m, db) \in Nat
      /\ Copies(Frame(m), out) \in Nat
  BY CopiesCount DEF Bounded, InboxTypeOK
<1> QED BY <1>1 DEF CopyCount, Unread

\* What a step does to the copies of m, and what it does to m's handler.
Stays(m) == task'[m] = task[m] /\ CopyCount(m)' <= CopyCount(m)
Makes(m) ==
    /\ <<task[m], task'[m]>> \in {<<"new", "persist">>, <<"new", "kept">>,
                                  <<"persist", "stored">>}
    /\ CopyCount(m)' <= CopyCount(m) + 1
Moves(m) ==
    /\ <<task[m], task'[m]>> \in {<<"new", "rejected">>, <<"persist", "refused">>,
                                  <<"refused", "kept">>}
    /\ CopyCount(m)' <= CopyCount(m)
Completes(m) ==
    /\ task[m] = "stored" /\ task'[m] = "done"
    /\ CopyCount(m)' <= CopyCount(m)
    /\ m \in raced' \/ CopyCount(m)' < CopyCount(m)

LEMMA CountStep ==
    ASSUME Bounded, [InboxNext]_inboxVars, NEW m \in Msgs
    PROVE  /\ Stays(m) \/ Makes(m) \/ Moves(m) \/ Completes(m)
           /\ raced \subseteq raced'
<1>0. InboxTypeOK /\ Len(mem) <= Cap /\ Len(db) <= Cap /\ RowOnlyOnResume
  BY DEF Bounded, RetentionLimit
<1> USE DEF inboxHistory
<1>n. /\ delivered[m] \in Nat /\ Copies(m, mem) \in Nat /\ Copies(m, db) \in Nat
      /\ Copies(Frame(m), out) \in Nat
  BY CountParts
<1>p. /\ Bounded'
      /\ delivered'[m] \in Nat /\ Copies(m, mem') \in Nat /\ Copies(m, db') \in Nat
      /\ Copies(Frame(m), out') \in Nat
  <2>1. Bounded'
    BY BoundedStep
  <2> QED BY <2>1, CopiesCount DEF Bounded, InboxTypeOK
\* A message that is written to the client is one of the frames, any other
\* frame is none of m.
<1>w. ASSUME Enqueue(Waiting) \/ Enqueue(NoMore)
      PROVE  Copies(Frame(m), out') = Copies(Frame(m), out)
  BY <1>n, <1>w, FrameFacts, EnqueueProperties
<1>f. ASSUME NEW n \in Msgs, Enqueue(Frame(n))
      PROVE  Copies(Frame(m), out') <= Copies(Frame(m), out) + (IF n = m THEN 1 ELSE 0)
  <2>1. Frame(n) \in Frames /\ (Frame(n) = Frame(m) => n = m)
    BY FrameFacts
  <2>2. Copies(Frame(m), out') = Copies(Frame(m), out)
                                 + (IF Writable /\ Frame(n) = Frame(m) THEN 1 ELSE 0)
    BY <1>f, <2>1, EnqueueProperties
  <2> QED BY <1>n, <2>1, <2>2
<1>1. ASSUME NEW n \in Msgs, ArriveQueued(n)
      PROVE  (Stays(m) \/ Makes(m)) /\ raced' = raced
  <2>1. Copies(m, mem') <= Copies(m, mem) + (IF n = m THEN 1 ELSE 0)
    BY <1>0, <1>1, PushedProperties DEF ArriveQueued, InboxTypeOK
  <2>2. Copies(Frame(m), out') = Copies(Frame(m), out)
    BY <1>1, <1>w DEF ArriveQueued
  <2>3. CopyCount(m)' <= CopyCount(m) + (IF n = m THEN 1 ELSE 0)
    BY <1>1, <2>1, <2>2, <1>n, <1>p DEF ArriveQueued, CopyCount, Unread
  <2>4. CopyCount(m) \in Nat
    BY CountParts
  <2>5. CASE n = m
    <3>1. <<task[m], task'[m]>> \in {<<"new", "persist">>, <<"new", "kept">>}
      BY <1>0, <1>1, <2>5 DEF ArriveQueued, InboxTypeOK
    <3> QED BY <1>1, <2>3, <2>5, <3>1 DEF Makes, ArriveQueued
  <2>6. CASE n # m
    <3>1. task'[m] = task[m]
      BY <1>0, <1>1, <2>6 DEF ArriveQueued, InboxTypeOK
    <3>2. CopyCount(m)' <= CopyCount(m) + 0
      BY <2>3, <2>6
    <3> QED BY <1>1, <2>4, <3>1, <3>2 DEF Stays, ArriveQueued, CopyCount, Unread
  <2> QED BY <2>5, <2>6
<1>2. ASSUME NEW n \in Msgs, ArriveRejected(n) \/ RefuseRow(n) \/ AfterRefusal(n)
      PROVE  (Stays(m) \/ Moves(m)) /\ raced' = raced
  <2>1. Copies(Frame(m), out') = Copies(Frame(m), out)
    BY <1>2, <1>w DEF ArriveRejected, RefuseRow, AfterRefusal
  <2>2. CopyCount(m)' = CopyCount(m)
    BY <1>2, <2>1 DEF ArriveRejected, RefuseRow, AfterRefusal, CopyCount, Unread
  <2>3. CopyCount(m)' <= CopyCount(m)
    BY <2>2, CountParts
  <2>4. \/ task'[m] = task[m]
        \/ <<task[m], task'[m]>> \in {<<"new", "rejected">>, <<"persist", "refused">>,
                                      <<"refused", "kept">>}
    BY <1>0, <1>2 DEF ArriveRejected, RefuseRow, AfterRefusal, InboxTypeOK
  <2> QED BY <1>2, <2>3, <2>4 DEF ArriveRejected, RefuseRow, AfterRefusal, Stays, Moves
<1>3. ASSUME NEW n \in Msgs, StoreRow(n)
      PROVE  (Stays(m) \/ Makes(m)) /\ raced' = raced
  <2>1. Copies(m, db') <= Copies(m, db) + (IF n = m THEN 1 ELSE 0)
    BY <1>0, <1>3, PushedProperties DEF StoreRow, InboxTypeOK
  <2>3. CopyCount(m)' <= CopyCount(m) + (IF n = m THEN 1 ELSE 0)
    BY <1>3, <2>1, <1>n, <1>p DEF StoreRow, CopyCount, Unread
  <2>4. CopyCount(m) \in Nat
    BY CountParts
  <2>5. CASE n = m
    <3>1. <<task[m], task'[m]>> = <<"persist", "stored">>
      BY <1>0, <1>3, <2>5 DEF StoreRow, InboxTypeOK
    <3> QED BY <1>3, <2>3, <2>5, <3>1 DEF Makes, StoreRow
  <2>6. CASE n # m
    <3>1. task'[m] = task[m]
      BY <1>0, <1>3, <2>6 DEF StoreRow, InboxTypeOK
    <3>2. CopyCount(m)' <= CopyCount(m) + 0
      BY <2>3, <2>6
    <3> QED BY <1>3, <2>4, <3>1, <3>2 DEF Stays, StoreRow, CopyCount, Unread
  <2> QED BY <2>5, <2>6
<1>4. ASSUME NEW n \in Msgs, AfterStore(n)
      PROVE  (Stays(m) \/ Completes(m)) /\ raced \subseteq raced'
  <2>1. Copies(Frame(m), out') = Copies(Frame(m), out)
    BY <1>4, <1>w DEF AfterStore
  <2>2. raced \subseteq raced'
    BY <1>4 DEF AfterStore
  <2>3. Copies(m, mem') <= Copies(m, mem)
        /\ (mem # << >> /\ mem[Len(mem)] = m => Copies(m, mem') < Copies(m, mem))
    <3>1. CASE mem = << >>
      BY <1>4, <3>1, <1>n DEF AfterStore, PopLast
    <3>2. CASE mem # << >>
      <4>1. Copies(m, mem) = Copies(m, mem') + (IF mem[Len(mem)] = m THEN 1 ELSE 0)
        BY <1>0, <1>4, <3>2, PopLastProperties DEF AfterStore, InboxTypeOK
      <4> QED BY <4>1, <1>n, <1>p
    <3> QED BY <3>1, <3>2
  <2>4. CopyCount(m)' <= CopyCount(m)
    BY <1>4, <2>1, <2>3, <1>n, <1>p DEF AfterStore, CopyCount, Unread
  <2>5. CASE n = m
    <3>1. task[m] = "stored" /\ task'[m] = "done"
      BY <1>0, <1>4, <2>5 DEF AfterStore, InboxTypeOK
    <3>2. m \in raced' \/ (mem # << >> /\ mem[Len(mem)] = m)
      BY <1>4, <2>5 DEF AfterStore
    <3>3. mem # << >> /\ mem[Len(mem)] = m => CopyCount(m)' < CopyCount(m)
      BY <1>4, <2>1, <2>3, <1>n, <1>p DEF AfterStore, CopyCount, Unread
    <3> QED BY <2>2, <2>4, <3>1, <3>2, <3>3 DEF Completes
  <2>6. CASE n # m
    <3>1. task'[m] = task[m]
      BY <1>0, <1>4, <2>6 DEF AfterStore, InboxTypeOK
    <3> QED BY <2>2, <2>4, <3>1 DEF Stays
  <2> QED BY <2>5, <2>6
<1>5. CASE SyncFromMemory
  <2>1. Head(mem) \in Msgs
    BY <1>0, <1>5, HeadTailProperties DEF SyncFromMemory, InboxTypeOK
  <2>2. Copies(m, mem) = Copies(m, mem') + (IF Head(mem) = m THEN 1 ELSE 0)
    BY <1>0, <1>5, CopiesOfTail DEF SyncFromMemory, InboxTypeOK
  <2>3. Copies(Frame(m), out') <= Copies(Frame(m), out) + (IF Head(mem) = m THEN 1 ELSE 0)
    BY <1>5, <2>1, <1>f DEF SyncFromMemory, Send
  <2>4. CopyCount(m)' <= CopyCount(m)
    BY <1>5, <2>2, <2>3, <1>n, <1>p DEF SyncFromMemory, CopyCount, Unread
  <2> QED BY <1>5, <2>4 DEF SyncFromMemory, Stays
<1>6. CASE FetchRow
  <2>1. popped = NoMsg /\ NoMsg # m
    BY <1>0, <1>6, InboxAssumption DEF FetchRow, RowOnlyOnResume
  <2>2. CASE db = << >>
    <3>1. CopyCount(m)' = CopyCount(m)
      BY <1>6, <2>2 DEF FetchRow, CopyCount, Unread
    <3> QED BY <1>6, <3>1, CountParts DEF FetchRow, Stays
  <2>3. CASE db # << >>
    <3>1. Copies(m, db) = Copies(m, db') + (IF popped' = m THEN 1 ELSE 0)
      <4>1. db' = Tail(db) /\ popped' = Head(db)
        BY <1>6, <2>3 DEF FetchRow
      <4>2. Copies(m, db) = Copies(m, Tail(db)) + (IF Head(db) = m THEN 1 ELSE 0)
        BY <1>0, <2>3, CopiesOfTail DEF InboxTypeOK
      <4> QED BY <4>1, <4>2
    <3>2. CopyCount(m)' <= CopyCount(m)
      BY <1>6, <2>1, <3>1, <1>n, <1>p DEF FetchRow, CopyCount, Unread
    <3> QED BY <1>6, <3>2 DEF FetchRow, Stays
  <2> QED BY <2>2, <2>3
<1>7. CASE SyncAnswer
  <2>1. popped' = NoMsg /\ NoMsg # m
    BY <1>7, InboxAssumption DEF SyncAnswer
  <2>2. Copies(Frame(m), out') <= Copies(Frame(m), out) + (IF popped = m THEN 1 ELSE 0)
    <3>1. CASE popped = NoMsg
      <4>1. Copies(Frame(m), out') = Copies(Frame(m), out)
        BY <1>7, <3>1, <1>w DEF SyncAnswer
      <4> QED BY <4>1, <3>1, <2>1, <1>n
    <3>2. CASE popped # NoMsg
      <4>1. popped \in Msgs
        BY <1>0, <3>2 DEF InboxTypeOK
      <4> QED BY <1>7, <3>2, <4>1, <1>f DEF SyncAnswer, Send
    <3> QED BY <3>1, <3>2
  <2>3. CopyCount(m)' <= CopyCount(m)
    BY <1>7, <2>1, <2>2, <1>n, <1>p DEF SyncAnswer, CopyCount, Unread
  <2> QED BY <1>7, <2>3 DEF SyncAnswer, Stays
<1>8. CASE SyncAskDatabase \/ Connect
  <2>1. CopyCount(m)' = CopyCount(m)
    BY <1>8 DEF SyncAskDatabase, Connect, CopyCount, Unread
  <2> QED BY <1>8, <2>1, CountParts DEF SyncAskDatabase, Connect, Stays
<1>9. CASE Disconnect
  <2>1. Copies(Frame(m), out') = 0
    BY <1>9, CopiesOfEmpty DEF Disconnect
  <2>2. CopyCount(m)' <= CopyCount(m)
    BY <1>9, <2>1, <1>n DEF Disconnect, CopyCount, Unread
  <2> QED BY <1>9, <2>2 DEF Disconnect, Stays
<1>10. CASE ClientReads
  <2>1. Head(out) \in Frames
    BY <1>0, <1>10, HeadTailProperties DEF ClientReads, InboxTypeOK
  <2>2. Head(out).msg = m <=> Head(out) = Frame(m)
    BY <2>1, FrameFacts
  <2>3. Copies(Frame(m), out) = Copies(Frame(m), out')
                                + (IF Head(out) = Frame(m) THEN 1 ELSE 0)
    BY <1>0, <1>10, CopiesOfTail DEF ClientReads, InboxTypeOK
  <2>4. delivered'[m] = delivered[m] + (IF Head(out) = Frame(m) THEN 1 ELSE 0)
    BY <1>10, <2>2, <1>n DEF ClientReads
  <2>5. CopyCount(m)' <= CopyCount(m)
    BY <1>10, <2>3, <2>4, <1>n, <1>p DEF ClientReads, CopyCount, Unread
  <2> QED BY <1>10, <2>5 DEF ClientReads, Stays
<1>11. CASE UNCHANGED inboxVars
  <2>1. CopyCount(m)' = CopyCount(m)
    BY <1>11 DEF inboxVars, CopyCount, Unread
  <2> QED BY <1>11, <2>1, CountParts DEF inboxVars, Stays
<1> QED
  BY <1>1, <1>2, <1>3, <1>4, <1>5, <1>6, <1>7, <1>8, <1>9, <1>10, <1>11
     DEF InboxNext, Handler

\* Where a handler is says how many copies its message may have.
Counted(m) ==
    /\ task[m] \in {"new", "rejected"} => CopyCount(m) = 0
    /\ task[m] \in {"persist", "refused", "kept"} => CopyCount(m) <= 1
    /\ CopyCount(m) <= 2
    /\ task[m] = "done" /\ m \notin raced => CopyCount(m) <= 1

LEMMA CountedInit == InboxInit => \A m \in Msgs : Counted(m)
<1> SUFFICES ASSUME InboxInit, NEW m \in Msgs PROVE Counted(m)
  OBVIOUS
<1>1. Copies(m, mem) = 0 /\ Copies(m, db) = 0 /\ Copies(Frame(m), out) = 0
  BY CopiesOfEmpty DEF InboxInit
<1>2. CopyCount(m) = 0
  BY <1>1, InboxAssumption DEF InboxInit, CopyCount, Unread
<1> QED BY <1>2 DEF InboxInit, Counted

LEMMA CountedStep ==
    Bounded /\ (\A m \in Msgs : Counted(m)) /\ [InboxNext]_inboxVars
        => (\A m \in Msgs : Counted(m))'
<1> SUFFICES ASSUME Bounded, [InboxNext]_inboxVars, NEW m \in Msgs, Counted(m)
             PROVE  Counted(m)'
  OBVIOUS
<1>1. CopyCount(m) \in Nat /\ CopyCount(m)' \in Nat
  <2>1. Bounded'
    BY BoundedStep
  <2>2. CopyCount(m)' \in Nat
    <3>1. /\ delivered'[m] \in Nat /\ Copies(m, mem') \in Nat /\ Copies(m, db') \in Nat
          /\ Copies(Frame(m), out') \in Nat
      BY <2>1, CopiesCount DEF Bounded, InboxTypeOK
    <3> QED BY <3>1 DEF CopyCount, Unread
  <2> QED BY <2>2, CountParts
<1>2. raced \subseteq raced'
  BY CountStep
<1>3. CASE Stays(m)
  BY <1>1, <1>2, <1>3 DEF Stays, Counted
<1>4. CASE Makes(m)
  BY <1>1, <1>4 DEF Makes, Counted
<1>5. CASE Moves(m)
  BY <1>1, <1>5 DEF Moves, Counted
<1>6. CASE Completes(m)
  BY <1>1, <1>6 DEF Completes, Counted
<1> QED
  BY <1>3, <1>4, <1>5, <1>6, CountStep

\* A message exists twice only between its store and its pop or after a
\* completion that popped another entry, and never three times.
THEOREM DuplicateCorrect == InboxSpec => []DuplicateNeedsRace
<1> DEFINE Inv == Bounded /\ \A m \in Msgs : Counted(m)
<1>1. InboxInit => Inv
  BY BoundedInit, CountedInit
<1>2. Inv /\ [InboxNext]_inboxVars => Inv'
  BY BoundedStep, CountedStep
<1>3. Inv => DuplicateNeedsRace
  <2> SUFFICES ASSUME Bounded, NEW m \in Msgs, Counted(m)
               PROVE  /\ CopyCount(m) <= 2
                      /\ CopyCount(m) = 2 => task[m] = "stored" \/ m \in raced
    BY DEF DuplicateNeedsRace
  <2>1. task[m] \in {"new", "persist", "stored", "refused", "done", "kept", "rejected"}
    BY DEF Bounded, InboxTypeOK
  <2> QED BY <2>1 DEF Counted
<1> HIDE DEF Inv
<1> QED BY <1>1, <1>2, <1>3, PTL DEF InboxSpec

-----------------------------------------------------------------------------
(* CompanionInbox: where a message is.                                       *)

\* Somewhere other than the memory queue, or gone for a reason of its own.
Kept(m) ==
    \/ InSeq(m, db) \/ InSeq(Frame(m), out) \/ popped = m
    \/ delivered[m] > 0 \/ m \in shed

Traceable(m) ==
    /\ task[m] \in {"stored", "done"} => Kept(m)
    /\ task[m] \in {"persist", "refused", "kept"} =>
         InSeq(m, mem) \/ Kept(m) \/ m \in wronged

\* What is kept stays kept; what leaves the memory queue is kept, or popped by a
\* completion: its own, after the store, or another's.
LEMMA KeptStep ==
    ASSUME Bounded, [InboxNext]_inboxVars, NEW m \in Msgs
    PROVE  /\ Kept(m) => Kept(m)'
           /\ InSeq(m, mem) => \/ InSeq(m, mem')
                               \/ Kept(m)'
                               \/ m \in wronged'
                               \/ task[m] = "stored"
           /\ wronged \subseteq wronged'
<1>0. InboxTypeOK /\ Len(mem) <= Cap /\ Len(db) <= Cap /\ RowOnlyOnResume
  BY DEF Bounded, RetentionLimit
<1> USE DEF inboxHistory
<1>e. ASSUME NEW f \in Frames, Enqueue(f), InSeq(Frame(m), out) PROVE InSeq(Frame(m), out')
  BY <1>e, EnqueueProperties
<1>s. ASSUME NEW n \in Msgs, Send(n) PROVE InSeq(Frame(n), out') \/ n \in shed'
  BY <1>s, FrameFacts, EnqueueProperties DEF Send
<1>t. ASSUME NEW n \in Msgs, Send(n)
      PROVE  shed \subseteq shed' /\ (InSeq(Frame(m), out) => InSeq(Frame(m), out'))
  BY <1>t, <1>e, FrameFacts DEF Send
<1>1. ASSUME NEW n \in Msgs, ArriveQueued(n)
      PROVE  /\ Kept(m) => Kept(m)'
             /\ InSeq(m, mem) => InSeq(m, mem') \/ Kept(m)'
             /\ wronged \subseteq wronged'
  <2>1. InSeq(m, mem) => InSeq(m, mem') \/ m \in shed'
    BY <1>0, <1>1, PushedProperties DEF ArriveQueued, InboxTypeOK
  <2>2. InSeq(Frame(m), out) => InSeq(Frame(m), out')
    BY <1>1, <1>e, FrameFacts DEF ArriveQueued
  <2> QED BY <1>1, <2>1, <2>2 DEF ArriveQueued, Kept
<1>2. ASSUME NEW n \in Msgs, ArriveRejected(n) \/ RefuseRow(n) \/ AfterRefusal(n)
      PROVE  /\ Kept(m) => Kept(m)'
             /\ mem' = mem /\ wronged' = wronged
  <2>1. InSeq(Frame(m), out) => InSeq(Frame(m), out')
    BY <1>2, <1>e, FrameFacts DEF ArriveRejected, RefuseRow, AfterRefusal
  <2> QED BY <1>2, <2>1 DEF ArriveRejected, RefuseRow, AfterRefusal, Kept
<1>3. ASSUME NEW n \in Msgs, StoreRow(n)
      PROVE  /\ Kept(m) => Kept(m)'
             /\ mem' = mem /\ wronged' = wronged
  <2>1. InSeq(m, db) => InSeq(m, db') \/ m \in shed'
    BY <1>0, <1>3, PushedProperties DEF StoreRow, InboxTypeOK
  <2> QED BY <1>3, <2>1 DEF StoreRow, Kept
<1>4. ASSUME NEW n \in Msgs, AfterStore(n)
      PROVE  /\ Kept(m) => Kept(m)'
             /\ InSeq(m, mem) => InSeq(m, mem') \/ m \in wronged' \/ task[m] = "stored"
             /\ wronged \subseteq wronged'
  <2>1. InSeq(Frame(m), out) => InSeq(Frame(m), out')
    BY <1>4, <1>e, FrameFacts DEF AfterStore
  <2>2. CASE mem = << >>
    <3>1. ~InSeq(m, mem)
      BY <2>2, CopiesOfEmpty
    <3> QED BY <1>4, <2>1, <3>1 DEF AfterStore, Kept
  <2>3. CASE mem # << >>
    <3>1. InSeq(m, mem) => InSeq(m, mem') \/ mem[Len(mem)] = m
      BY <1>0, <1>4, <2>3, PopLastProperties DEF AfterStore, InboxTypeOK
    <3>2. mem[Len(mem)] = m => m = n \/ m \in wronged'
      BY <1>4, <2>3 DEF AfterStore
    <3> QED BY <1>4, <2>1, <3>1, <3>2 DEF AfterStore, Kept
  <2> QED BY <2>2, <2>3
<1>5. CASE SyncFromMemory
  <2>1. Head(mem) \in Msgs
    BY <1>0, <1>5, HeadTailProperties DEF SyncFromMemory, InboxTypeOK
  <2>2. InSeq(m, mem) => InSeq(m, mem') \/ Head(mem) = m
    BY <1>0, <1>5, CopiesOfTail DEF SyncFromMemory, InboxTypeOK
  <2>3. Head(mem) = m => InSeq(Frame(m), out') \/ m \in shed'
    BY <1>5, <2>1, <1>s DEF SyncFromMemory
  <2>4. shed \subseteq shed' /\ (InSeq(Frame(m), out) => InSeq(Frame(m), out'))
    BY <1>5, <2>1, <1>t DEF SyncFromMemory
  <2> QED BY <1>5, <2>2, <2>3, <2>4 DEF SyncFromMemory, Kept
<1>6. CASE FetchRow
  <2>1. popped = NoMsg /\ NoMsg # m
    BY <1>0, <1>6, InboxAssumption DEF FetchRow, RowOnlyOnResume
  <2>2. InSeq(m, db) => InSeq(m, db') \/ popped' = m
    <3>1. CASE db = << >>
      BY <1>6, <3>1 DEF FetchRow
    <3>2. CASE db # << >>
      <4>1. db' = Tail(db) /\ popped' = Head(db)
        BY <1>6, <3>2 DEF FetchRow
      <4>2. InSeq(m, db) <=> InSeq(m, Tail(db)) \/ Head(db) = m
        BY <1>0, <3>2, CopiesOfTail DEF InboxTypeOK
      <4> QED BY <4>1, <4>2
    <3> QED BY <3>1, <3>2
  <2> QED BY <1>6, <2>1, <2>2 DEF FetchRow, Kept
<1>7. CASE SyncAnswer
  <2>1. CASE popped = NoMsg
    <3>1. InSeq(Frame(m), out) => InSeq(Frame(m), out')
      BY <1>7, <2>1, <1>e, FrameFacts DEF SyncAnswer
    <3>2. popped # m
      BY <2>1, InboxAssumption
    <3> QED BY <1>7, <2>1, <3>1, <3>2 DEF SyncAnswer, Kept
  <2>2. CASE popped # NoMsg
    <3>1. popped \in Msgs
      BY <1>0, <2>2 DEF InboxTypeOK
    <3>2. InSeq(Frame(popped), out') \/ popped \in shed'
      BY <1>7, <2>2, <3>1, <1>s DEF SyncAnswer
    <3>3. shed \subseteq shed' /\ (InSeq(Frame(m), out) => InSeq(Frame(m), out'))
      BY <1>7, <2>2, <3>1, <1>t DEF SyncAnswer
    <3> QED BY <1>7, <3>2, <3>3 DEF SyncAnswer, Kept
  <2> QED BY <2>1, <2>2
<1>8. CASE SyncAskDatabase \/ Connect \/ UNCHANGED inboxVars
  BY <1>8 DEF SyncAskDatabase, Connect, inboxVars, Kept
<1>9. CASE Disconnect
  <2>1. InSeq(Frame(m), out) => m \in shed'
    BY <1>9 DEF Disconnect
  <2> QED BY <1>9, <2>1 DEF Disconnect, Kept
<1>10. CASE ClientReads
  <2>1. Head(out) \in Frames /\ delivered[m] \in Nat
    BY <1>0, <1>10, HeadTailProperties DEF ClientReads, InboxTypeOK
  <2>2. InSeq(Frame(m), out) => InSeq(Frame(m), out') \/ Head(out) = Frame(m)
    BY <1>0, <1>10, CopiesOfTail DEF ClientReads, InboxTypeOK
  <2>3. /\ Head(out) = Frame(m) => delivered'[m] > 0
        /\ delivered[m] > 0 => delivered'[m] > 0
    BY <1>10, <2>1, FrameFacts DEF ClientReads
  <2> QED BY <1>10, <2>2, <2>3 DEF ClientReads, Kept
<1> QED
  BY <1>1, <1>2, <1>3, <1>4, <1>5, <1>6, <1>7, <1>8, <1>9, <1>10
     DEF InboxNext, Handler

\* How a handler moves, and that its message is in memory when it is queued and
\* in SQLite when it is stored.
LEMMA HandlerStep ==
    ASSUME Bounded, [InboxNext]_inboxVars, NEW m \in Msgs
    PROVE  \/ task'[m] = task[m]
           \/ task[m] = "new" /\ task'[m] \in {"persist", "kept"} /\ InSeq(m, mem')
           \/ task[m] = "new" /\ task'[m] = "rejected"
           \/ task[m] = "persist" /\ task'[m] = "stored" /\ InSeq(m, db')
           \/ task[m] = "persist" /\ task'[m] = "refused"
           \/ task[m] = "refused" /\ task'[m] = "kept"
           \/ task[m] = "stored" /\ task'[m] = "done"
<1>0. InboxTypeOK /\ Len(mem) <= Cap /\ Len(db) <= Cap
  BY DEF Bounded, RetentionLimit
<1>1. ASSUME NEW n \in Msgs, ArriveQueued(n)
      PROVE  \/ task'[m] = task[m]
             \/ task[m] = "new" /\ task'[m] \in {"persist", "kept"} /\ InSeq(m, mem')
  <2>1. InSeq(n, mem')
    BY <1>0, <1>1, PushedProperties DEF ArriveQueued, InboxTypeOK
  <2> QED BY <1>0, <1>1, <2>1 DEF ArriveQueued, InboxTypeOK
<1>2. ASSUME NEW n \in Msgs, StoreRow(n)
      PROVE  \/ task'[m] = task[m]
             \/ task[m] = "persist" /\ task'[m] = "stored" /\ InSeq(m, db')
  <2>1. InSeq(n, db')
    BY <1>0, <1>2, PushedProperties DEF StoreRow, InboxTypeOK
  <2> QED BY <1>0, <1>2, <2>1 DEF StoreRow, InboxTypeOK
<1>3. ASSUME NEW n \in Msgs,
             ArriveRejected(n) \/ RefuseRow(n) \/ AfterStore(n) \/ AfterRefusal(n)
      PROVE  \/ task'[m] = task[m]
             \/ task[m] = "new" /\ task'[m] = "rejected"
             \/ task[m] = "persist" /\ task'[m] = "refused"
             \/ task[m] = "refused" /\ task'[m] = "kept"
             \/ task[m] = "stored" /\ task'[m] = "done"
  BY <1>0, <1>3 DEF ArriveRejected, RefuseRow, AfterStore, AfterRefusal, InboxTypeOK
<1>4. CASE \/ SyncFromMemory \/ SyncAskDatabase \/ FetchRow \/ SyncAnswer
           \/ Connect \/ Disconnect \/ ClientReads \/ UNCHANGED inboxVars
  BY <1>4 DEF SyncFromMemory, SyncAskDatabase, FetchRow, SyncAnswer, Connect,
              Disconnect, ClientReads, inboxVars
<1> QED BY <1>1, <1>2, <1>3, <1>4 DEF InboxNext, Handler

\* A message that was accepted is lost without eviction or a dropped frame only
\* when SQLite refused it and another message's completion popped it.
THEOREM InboxLossCorrect == InboxSpec => []LossNeedsRefusalAndWrongPop
<1> DEFINE Inv == Bounded /\ \A m \in Msgs : Traceable(m)
<1>1. InboxInit => Inv
  BY BoundedInit DEF InboxInit, Traceable
<1>2. Inv /\ [InboxNext]_inboxVars => Inv'
  <2> SUFFICES ASSUME Bounded, [InboxNext]_inboxVars, NEW m \in Msgs, Traceable(m)
               PROVE  Traceable(m)'
    BY BoundedStep
  <2>1. /\ Kept(m) => Kept(m)'
        /\ InSeq(m, mem) => InSeq(m, mem') \/ Kept(m)' \/ m \in wronged' \/ task[m] = "stored"
        /\ wronged \subseteq wronged'
    BY KeptStep
  <2>2. InSeq(m, db') => Kept(m)'
    BY DEF Kept
  <2>3. /\ Traceable(m)' <=>
             /\ task'[m] \in {"stored", "done"} => Kept(m)'
             /\ task'[m] \in {"persist", "refused", "kept"} =>
                  InSeq(m, mem') \/ Kept(m)' \/ m \in wronged'
    BY DEF Traceable
  <2> QED BY <2>1, <2>2, <2>3, HandlerStep DEF Traceable
<1>3. Inv => LossNeedsRefusalAndWrongPop
  <2> SUFFICES ASSUME Bounded, NEW m \in Msgs, Traceable(m), task[m] \notin {"new", "rejected"}
               PROVE  Accounted(m) \/ (task[m] \in {"refused", "kept"} /\ m \in wronged)
    BY DEF LossNeedsRefusalAndWrongPop, Accepted
  <2>1. task[m] \in {"persist", "stored", "refused", "done", "kept"}
    BY DEF Bounded, InboxTypeOK
  <2> QED BY <2>1 DEF Traceable, Kept, Accounted
<1> HIDE DEF Inv
<1> QED BY <1>1, <1>2, <1>3, PTL DEF InboxSpec

-----------------------------------------------------------------------------
(* CompanionInbox: the inbox is a mailbox.                                   *)

\* What a step that is not the client's does to the copies of a message.
LEMMA UnreadStep ==
    ASSUME Bounded, [InboxNext]_inboxVars, NEW m \in Msgs
    PROVE  /\ delivered[m] \in Nat /\ Unread(m) \in Nat /\ Unread(m)' \in Nat
           /\ CopyCount(m) = delivered[m] + Unread(m)
           /\ CopyCount(m)' = delivered'[m] + Unread(m)'
           /\ delivered' = delivered =>
                /\ Unread(m)' <= Unread(m) + 1
                /\ task'[m] = task[m] => Unread(m)' <= Unread(m)
<1>1. Bounded'
  BY BoundedStep
<1>2. delivered[m] \in Nat /\ Unread(m) \in Nat
  BY CountParts DEF Unread
<1>3. delivered'[m] \in Nat /\ Unread(m)' \in Nat
  <2>1. /\ delivered'[m] \in Nat /\ Copies(m, mem') \in Nat /\ Copies(m, db') \in Nat
        /\ Copies(Frame(m), out') \in Nat
    BY <1>1, CopiesCount DEF Bounded, InboxTypeOK
  <2> QED BY <2>1 DEF Unread
<1>4. CopyCount(m) = delivered[m] + Unread(m) /\ CopyCount(m)' = delivered'[m] + Unread(m)'
  BY DEF CopyCount
<1>5. /\ CopyCount(m)' <= CopyCount(m) + 1
      /\ task'[m] = task[m] => CopyCount(m)' <= CopyCount(m)
  <2>1. Stays(m) \/ Makes(m) \/ Moves(m) \/ Completes(m)
    BY CountStep
  <2>2. CopyCount(m) \in Nat /\ CopyCount(m)' \in Nat
    BY <1>2, <1>3, <1>4
  <2> QED BY <2>1, <2>2 DEF Stays, Makes, Moves, Completes
<1> QED BY <1>2, <1>3, <1>4, <1>5

\* The client takes the first frame, and with it one copy of its message.
LEMMA ReadStep ==
    ASSUME Bounded, ClientReads, NEW m \in Msgs
    PROVE  /\ Unread(m) = Unread(m)' + (IF Head(out) = Frame(m) THEN 1 ELSE 0)
           /\ delivered'[m] = delivered[m] + (IF Head(out) = Frame(m) THEN 1 ELSE 0)
<1>1. /\ out \in Seq(Frames) /\ out # << >> /\ out' = Tail(out)
      /\ UNCHANGED <<mem, db, popped>> /\ delivered[m] \in Nat
  BY DEF Bounded, InboxTypeOK, ClientReads
<1>2. Head(out) \in Frames /\ Tail(out) \in Seq(Frames)
  BY <1>1, HeadTailProperties
<1>3. Copies(Frame(m), out) = Copies(Frame(m), out') + (IF Head(out) = Frame(m) THEN 1 ELSE 0)
  BY <1>1, CopiesOfTail
<1>4. Head(out).msg = m <=> Head(out) = Frame(m)
  BY <1>2, FrameFacts
<1>5. /\ Copies(m, mem) \in Nat /\ Copies(m, db) \in Nat
      /\ Copies(Frame(m), out) \in Nat /\ Copies(Frame(m), out') \in Nat
  BY <1>1, <1>2, CountParts, CopiesCount
<1>6. delivered'[m] = delivered[m] + (IF Head(out) = Frame(m) THEN 1 ELSE 0)
  BY <1>1, <1>4 DEF ClientReads
<1>7. Unread(m) = Unread(m)' + (IF Head(out) = Frame(m) THEN 1 ELSE 0)
  <2> DEFINE p == IF popped = m THEN 1 ELSE 0
  <2>1. /\ Unread(m) = Copies(m, mem) + Copies(m, db) + Copies(Frame(m), out) + p
        /\ Unread(m)' = Copies(m, mem) + Copies(m, db) + Copies(Frame(m), out') + p
    BY <1>1 DEF Unread
  <2>2. p \in Nat
    OBVIOUS
  <2> HIDE DEF p
  <2> QED BY <1>3, <1>5, <2>1, <2>2
<1> QED BY <1>6, <1>7

LEMMA MailboxStep ==
    Bounded /\ (\A m \in Msgs : Counted(m)) /\ [InboxNext]_inboxVars
        => [Box!Next]_(Box!vars)
<1> SUFFICES ASSUME Bounded, \A m \in Msgs : Counted(m), [InboxNext]_inboxVars
             PROVE  Box!Next \/ UNCHANGED <<[m \in Msgs |-> StatusOf(m)],
                                            [m \in Msgs |-> Unread(m)], delivered>>
  BY DEF Box!vars
<1> DEFINE S == [m \in Msgs |-> StatusOf(m)]
           L == [m \in Msgs |-> Unread(m)]
<1> USE DEF inboxHistory
<1>0. InboxTypeOK
  BY DEF Bounded
<1>1. /\ L' \in [Msgs -> Nat]
      /\ \A m \in Msgs : L[m] = Unread(m) /\ L'[m] = Unread(m)' /\ S[m] = StatusOf(m)
      /\ \A m \in Msgs : L[m] \in Nat
  BY UnreadStep
<1>2. ASSUME NEW n \in Msgs, UNCHANGED delivered, \A m \in Msgs \ {n} : task'[m] = task[m]
      PROVE  Box!Gains(n)
  <2>1. \A m \in Msgs : L'[m] <= L[m] + (IF m = n THEN 1 ELSE 0)
    <3> SUFFICES ASSUME NEW m \in Msgs PROVE L'[m] <= L[m] + (IF m = n THEN 1 ELSE 0)
      OBVIOUS
    <3>1. Unread(m) \in Nat /\ Unread(m)' \in Nat /\ Unread(m)' <= Unread(m) + 1
          /\ (m # n => Unread(m)' <= Unread(m))
      BY <1>2, UnreadStep
    <3> HIDE DEF L
    <3> QED BY <1>1, <3>1
  <2> QED BY <1>1, <2>1 DEF Box!Gains
<1>3. ASSUME UNCHANGED delivered, S' = S, \A m \in Msgs : Unread(m)' <= Unread(m)
      PROVE  Box!Next
  BY <1>1, <1>3 DEF Box!Next, Box!LetGo
<1>4. ASSUME NEW n \in Msgs, NEW from, NEW to,
             StatusOf(n) = from, StatusOf(n)' = to,
             \A m \in Msgs \ {n} : StatusOf(m)' = StatusOf(m)
      PROVE  Box!Turns(n, from, to)
  <2>1. S' = [S EXCEPT ![n] = to]
    BY <1>4
  <2> QED BY <1>4, <2>1 DEF Box!Turns
<1>5. ASSUME NEW n \in Msgs, ArriveQueued(n) PROVE Box!Next
  <2>1. /\ task[n] = "new" /\ task'[n] \in {"persist", "kept"} /\ UNCHANGED delivered
        /\ \A m \in Msgs \ {n} : task'[m] = task[m]
    BY <1>0, <1>5 DEF ArriveQueued, InboxTypeOK
  <2>2. Box!Turns(n, "new", "queued")
    <3>1. StatusOf(n) = "new" /\ StatusOf(n)' = "queued"
      BY <2>1 DEF StatusOf
    <3>2. \A m \in Msgs \ {n} : StatusOf(m)' = StatusOf(m)
      BY <2>1 DEF StatusOf
    <3> QED BY <1>4, <3>1, <3>2
  <2>3. Unread(n)' = 1
    <3>1. CopyCount(n) = 0
      BY <2>1 DEF Counted
    <3>2. Unread(n) = 0
      BY <3>1, UnreadStep
    <3>3. Unread(n)' \in Nat /\ Unread(n)' <= 1
      BY <2>1, <3>2, UnreadStep
    <3>4. InSeq(n, mem')
      BY <2>1, HandlerStep
    <3>5. Copies(n, mem') \in Nat /\ Copies(n, db') \in Nat /\ Copies(Frame(n), out') \in Nat
          /\ Copies(n, mem') # 0
      <4>1. Bounded'
        BY BoundedStep
      <4>2. mem' \in Seq(Msgs) /\ db' \in Seq(Msgs) /\ out' \in Seq(Frames)
        BY <4>1 DEF Bounded, InboxTypeOK
      <4> QED BY <4>2, <3>4, CopiesCount
    <3>6. Unread(n)' > 0
      BY <3>5 DEF Unread
    <3> QED BY <3>3, <3>6
  <2>4. Box!Gains(n)
    BY <1>2, <2>1
  <2> QED BY <2>1, <2>2, <2>3, <2>4 DEF Box!Next, Box!Queue
<1>6. ASSUME NEW n \in Msgs, ArriveRejected(n) PROVE Box!Next
  <2>1. /\ task[n] = "new" /\ task'[n] = "rejected"
        /\ UNCHANGED <<mem, db, popped, delivered>> /\ Enqueue(Waiting)
        /\ \A m \in Msgs \ {n} : task'[m] = task[m]
    BY <1>0, <1>6 DEF ArriveRejected, InboxTypeOK
  <2>2. Box!Turns(n, "new", "refused")
    <3>1. StatusOf(n) = "new" /\ StatusOf(n)' = "refused"
      BY <2>1 DEF StatusOf
    <3>2. \A m \in Msgs \ {n} : StatusOf(m)' = StatusOf(m)
      BY <2>1 DEF StatusOf
    <3> QED BY <1>4, <3>1, <3>2
  <2>3. \A m \in Msgs : Unread(m)' = Unread(m)
    <3> SUFFICES ASSUME NEW m \in Msgs PROVE Unread(m)' = Unread(m)
      OBVIOUS
    <3>1. Copies(Frame(m), out') = Copies(Frame(m), out)
      <4>1. Copies(Frame(m), out) \in Nat
        BY CountParts
      <4> QED BY <2>1, <4>1, FrameFacts, EnqueueProperties
    <3> QED BY <2>1, <3>1 DEF Unread
  <2>4. L' = L
    BY <2>3
  <2> QED BY <2>1, <2>2, <2>4 DEF Box!Next, Box!Refuse
<1>7. ASSUME NEW n \in Msgs, StoreRow(n) PROVE Box!Next
  <2>1. /\ task[n] = "persist" /\ task'[n] = "stored" /\ UNCHANGED delivered
        /\ \A m \in Msgs \ {n} : task'[m] = task[m]
    BY <1>0, <1>7 DEF StoreRow, InboxTypeOK
  <2>2. Box!Turns(n, "queued", "stored")
    <3>1. StatusOf(n) = "queued" /\ StatusOf(n)' = "stored"
      BY <2>1 DEF StatusOf
    <3>2. \A m \in Msgs \ {n} : StatusOf(m)' = StatusOf(m)
      BY <2>1 DEF StatusOf
    <3> QED BY <1>4, <3>1, <3>2
  <2>3. Box!Gains(n)
    BY <1>2, <2>1
  <2> QED BY <2>1, <2>2, <2>3 DEF Box!Next, Box!Store
<1>8. ASSUME NEW n \in Msgs, RefuseRow(n) \/ AfterRefusal(n) \/ AfterStore(n)
      PROVE  Box!Next
  <2>1. /\ <<task[n], task'[n]>> \in {<<"persist", "refused">>, <<"refused", "kept">>,
                                      <<"stored", "done">>}
        /\ UNCHANGED delivered /\ \A m \in Msgs \ {n} : task'[m] = task[m]
    BY <1>0, <1>8 DEF RefuseRow, AfterRefusal, AfterStore, InboxTypeOK
  <2>2. S' = S
    <3>1. \A m \in Msgs : StatusOf(m)' = StatusOf(m)
      BY <2>1 DEF StatusOf
    <3> QED BY <3>1
  <2>3. ASSUME NEW m \in Msgs PROVE Unread(m)' <= Unread(m)
    <3>1. CopyCount(m)' <= CopyCount(m)
      <4>1. Stays(m) \/ Makes(m) \/ Moves(m) \/ Completes(m)
        BY CountStep
      <4>2. ~Makes(m)
        BY <2>1 DEF Makes
      <4> QED BY <4>1, <4>2 DEF Stays, Moves, Completes
    <3> QED BY <2>1, <3>1, UnreadStep
  <2> QED BY <1>3, <2>1, <2>2, <2>3
<1>9. ASSUME \/ SyncFromMemory \/ SyncAskDatabase \/ FetchRow \/ SyncAnswer
             \/ Connect \/ Disconnect \/ UNCHANGED inboxVars
      PROVE  Box!Next
  <2>1. UNCHANGED <<task, delivered>>
    BY <1>9 DEF SyncFromMemory, SyncAskDatabase, FetchRow, SyncAnswer, Connect,
                Disconnect, inboxVars
  <2>2. S' = S
    BY <2>1 DEF StatusOf
  <2>3. \A m \in Msgs : Unread(m)' <= Unread(m)
    BY <2>1, UnreadStep
  <2> QED BY <1>3, <2>1, <2>2, <2>3
<1>10. ASSUME ClientReads
       PROVE  Box!Next \/ UNCHANGED <<S, L, delivered>>
  <2>1. S' = S /\ delivered \in [Msgs -> Nat] /\ delivered' \in [Msgs -> Nat]
    BY <1>0, <1>10 DEF ClientReads, StatusOf, InboxTypeOK
  <2>2. \A m \in Msgs :
          /\ Unread(m) = Unread(m)' + (IF Head(out) = Frame(m) THEN 1 ELSE 0)
          /\ delivered'[m] = delivered[m] + (IF Head(out) = Frame(m) THEN 1 ELSE 0)
    BY <1>10, ReadStep
  <2>3. CASE \E n \in Msgs : Head(out) = Frame(n)
    <3>1. PICK n \in Msgs : Head(out) = Frame(n)
      BY <2>3
    <3>2. \A m \in Msgs : Head(out) = Frame(m) <=> m = n
      BY <3>1, FrameFacts
    <3>3. L[n] > 0 /\ L' = [L EXCEPT ![n] = @ - 1]
      <4>1. \A m \in Msgs : Unread(m) = Unread(m)' + (IF m = n THEN 1 ELSE 0)
        BY <2>2, <3>2
      <4>2. \A m \in Msgs : Unread(m)' = IF m = n THEN Unread(m) - 1 ELSE Unread(m)
        BY <4>1, UnreadStep
      <4>3. Unread(n) > 0
        BY <4>1, UnreadStep
      <4> QED BY <4>2, <4>3
    <3>4. delivered' = [delivered EXCEPT ![n] = @ + 1]
      <4>1. \A m \in Msgs : delivered'[m] = IF m = n THEN delivered[m] + 1 ELSE delivered[m]
        BY <2>1, <2>2, <3>2
      <4> QED BY <2>1, <4>1
    <3> QED BY <2>1, <3>3, <3>4 DEF Box!Next, Box!Read
  <2>4. CASE ~\E n \in Msgs : Head(out) = Frame(n)
    <3>1. \A m \in Msgs : Unread(m)' = Unread(m) /\ delivered'[m] = delivered[m]
      BY <2>1, <2>2, <2>4, UnreadStep
    <3>2. L' = L /\ delivered' = delivered
      BY <2>1, <3>1
    <3> QED BY <2>1, <3>2
  <2> QED BY <2>3, <2>4
<1> QED
  BY <1>5, <1>6, <1>7, <1>8, <1>9, <1>10 DEF InboxNext, Handler

\* The inbox implements the mailbox, for any messages, limits and interleaving of
\* handlers, threads, sync commands and connections.
THEOREM InboxImplementsMailbox == InboxSpec => MailboxSpec
<1> DEFINE Inv == Bounded /\ \A m \in Msgs : Counted(m)
<1>1. InboxInit => Inv
  BY BoundedInit, CountedInit
<1>2. Inv /\ [InboxNext]_inboxVars => Inv'
  BY BoundedStep, CountedStep
<1>3. Inv /\ [InboxNext]_inboxVars => [Box!Next]_(Box!vars)
  BY MailboxStep
<1>4. InboxInit => Box!Init
  <2> SUFFICES ASSUME InboxInit PROVE Box!Init
    OBVIOUS
  <2>1. \A m \in Msgs : Copies(m, mem) = 0 /\ Copies(m, db) = 0 /\ Copies(Frame(m), out) = 0
    BY CopiesOfEmpty DEF InboxInit
  <2>2. \A m \in Msgs : Unread(m) = 0
    BY <2>1, InboxAssumption DEF InboxInit, Unread
  <2>3. \A m \in Msgs : StatusOf(m) = "new"
    BY DEF InboxInit, StatusOf
  <2>4. delivered = [m \in Msgs |-> 0]
    BY DEF InboxInit
  <2> QED BY <2>2, <2>3, <2>4 DEF Box!Init
<1> HIDE DEF Inv
<1> QED BY <1>1, <1>2, <1>3, <1>4, PTL DEF InboxSpec, MailboxSpec, Box!Spec

\* What the mailbox promises holds of the inbox: a message that was refused or has not
\* arrived is not read, and none is read, or left to read, more often than it was put in.
THEOREM ReadBoundCorrect == InboxSpec => []Box!ReadIsBounded
<1> DEFINE Inv == Bounded /\ \A m \in Msgs : Counted(m)
<1>1. InboxInit => Inv
  BY BoundedInit, CountedInit
<1>2. Inv /\ [InboxNext]_inboxVars => Inv'
  BY BoundedStep, CountedStep
<1>3. Inv => Box!ReadIsBounded
  <2> SUFFICES ASSUME Bounded, \A m \in Msgs : Counted(m) PROVE Box!ReadIsBounded
    OBVIOUS
  <2>1. ASSUME NEW m \in Msgs
        PROVE  delivered[m] + Unread(m) <= CASE StatusOf(m) \in {"new", "refused"} -> 0
                                             [] StatusOf(m) = "queued" -> 1
                                             [] StatusOf(m) = "stored" -> 2
    <3>1. Counted(m) /\ CopyCount(m) = delivered[m] + Unread(m)
      BY DEF CopyCount
    <3>2. task[m] \in {"new", "persist", "stored", "refused", "done", "kept", "rejected"}
      BY DEF Bounded, InboxTypeOK
    <3> QED BY <3>1, <3>2 DEF Counted, StatusOf
  <2> QED BY <2>1 DEF Box!ReadIsBounded
<1> HIDE DEF Inv
<1> QED BY <1>1, <1>2, <1>3, PTL DEF InboxSpec

-----------------------------------------------------------------------------
(* CompanionInbox: eviction spares direct messages.                          *)

\* The victim of a push is a channel message.
LEMMA VictimsAreChannel ==
    ASSUME NEW S, NEW q \in Seq(S), Accepts(q)
    PROVE  Victims(q) \subseteq Channel
<1>1. CASE Len(q) >= Cap
  <2>1. HasChannel(q)
    <3>1. Len(q) \in Nat /\ Cap \in Nat
      BY LenProperties, InboxAssumption
    <3> QED BY <1>1, <3>1 DEF Accepts
  <2>2. q[FirstChannel(q)] \in Channel
    BY <2>1, FirstChannelIsThere
  <2> QED BY <2>2 DEF Victims
<1>2. CASE ~(Len(q) >= Cap)
  BY <1>2 DEF Victims
<1> QED BY <1>1, <1>2

\* How a direct message leaves each store.
LeavesMem(m) ==
    InSeq(m, mem) /\ ~InSeq(m, mem)' =>
        \/ connected /\ m = Head(mem) /\ mem' = Tail(mem)
        \/ m = mem[Len(mem)] /\ \E n \in Msgs : task[n] = "stored" /\ task'[n] = "done"
LeavesDb(m) ==
    InSeq(m, db) /\ ~InSeq(m, db)' => sync = "thread" /\ m = Head(db)

LEMMA LeaveStep ==
    ASSUME Bounded, [InboxNext]_inboxVars, NEW m \in Msgs \ Channel
    PROVE  LeavesMem(m) /\ LeavesDb(m)
<1>0. InboxTypeOK /\ Len(mem) <= Cap /\ Len(db) <= Cap
  BY DEF Bounded, RetentionLimit
<1> USE DEF inboxHistory
<1>m. mem' = mem => LeavesMem(m)
  BY DEF LeavesMem, InSeq
<1>d. db' = db => LeavesDb(m)
  BY DEF LeavesDb, InSeq
<1>1. ASSUME NEW n \in Msgs, ArriveQueued(n) PROVE LeavesMem(m) /\ db' = db
  <2>1. InSeq(m, mem) => InSeq(m, Pushed(mem, n)) \/ m \in Victims(mem)
    BY <1>0, <1>1, PushedProperties DEF ArriveQueued, InboxTypeOK
  <2>2. m \notin Victims(mem)
    BY <1>0, <1>1, VictimsAreChannel DEF ArriveQueued, InboxTypeOK
  <2> QED BY <1>1, <2>1, <2>2 DEF ArriveQueued, LeavesMem, InSeq
<1>2. ASSUME NEW n \in Msgs, StoreRow(n) PROVE LeavesDb(m) /\ mem' = mem
  <2>1. InSeq(m, db) => InSeq(m, Pushed(db, n)) \/ m \in Victims(db)
    BY <1>0, <1>2, PushedProperties DEF StoreRow, InboxTypeOK
  <2>2. m \notin Victims(db)
    BY <1>0, <1>2, VictimsAreChannel DEF StoreRow, InboxTypeOK
  <2> QED BY <1>2, <2>1, <2>2 DEF StoreRow, LeavesDb, InSeq
<1>3. ASSUME NEW n \in Msgs, AfterStore(n) PROVE LeavesMem(m) /\ db' = db
  <2>1. task[n] = "stored" /\ task'[n] = "done"
    BY <1>0, <1>3 DEF AfterStore, InboxTypeOK
  <2>2. CASE mem = << >>
    BY <1>3, <1>m, <2>2 DEF AfterStore, PopLast
  <2>3. CASE mem # << >>
    <3>1. InSeq(m, mem) => InSeq(m, PopLast(mem)) \/ mem[Len(mem)] = m
      BY <1>0, <2>3, PopLastProperties DEF InboxTypeOK
    <3> QED BY <1>3, <2>1, <3>1 DEF AfterStore, LeavesMem, InSeq
  <2> QED BY <1>3, <2>2, <2>3 DEF AfterStore
<1>4. CASE SyncFromMemory
  <2>1. InSeq(m, mem) => InSeq(m, Tail(mem)) \/ Head(mem) = m
    BY <1>0, <1>4, CopiesOfTail DEF SyncFromMemory, InboxTypeOK
  <2>2. connected /\ mem' = Tail(mem) /\ db' = db
    BY <1>4 DEF SyncFromMemory
  <2> QED BY <1>d, <2>1, <2>2 DEF LeavesMem, InSeq
<1>5. CASE FetchRow
  <2>1. sync = "thread" /\ mem' = mem
    BY <1>5 DEF FetchRow
  <2>2. CASE db = << >>
    BY <1>5, <1>d, <1>m, <2>1, <2>2 DEF FetchRow
  <2>3. CASE db # << >>
    <3>1. InSeq(m, db) => InSeq(m, Tail(db)) \/ Head(db) = m
      BY <1>0, <2>3, CopiesOfTail DEF InboxTypeOK
    <3>2. db' = Tail(db)
      BY <1>5, <2>3 DEF FetchRow
    <3> QED BY <1>m, <2>1, <3>1, <3>2 DEF LeavesDb, InSeq
  <2> QED BY <2>2, <2>3
<1>6. ASSUME \/ \E n \in Msgs : ArriveRejected(n) \/ RefuseRow(n) \/ AfterRefusal(n)
             \/ SyncAskDatabase \/ SyncAnswer \/ Connect \/ Disconnect \/ ClientReads
             \/ UNCHANGED inboxVars
      PROVE  mem' = mem /\ db' = db
  BY <1>6 DEF ArriveRejected, RefuseRow, AfterRefusal, SyncAskDatabase, SyncAnswer,
              Connect, Disconnect, ClientReads, inboxVars
<1> QED
  BY <1>m, <1>d, <1>1, <1>2, <1>3, <1>4, <1>5, <1>6 DEF InboxNext, Handler

\* Neither store evicts a direct message, for any limit, messages and interleaving: it
\* leaves by a sync command or by a completion's pop.
THEOREM ProtectionCorrect == InboxSpec => DirectIsProtected
<1>1. Bounded /\ [InboxNext]_inboxVars =>
        [\A m \in Msgs \ Channel :
           /\ InSeq(m, mem) /\ ~InSeq(m, mem)' =>
                \/ connected /\ m = Head(mem) /\ mem' = Tail(mem)
                \/ m = mem[Len(mem)] /\ \E n \in Msgs : task[n] = "stored" /\ task'[n] = "done"
           /\ InSeq(m, db) /\ ~InSeq(m, db)' => sync = "thread" /\ m = Head(db)]_inboxVars
  BY LeaveStep DEF LeavesMem, LeavesDb
<1> QED BY <1>1, BoundedCorrect, PTL DEF InboxSpec, DirectIsProtected

-----------------------------------------------------------------------------
(* CompanionReplies: types.                                                  *)

\* Every variable keeps its type, and a slot its kind of request.
THEOREM RepliesTypeCorrect == RepliesSpec => []RepliesTypeOK
<1>1. RepliesInit => RepliesTypeOK
  BY RepliesAssumption DEF RepliesInit, RepliesTypeOK, Requests, Messages, Kinds
<1>2. RepliesTypeOK /\ [RepliesNext]_repliesVars => RepliesTypeOK'
  <2> SUFFICES ASSUME RepliesTypeOK, [RepliesNext]_repliesVars PROVE RepliesTypeOK'
    OBVIOUS
  <2> USE DEF RepliesTypeOK, repliesHistory
  <2>k. \A r \in Requests : KindOf(r) \in Kinds /\ r # None
    BY RepliesAssumption DEF KindOf, Kinds
  <2>1. ASSUME NEW r \in Requests, Start(r) PROVE RepliesTypeOK'
    <3>1. /\ slot' \in [Kinds -> Requests \cup {None}]
          /\ \A k \in Kinds : slot'[k] # None => KindOf(slot'[k]) = k
      BY <2>1, <2>k DEF Start
    <3>2. overlapped' \subseteq Requests /\ passwords' \subseteq {Hash[q] : q \in Logins}
      BY <2>1 DEF Start, Rivals
    <3> QED BY <2>1, <3>1, <3>2 DEF Start
  <2>2. ASSUME NEW r \in Requests, Sent(r) PROVE RepliesTypeOK'
    BY <2>2 DEF Sent
  <2>3. ASSUME NEW r \in Requests, SendFails(r) \/ Return(r) \/ Cancel(r) PROVE RepliesTypeOK'
    <3>1. CleanUp(r) \/ UNCHANGED <<slot, passwords, usurped>>
      BY <2>3 DEF SendFails, Return, Cancel
    <3>2. /\ slot' \in [Kinds -> Requests \cup {None}]
          /\ \A k \in Kinds : slot'[k] # None => KindOf(slot'[k]) = k
      BY <3>1, <2>k DEF CleanUp
    <3>3. usurped' \subseteq Requests /\ passwords' \subseteq {Hash[q] : q \in Logins}
      BY <3>1 DEF CleanUp, Rivals
    <3>4. /\ pc' \in [Requests -> {"absent", "new", "sending", "waiting",
                                   "returned", "failed", "cancelled"}]
          /\ UNCHANGED <<got, fate, callbacks, connects, heard, overlapped, cleared>>
      BY <2>3 DEF SendFails, Return, Cancel
    <3> QED BY <3>2, <3>3, <3>4
  <2>4. ASSUME NEW m \in Messages, CaptureText(m) \/ CaptureGrant(m) PROVE RepliesTypeOK'
    <3>1. "command" \in Kinds /\ "login" \in Kinds
      BY DEF Kinds
    <3> QED BY <2>4, <3>1 DEF CaptureText, CaptureGrant, Captured
  <2>5. ASSUME NEW m \in Messages, PublishText(m) PROVE RepliesTypeOK'
    BY <2>5 DEF PublishText
  <2>6. ASSUME NEW m \in Messages, DropGrant(m) PROVE RepliesTypeOK'
    BY <2>6 DEF DropGrant
  <2>7. ASSUME NEW l \in Others, Subscribe(l) PROVE RepliesTypeOK'
    BY <2>7 DEF Subscribe
  <2>8. CASE SetupPushCallbacks
    <3>1. callbacks' \in [Listeners -> Nat] /\ cleared' \subseteq Others
      BY <2>8 DEF SetupPushCallbacks
    <3>2. connects' \in 0 .. MaxConnects
      BY <2>8, RepliesAssumption DEF SetupPushCallbacks
    <3> QED BY <2>8, <3>1, <3>2 DEF SetupPushCallbacks
  <2>9. CASE UNCHANGED repliesVars
    BY <2>9 DEF repliesVars
  <2> QED
    BY <2>1, <2>2, <2>3, <2>4, <2>5, <2>6, <2>7, <2>8, <2>9 DEF RepliesNext
<1> QED
  BY <1>1, <1>2, PTL DEF RepliesSpec

-----------------------------------------------------------------------------
(* CompanionReplies: the slots.                                              *)

\* What a step that is no request's leaves alone.
Quiet == UNCHANGED <<pc, slot, passwords, overlapped, usurped>>

\* A login whose send failed leaves its callback and its password behind.
Lingers(r) ==
    /\ r \in Logins /\ pc[r] = "sending" /\ pc' = [pc EXCEPT ![r] = "failed"]
    /\ UNCHANGED <<slot, passwords, overlapped, usurped>>

\* A step is one of a request, or leaves the requests and the slots alone.
LEMMA StepOfRequest ==
    ASSUME [RepliesNext]_repliesVars
    PROVE  \/ \E r \in Requests : Start(r)
           \/ \E r \in Requests : Sent(r)
           \/ \E r \in Requests :
                 /\ InFlight(r) /\ CleanUp(r) /\ UNCHANGED overlapped
                 /\ \E end \in {"returned", "failed", "cancelled"} :
                       pc' = [pc EXCEPT ![r] = end]
           \/ \E r \in Requests : Lingers(r)
           \/ Quiet
<1> USE DEF Quiet, repliesHistory
<1>1. ASSUME NEW r \in Requests, SendFails(r) \/ Return(r) \/ Cancel(r)
      PROVE  \/ /\ InFlight(r) /\ CleanUp(r) /\ UNCHANGED overlapped
                /\ \E end \in {"returned", "failed", "cancelled"} :
                      pc' = [pc EXCEPT ![r] = end]
             \/ Lingers(r)
  BY <1>1 DEF SendFails, Return, Cancel, InFlight, Lingers
<1>2. ASSUME NEW m \in Messages,
             CaptureText(m) \/ PublishText(m) \/ CaptureGrant(m) \/ DropGrant(m)
      PROVE  Quiet
  BY <1>2 DEF CaptureText, PublishText, CaptureGrant, DropGrant, Captured
<1>3. ASSUME NEW l \in Others, Subscribe(l) PROVE Quiet
  BY <1>3 DEF Subscribe
<1>4. CASE SetupPushCallbacks
  BY <1>4 DEF SetupPushCallbacks
<1>5. CASE UNCHANGED repliesVars
  BY <1>5 DEF repliesVars
<1> QED
  BY <1>1, <1>2, <1>3, <1>4, <1>5 DEF RepliesNext

LEMMA SlotStep ==
    RepliesTypeOK /\ SlotMeansInFlight /\ [RepliesNext]_repliesVars => SlotMeansInFlight'
<1> SUFFICES ASSUME RepliesTypeOK, SlotMeansInFlight, [RepliesNext]_repliesVars PROVE SlotMeansInFlight'
  OBVIOUS
<1> USE DEF SlotMeansInFlight, InFlight
<1>t. /\ pc \in [Requests -> {"absent", "new", "sending", "waiting",
                              "returned", "failed", "cancelled"}]
      /\ slot \in [Kinds -> Requests \cup {None}]
      /\ \A k \in Kinds : slot[k] # None => KindOf(slot[k]) = k
      /\ \A r \in Requests : KindOf(r) \in Kinds
  BY DEF RepliesTypeOK, KindOf, Kinds
<1>1. ASSUME NEW r \in Requests, Start(r) PROVE SlotMeansInFlight'
  <2>1. /\ pc' = [pc EXCEPT ![r] = "sending"] /\ slot' = [slot EXCEPT ![KindOf(r)] = r]
    BY <1>1 DEF Start
  <2> QED BY <1>t, <2>1
<1>2. ASSUME NEW r \in Requests, Sent(r) PROVE SlotMeansInFlight'
  BY <1>2, <1>t DEF Sent
<1>3. ASSUME NEW r \in Requests, CleanUp(r),
             NEW end \in {"returned", "failed", "cancelled"}, pc' = [pc EXCEPT ![r] = end]
      PROVE  SlotMeansInFlight'
  <2>1. slot' = [slot EXCEPT ![KindOf(r)] = None]
    BY <1>3 DEF CleanUp
  <2>2. \A k \in Kinds : slot'[k] # None => slot'[k] = slot[k] /\ slot[k] # r
    BY <1>t, <2>1
  <2> QED BY <1>t, <1>3, <2>2
<1>4. CASE Quiet
  BY <1>4 DEF Quiet
<1>5. ASSUME NEW r \in Requests, Lingers(r) PROVE SlotMeansInFlight'
  BY <1>5, <1>t DEF Lingers
<1> QED
  BY <1>1, <1>2, <1>3, <1>4, <1>5, StepOfRequest

\* A slot's callback is a request that is under way, or a login whose send failed.
THEOREM SlotCorrect == RepliesSpec => []SlotMeansInFlight
<1>1. RepliesInit => SlotMeansInFlight
  BY DEF RepliesInit, SlotMeansInFlight
<1> QED
  BY <1>1, SlotStep, RepliesTypeCorrect, PTL DEF RepliesSpec

\* Requests of one kind under way at once have met.
Met ==
    \A q, r \in Requests :
        InFlight(q) /\ InFlight(r) /\ q # r /\ KindOf(q) = KindOf(r) => r \in overlapped

LEMMA LossStep ==
    RepliesTypeOK /\ Met /\ LosesOnlyByOverlap /\ [RepliesNext]_repliesVars => (Met /\ LosesOnlyByOverlap)'
<1> SUFFICES ASSUME RepliesTypeOK, Met, LosesOnlyByOverlap, [RepliesNext]_repliesVars
             PROVE  (Met /\ LosesOnlyByOverlap)'
  OBVIOUS
<1> USE DEF Met, LosesOnlyByOverlap
<1>t. /\ pc \in [Requests -> {"absent", "new", "sending", "waiting",
                              "returned", "failed", "cancelled"}]
      /\ slot \in [Kinds -> Requests \cup {None}]
      /\ \A r \in Requests : KindOf(r) \in Kinds
  BY DEF RepliesTypeOK, KindOf, Kinds
<1>1. ASSUME NEW r \in Requests, Start(r) PROVE (Met /\ LosesOnlyByOverlap)'
  <2>1. /\ pc' = [pc EXCEPT ![r] = "sending"] /\ slot' = [slot EXCEPT ![KindOf(r)] = r]
        /\ passwords' = IF r \in Logins THEN passwords \cup {Hash[r]} ELSE passwords
        /\ overlapped' = IF Rivals(r) = {} THEN overlapped
                                           ELSE overlapped \cup Rivals(r) \cup {r}
        /\ UNCHANGED usurped
    BY <1>1 DEF Start, repliesHistory
  <2>2. \A q \in Requests \ {r} : InFlight(q)' <=> InFlight(q)
    BY <1>t, <2>1 DEF InFlight
  <2>3. \A q \in Requests \ {r} :
          InFlight(q) /\ KindOf(q) = KindOf(r) => q \in overlapped' /\ r \in overlapped'
    BY <2>1 DEF Rivals
  <2>4. overlapped \subseteq overlapped' /\ passwords \subseteq passwords'
    BY <2>1
  <2>5. Met'
    BY <2>2, <2>3, <2>4
  <2>6. ASSUME NEW q \in Requests, InFlight(q)'
        PROVE  /\ slot'[KindOf(q)] = q \/ q \in overlapped'
               /\ q \in Logins => Hash[q] \in passwords' \/ q \in usurped'
    <3>1. CASE q = r
      BY <1>t, <2>1, <3>1
    <3>2. CASE q # r
      BY <1>t, <2>1, <2>2, <2>3, <2>4, <2>6, <3>2
    <3> QED BY <3>1, <3>2
  <2> QED BY <2>5, <2>6
<1>2. ASSUME NEW r \in Requests, Sent(r) PROVE (Met /\ LosesOnlyByOverlap)'
  <2>1. \A q \in Requests : InFlight(q)' => InFlight(q)
    BY <1>2, <1>t DEF Sent, InFlight
  <2>2. UNCHANGED <<slot, passwords, overlapped, usurped>>
    BY <1>2 DEF Sent, repliesHistory
  <2> QED BY <2>1, <2>2
<1>3. ASSUME NEW r \in Requests, InFlight(r), CleanUp(r), UNCHANGED overlapped,
             NEW end \in {"returned", "failed", "cancelled"}, pc' = [pc EXCEPT ![r] = end]
      PROVE  (Met /\ LosesOnlyByOverlap)'
  <2>1. \A q \in Requests : InFlight(q)' => InFlight(q) /\ q # r
    BY <1>3, <1>t DEF InFlight
  <2>2. Met'
    BY <1>3, <2>1
  <2>3. ASSUME NEW q \in Requests, InFlight(q)' PROVE slot'[KindOf(q)] = q \/ q \in overlapped'
    <3>1. CASE KindOf(q) = KindOf(r)
      BY <1>3, <2>1, <2>3, <3>1
    <3>2. CASE KindOf(q) # KindOf(r)
      BY <1>3, <1>t, <2>1, <2>3, <3>2 DEF CleanUp
    <3> QED BY <3>1, <3>2
  <2>4. ASSUME NEW q \in Requests, InFlight(q)', q \in Logins
        PROVE  Hash[q] \in passwords' \/ q \in usurped'
    <3>1. CASE r \in Logins /\ Hash[r] = Hash[q]
      <4>1. KindOf(r) = "login" /\ KindOf(q) = "login"
        BY <2>4, <3>1, RepliesAssumption DEF KindOf
      <4>2. q \in Rivals(r)
        BY <2>1, <2>4, <4>1 DEF Rivals
      <4> QED BY <1>3, <3>1, <4>2 DEF CleanUp
    <3>2. CASE ~(r \in Logins /\ Hash[r] = Hash[q])
      BY <1>3, <2>1, <2>4, <3>2 DEF CleanUp
    <3> QED BY <3>1, <3>2
  <2> QED BY <2>2, <2>3, <2>4
<1>4. CASE Quiet
  BY <1>4 DEF Quiet, InFlight
<1>5. ASSUME NEW r \in Requests, Lingers(r) PROVE (Met /\ LosesOnlyByOverlap)'
  <2>1. \A q \in Requests : InFlight(q)' => InFlight(q)
    BY <1>5, <1>t DEF Lingers, InFlight
  <2> QED BY <1>5, <2>1 DEF Lingers
<1> QED
  BY <1>1, <1>2, <1>3, <1>4, <1>5, StepOfRequest

\* A request loses its slot only to another of its kind that it met, and a login its
\* password only to one of the same destination hash.
THEOREM LossCorrect == RepliesSpec => []LosesOnlyByOverlap
<1>1. RepliesInit => Met /\ LosesOnlyByOverlap
  BY DEF RepliesInit, Met, LosesOnlyByOverlap, InFlight
<1> QED
  BY <1>1, LossStep, RepliesTypeCorrect, PTL DEF RepliesSpec

-----------------------------------------------------------------------------
(* The listeners.                                                            *)

\* Nobody is in the lists twice.
Once == \A l \in Listeners : callbacks[l] <= 1

LEMMA OnceStep ==
    RepliesTypeOK /\ Once /\ HeardOnce /\ [RepliesNext]_repliesVars => (Once /\ HeardOnce)'
<1> SUFFICES ASSUME RepliesTypeOK, Once, HeardOnce, [RepliesNext]_repliesVars PROVE (Once /\ HeardOnce)'
  OBVIOUS
<1> USE DEF Once, HeardOnce
<1>t. /\ callbacks \in [Listeners -> Nat] /\ Others \subseteq Listeners
      /\ heard \in [Messages -> [Listeners -> Nat]]
  BY DEF RepliesTypeOK, Listeners
<1>1. ASSUME NEW m \in Messages, PublishText(m) PROVE (Once /\ HeardOnce)'
  <2>1. heard' = [heard EXCEPT ![m] = callbacks] /\ UNCHANGED callbacks
    BY <1>1 DEF PublishText
  <2> QED BY <1>t, <2>1
<1>2. ASSUME NEW l \in Others, Subscribe(l) PROVE (Once /\ HeardOnce)'
  BY <1>2, <1>t DEF Subscribe
<1>3. CASE SetupPushCallbacks
  BY <1>3 DEF SetupPushCallbacks
<1>4. CASE UNCHANGED <<callbacks, heard>>
  BY <1>4
<1>5. ASSUME NEW r \in Requests,
             Start(r) \/ Sent(r) \/ SendFails(r) \/ Return(r) \/ Cancel(r)
      PROVE  UNCHANGED <<callbacks, heard>>
  BY <1>5 DEF Start, Sent, SendFails, Return, Cancel
<1>6. ASSUME NEW m \in Messages, CaptureText(m) \/ CaptureGrant(m) \/ DropGrant(m)
      PROVE  UNCHANGED <<callbacks, heard>>
  BY <1>6 DEF CaptureText, CaptureGrant, DropGrant, Captured
<1>7. UNCHANGED repliesVars => UNCHANGED <<callbacks, heard>>
  BY DEF repliesVars
<1> QED
  BY <1>1, <1>2, <1>3, <1>4, <1>5, <1>6, <1>7 DEF RepliesNext

\* Nobody is called twice with one message, however often the client reconnects.
THEOREM ListenersCorrect == RepliesSpec => []HeardOnce
<1>1. RepliesInit => Once /\ HeardOnce
  BY DEF RepliesInit, Once, HeardOnce
<1> QED
  BY <1>1, OnceStep, RepliesTypeCorrect, PTL DEF RepliesSpec

=============================================================================
