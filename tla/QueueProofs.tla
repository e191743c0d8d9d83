----------------------------- MODULE QueueProofs ------------------------------
(***************************************************************************)
(* Lemmas about the queue operators of SchedulerOps: the run queue, the    *)
(* filtered queue of a wake-up loop, and the deadline-ordered sleep queue. *)
(***************************************************************************)
EXTENDS SchedulerOps, MinProofs, SequenceTheorems

(***************************************************************************)
(* Queues.                                                                 *)
(***************************************************************************)

\* Append adds one element to the members of a queue and keeps a queue
\* without duplicates free of them when the element is new.
LEMMA AppendFacts ==
    ASSUME NEW S, NEW q \in Seq(S), NEW e \in S
    PROVE  /\ Append(q, e) \in Seq(S)
           /\ Range(Append(q, e)) = Range(q) \cup {e}
           /\ IsInjective(q) /\ e \notin Range(q) => IsInjective(Append(q, e))
<1> DEFINE r == Append(q, e)
<1>1. r \in Seq(S) /\ Len(r) = Len(q) + 1 /\ DOMAIN r = 1 .. Len(q) + 1 /\ DOMAIN q = 1 .. Len(q)
  OBVIOUS
<1>2. r[Len(q) + 1] = e /\ \A i \in 1 .. Len(q) : r[i] = q[i]
  OBVIOUS
<1>3. Len(q) \in Nat
  OBVIOUS
<1>4. Range(r) = Range(q) \cup {e}
  <2>1. ASSUME NEW x \in Range(r) PROVE x \in Range(q) \cup {e}
    BY <1>1, <1>2, <1>3, <2>1 DEF Range
  <2>2. ASSUME NEW x \in Range(q) PROVE x \in Range(r)
    BY <1>1, <1>2, <1>3, <2>2 DEF Range
  <2>3. e \in Range(r)
    BY <1>1, <1>2, <1>3 DEF Range
  <2> QED BY <2>1, <2>2, <2>3
<1>5. ASSUME IsInjective(q), e \notin Range(q) PROVE IsInjective(r)
  <2> SUFFICES ASSUME NEW a \in DOMAIN r, NEW b \in DOMAIN r, r[a] = r[b] PROVE a = b
    BY DEF IsInjective
  <2>1. \A i \in 1 .. Len(q) : r[i] # e
    BY <1>1, <1>2, <1>5 DEF Range
  <2> QED BY <1>1, <1>2, <1>3, <1>5, <2>1 DEF IsInjective
<1> QED BY <1>1, <1>4, <1>5

\* Popping the front of a queue without duplicates removes just that member.
LEMMA TailFacts ==
    ASSUME NEW S, NEW q \in Seq(S), q # <<>>
    PROVE  /\ Tail(q) \in Seq(S) /\ Head(q) \in S /\ Head(q) \in Range(q)
           /\ IsInjective(q) => /\ IsInjective(Tail(q))
                                /\ Range(Tail(q)) = Range(q) \ {Head(q)}
<1> DEFINE r == Tail(q)
<1>1. r \in Seq(S) /\ Len(r) = Len(q) - 1 /\ DOMAIN r = 1 .. Len(q) - 1 /\ DOMAIN q = 1 .. Len(q)
  OBVIOUS
<1>2. Head(q) = q[1] /\ Head(q) \in S /\ \A i \in 1 .. Len(q) - 1 : r[i] = q[i + 1]
  OBVIOUS
<1>3. Len(q) \in Nat /\ Len(q) >= 1
  OBVIOUS
<1>4. Head(q) \in Range(q)
  BY <1>1, <1>2, <1>3 DEF Range
<1>5. ASSUME IsInjective(q) PROVE IsInjective(r) /\ Range(r) = Range(q) \ {Head(q)}
  <2>1. IsInjective(r)
    BY <1>1, <1>2, <1>3, <1>5 DEF IsInjective
  <2>2. ASSUME NEW x \in Range(r) PROVE x \in Range(q) \ {Head(q)}
    <3>1. PICK i \in 1 .. Len(q) - 1 : x = r[i]
      BY <1>1 DEF Range
    <3>2. x = q[i + 1] /\ i + 1 \in 1 .. Len(q) /\ i + 1 # 1
      BY <3>1, <1>2, <1>3
    <3> QED BY <3>2, <1>1, <1>2, <1>3, <1>5 DEF IsInjective, Range
  <2>3. ASSUME NEW x \in Range(q) \ {Head(q)} PROVE x \in Range(r)
    <3>1. PICK i \in 1 .. Len(q) : x = q[i]
      BY <1>1 DEF Range
    <3>2. i - 1 \in 1 .. Len(q) - 1 /\ x = r[i - 1]
      BY <3>1, <1>2, <1>3
    <3> QED BY <3>2, <1>1 DEF Range
  <2> QED BY <2>1, <2>2, <2>3
<1> QED BY <1>1, <1>2, <1>4, <1>5

\* Keep returns the members of q that are in S, in a queue of its own without
\* duplicates if q has none.
LEMMA KeepFacts ==
    ASSUME NEW T, NEW q \in Seq(T), NEW S
    PROVE  /\ Keep(q, S) \in Seq(T)
           /\ Range(Keep(q, S)) = Range(q) \cap S
           /\ IsInjective(q) => IsInjective(Keep(q, S))
<1> DEFINE P == Positions(q, S)
           n == Cardinality(P)
           Upto(i) == {j \in P : j <= i}
           rank == [i \in P |-> Cardinality(Upto(i))]
           r == Keep(q, S)
<1>1. Len(q) \in Nat /\ DOMAIN q = 1 .. Len(q)
  OBVIOUS
<1>2. P \subseteq 1 .. Len(q) /\ IsFiniteSet(P) /\ n \in Nat
  <2>1. P \in SUBSET (1 .. Len(q))
    BY <1>1 DEF Positions
  <2>2. IsFiniteSet(1 .. Len(q))
    BY <1>1, FS_Interval
  <2>3. IsFiniteSet(P)
    BY <2>1, <2>2, FS_Subset
  <2> QED BY <2>1, <2>3, FS_CardinalityType
<1>3. ASSUME NEW i \in P
      PROVE  IsFiniteSet(Upto(i)) /\ Cardinality(Upto(i)) \in 1 .. n
  <2>1. Upto(i) \in SUBSET P /\ {i} \in SUBSET Upto(i)
    BY <1>2
  <2>2. IsFiniteSet(Upto(i)) /\ Cardinality(Upto(i)) <= n
    BY <2>1, <1>2, FS_Subset
  <2>3. Cardinality({i}) = 1 /\ Cardinality({i}) <= Cardinality(Upto(i))
    BY <2>1, <2>2, FS_Subset, FS_Singleton
  <2>4. Cardinality(Upto(i)) \in Nat
    BY <2>2, FS_CardinalityType
  <2> QED BY <2>2, <2>3, <2>4, <1>2
<1>4. ASSUME NEW i \in P, NEW j \in P, i < j
      PROVE  Cardinality(Upto(i)) # Cardinality(Upto(j))
  <2>1. Upto(i) \in SUBSET Upto(j) /\ j \in Upto(j) /\ j \notin Upto(i)
    BY <1>2, <1>4
  <2> QED BY <2>1, <1>3, FS_Subset
<1>5. rank \in Injection(P, 1 .. n)
  <2>1. rank \in [P -> 1 .. n]
    BY <1>3
  <2>2. ASSUME NEW i \in P, NEW j \in P, rank[i] = rank[j] PROVE i = j
    <3>1. i \in Int /\ j \in Int
      BY <1>2
    <3> QED BY <3>1, <2>2, <1>4
  <2> QED BY <2>1, <2>2 DEF Injection, IsInjective
<1>6. rank \in Surjection(P, 1 .. n)
  <2>1. IsFiniteSet(1 .. n) /\ Cardinality(1 .. n) = n
    BY <1>2, FS_Interval
  <2> HIDE DEF rank
  <2> QED BY <2>1, <1>5, FS_Injection
<1>7. \A k \in 1 .. n : \E i \in P : Rank(q, S, i) = k
  BY <1>6 DEF Surjection, Rank
<1>8. \A i, j \in P : Rank(q, S, i) = Rank(q, S, j) => i = j
  BY <1>5 DEF Injection, IsInjective, Rank
<1> DEFINE at(k) == CHOOSE i \in P : Rank(q, S, i) = k
<1>9. \A k \in 1 .. n : at(k) \in P /\ Rank(q, S, at(k)) = k
  BY <1>7
<1>10. r = [k \in 1 .. n |-> q[at(k)]]
  BY DEF Keep
<1>11. \A i \in P : i \in DOMAIN q /\ q[i] \in S /\ q[i] \in T
  BY <1>1 DEF Positions
<1>12. \A i \in P : Rank(q, S, i) \in 1 .. n /\ at(Rank(q, S, i)) = i
  <2>1. \A i \in P : Rank(q, S, i) \in 1 .. n
    BY <1>3 DEF Rank
  <2> QED BY <2>1, <1>9, <1>8
<1> HIDE DEF at, n, r
<1>13. r \in Seq(T) /\ DOMAIN r = 1 .. n /\ \A k \in 1 .. n : r[k] = q[at(k)]
  <2>1. \A k \in 1 .. n : q[at(k)] \in T
    BY <1>9, <1>11
  <2> QED BY <2>1, <1>10, <1>2
<1>14. Range(r) = Range(q) \cap S
  <2>1. ASSUME NEW x \in Range(r) PROVE x \in Range(q) \cap S
    BY <1>13, <1>9, <1>11 DEF Range
  <2>2. ASSUME NEW x \in Range(q) \cap S PROVE x \in Range(r)
    <3>1. PICK i \in DOMAIN q : x = q[i]
      BY DEF Range
    <3>2. i \in P
      BY <3>1 DEF Positions
    <3> QED BY <3>1, <3>2, <1>12, <1>13 DEF Range
  <2> QED BY <2>1, <2>2
<1>15. ASSUME IsInjective(q) PROVE IsInjective(r)
  <2> SUFFICES ASSUME NEW a \in 1 .. n, NEW b \in 1 .. n, r[a] = r[b] PROVE a = b
    BY <1>13 DEF IsInjective
  <2>1. at(a) = at(b)
    BY <1>13, <1>9, <1>11, <1>15 DEF IsInjective
  <2> QED BY <2>1, <1>9
<1> QED BY <1>13, <1>14, <1>15 DEF r

(***************************************************************************)
(* The sleep queue.                                                        *)
(***************************************************************************)

\* partition_point has a boundary to return, for either predicate.
LEMMA InsertionPointFacts ==
    ASSUME NEW q \in Seq(SleepEntry), NEW e
    PROVE  /\ InsertionPoint(q, e) \in 0 .. Len(q)
           /\ \A i \in 1 .. InsertionPoint(q, e) : EntryBefore(q[i], e)
           /\ InsertionPoint(q, e) < Len(q) => ~ EntryBefore(q[InsertionPoint(q, e) + 1], e)
<1> DEFINE B == {i \in 1 .. Len(q) : ~ EntryBefore(q[i], e)}
           Good(n) == /\ \A i \in 1 .. n : EntryBefore(q[i], e)
                      /\ n < Len(q) => ~ EntryBefore(q[n + 1], e)
<1>1. Len(q) \in Nat
  OBVIOUS
<1>2. \E n \in 0 .. Len(q) : Good(n)
  <2>1. CASE B = {}
    <3>1. Good(Len(q))
      BY <2>1, <1>1
    <3> QED BY <3>1, <1>1
  <2>2. CASE B # {}
    <3>1. B \in SUBSET (1 .. Len(q)) /\ IsFiniteSet(1 .. Len(q))
      BY <1>1, FS_Interval
    <3>0. B \in SUBSET Int /\ IsFiniteSet(B)
      BY <3>1, FS_Subset
    <3> DEFINE m == Min(B)
    <3>2. m \in B /\ \A y \in B : m <= y
      BY <2>2, <3>0, MinFacts
    <3> HIDE DEF m
    <3>3. m \in 1 .. Len(q) /\ ~ EntryBefore(q[m], e)
      BY <3>2
    <3>4. \A i \in 1 .. m - 1 : EntryBefore(q[i], e)
      BY <3>2, <3>3, <1>1
    <3>5. m - 1 \in 0 .. Len(q) /\ m = (m - 1) + 1
      BY <3>3, <1>1
    <3>6. Good(m - 1)
      BY <3>3, <3>4, <3>5
    <3> QED BY <3>5, <3>6
  <2> QED BY <2>1, <2>2
<1>3. InsertionPoint(q, e) \in 0 .. Len(q) /\ Good(InsertionPoint(q, e))
  BY <1>2 DEF InsertionPoint
<1> QED BY <1>3

\* SleepQueue::expire_until cuts after a prefix of expired entries, in front of
\* one that is not expired.
LEMMA ExpiryPointFacts ==
    ASSUME NEW q \in Seq(SleepEntry), NEW t \in Nat
    PROVE  /\ ExpiryPoint(q, t) \in 0 .. Len(q)
           /\ \A i \in 1 .. ExpiryPoint(q, t) : q[i].deadline <= t
           /\ ExpiryPoint(q, t) < Len(q) => q[ExpiryPoint(q, t) + 1].deadline > t
<1> DEFINE B == {i \in 1 .. Len(q) : q[i].deadline > t}
           Good(n) == /\ \A i \in 1 .. n : q[i].deadline <= t
                      /\ n < Len(q) => q[n + 1].deadline > t
<1>1. Len(q) \in Nat /\ \A i \in 1 .. Len(q) : q[i].deadline \in Nat
  <2>1. Len(q) \in Nat /\ \A i \in 1 .. Len(q) : q[i] \in SleepEntry
    OBVIOUS
  <2> QED BY <2>1 DEF SleepEntry
<1>2. \E n \in 0 .. Len(q) : Good(n)
  <2>1. CASE B = {}
    <3>1. Good(Len(q))
      BY <2>1, <1>1
    <3> QED BY <3>1, <1>1
  <2>2. CASE B # {}
    <3>1. B \in SUBSET (1 .. Len(q)) /\ IsFiniteSet(1 .. Len(q))
      BY <1>1, FS_Interval
    <3>2. B \in SUBSET Int /\ IsFiniteSet(B)
      BY <3>1, FS_Subset
    <3> DEFINE m == Min(B)
    <3>3. m \in B /\ \A y \in B : m <= y
      BY <2>2, <3>2, MinFacts
    <3> HIDE DEF m
    <3>4. m \in 1 .. Len(q) /\ q[m].deadline > t
      BY <3>3
    <3>5. \A i \in 1 .. m - 1 : q[i].deadline <= t
      BY <3>3, <3>4, <1>1
    <3>6. m - 1 \in 0 .. Len(q) /\ m = (m - 1) + 1
      BY <3>4, <1>1
    <3>7. Good(m - 1)
      BY <3>4, <3>5, <3>6
    <3> QED BY <3>6, <3>7
  <2> QED BY <2>1, <2>2
<1>3. ExpiryPoint(q, t) \in 0 .. Len(q) /\ Good(ExpiryPoint(q, t))
  BY <1>2 DEF ExpiryPoint
<1> QED BY <1>3

\* The entries are totally ordered, so an entry goes before all that it does
\* not come after.
LEMMA EntryOrder ==
    ASSUME NEW a \in SleepEntry, NEW b \in SleepEntry, NEW c \in SleepEntry
    PROVE  /\ EntryBefore(a, b) \/ EntryBefore(b, a)
           /\ EntryBefore(a, b) /\ EntryBefore(b, c) => EntryBefore(a, c)
           /\ a.task \in TaskId
<1>1. /\ a.deadline \in Int /\ b.deadline \in Int /\ c.deadline \in Int
      /\ a.task \in TaskId /\ b.task \in TaskId /\ c.task \in TaskId
  BY DEF SleepEntry
<1>2. \A t \in TaskId : t.index \in Int /\ t.generation \in Int
  BY SlotsAssumption, GenerationAssumption DEF TaskId, Index
<1> QED BY <1>1, <1>2 DEF EntryBefore, IdBefore

\* Inserting the entry of a task that is not queued keeps the queue ordered
\* and adds that task to it.
LEMMA InsertSleeperFacts ==
    ASSUME NEW q \in Seq(SleepEntry), NEW e \in SleepEntry
    PROVE  /\ InsertSleeper(q, e) \in Seq(SleepEntry)
           /\ Sleepers(InsertSleeper(q, e)) = Sleepers(q) \cup {e.task}
           /\ SleepOrdered(q) /\ e.task \notin Sleepers(q) => SleepOrdered(InsertSleeper(q, e))
<1> DEFINE n == InsertionPoint(q, e)
           L == Len(q)
           r == InsertSleeper(q, e)
<1>1. L \in Nat /\ DOMAIN q = 1 .. L /\ \A i \in 1 .. L : q[i] \in SleepEntry
  OBVIOUS
<1>2. /\ n \in 0 .. L /\ \A i \in 1 .. n : EntryBefore(q[i], e)
      /\ n < L => ~ EntryBefore(q[n + 1], e)
  BY InsertionPointFacts
<1>3. r = SubSeq(q, 1, n) \o <<e>> \o SubSeq(q, n + 1, L)
  BY DEF InsertSleeper
<1> HIDE DEF n
<1> DEFINE a == SubSeq(q, 1, n)
           z == SubSeq(q, n + 1, L)
<1>4. /\ a \in Seq(SleepEntry) /\ Len(a) = n /\ \A i \in 1 .. n : a[i] = q[i]
      /\ z \in Seq(SleepEntry) /\ Len(z) = L - n /\ \A i \in 1 .. L - n : z[i] = q[n + i]
  <2>1. n \in Int /\ L \in Int /\ n + 1 \in Int /\ n >= 0 /\ n <= L
    BY <1>1, <1>2
  <2>2. \A i \in 1 .. n : q[i] \in SleepEntry
    BY <1>1, <2>1
  <2>3. \A i \in n + 1 .. L : q[i] \in SleepEntry
    BY <1>1, <2>1
  <2> HIDE DEF L
  <2>4. /\ a \in Seq(SleepEntry) /\ Len(a) = IF 1 <= n THEN n - 1 + 1 ELSE 0
        /\ \A i \in 1 .. n - 1 + 1 : a[i] = q[1 + i - 1]
    BY <2>1, <2>2, SubSeqProperties
  <2>5. /\ z \in Seq(SleepEntry) /\ Len(z) = IF n + 1 <= L THEN L - (n + 1) + 1 ELSE 0
        /\ \A i \in 1 .. L - (n + 1) + 1 : z[i] = q[(n + 1) + i - 1]
    BY <2>1, <2>3, SubSeqProperties
  <2> HIDE DEF a, z
  <2>6. Len(a) = n /\ Len(z) = L - n /\ n - 1 + 1 = n /\ L - (n + 1) + 1 = L - n
    BY <2>1, <2>4, <2>5
  <2>7. \A i \in Int : 1 + i - 1 = i /\ (n + 1) + i - 1 = n + i
    BY <2>1
  <2> QED
    <3>1. ASSUME NEW i \in 1 .. n PROVE a[i] = q[i]
      <4>1. i \in 1 .. n - 1 + 1 /\ 1 + i - 1 = i
        BY <2>1
      <4>2. a[i] = q[1 + i - 1]
        BY <4>1, <2>4
      <4> QED BY <4>1, <4>2
    <3>2. ASSUME NEW i \in 1 .. L - n PROVE z[i] = q[n + i]
      BY <2>1, <2>5, <2>6, <2>7
    <3> QED BY <3>1, <3>2, <2>4, <2>5, <2>6
<1> HIDE DEF a, z
<1>5. /\ a \o <<e>> \in Seq(SleepEntry) /\ Len(a \o <<e>>) = n + 1
      /\ \A i \in 1 .. n : (a \o <<e>>)[i] = q[i]
      /\ (a \o <<e>>)[n + 1] = e
  BY <1>2, <1>4
<1>6. /\ r \in Seq(SleepEntry) /\ Len(r) = L + 1 /\ DOMAIN r = 1 .. L + 1
      /\ \A i \in 1 .. n : r[i] = q[i]
      /\ r[n + 1] = e
      /\ \A i \in n + 2 .. L + 1 : r[i] = q[i - 1]
  <2> DEFINE b == a \o <<e>>
  <2> HIDE DEF b
  <2>1. r = b \o z
    BY <1>3 DEF a, z, b
  <2>2. b \in Seq(SleepEntry) /\ Len(b) = n + 1 /\ (\A i \in 1 .. n : b[i] = q[i]) /\ b[n + 1] = e
    BY <1>5 DEF b
  <2>3. b \o z \in Seq(SleepEntry) /\ Len(b \o z) = L + 1
    <3>1. b \o z \in Seq(SleepEntry) /\ Len(b \o z) = Len(b) + Len(z)
      BY <2>2, <1>4, ConcatProperties
    <3> QED BY <3>1, <2>2, <1>4, <1>2, <1>1
  <2>4. \A i \in 1 .. n + 1 : (b \o z)[i] = b[i]
    BY <2>2, <1>4, <1>2, <1>1
  <2>5. \A i \in n + 2 .. L + 1 : (b \o z)[i] = z[i - (n + 1)] /\ i - (n + 1) \in 1 .. L - n /\ n + (i - (n + 1)) = i - 1
    BY <2>2, <1>4, <1>2, <1>1
  <2>6. \A i \in n + 2 .. L + 1 : (b \o z)[i] = q[i - 1]
    <3> SUFFICES ASSUME NEW i \in n + 2 .. L + 1 PROVE (b \o z)[i] = q[i - 1]
      OBVIOUS
    <3> DEFINE k == i - (n + 1)
    <3>1. (b \o z)[i] = z[k] /\ k \in 1 .. L - n /\ n + k = i - 1
      BY <2>5
    <3> HIDE DEF k
    <3>2. z[k] = q[n + k]
      BY <3>1, <1>4
    <3> QED BY <3>1, <3>2
  <2> HIDE DEF r
  <2> QED BY <2>1, <2>2, <2>3, <2>4, <2>6, <1>1, <1>2
<1> HIDE DEF r
<1>7. Sleepers(r) = Sleepers(q) \cup {e.task}
  <2>1. ASSUME NEW i \in 1 .. L + 1 PROVE r[i].task \in Sleepers(q) \cup {e.task}
    <3>1. CASE i \in 1 .. n
      BY <3>1, <1>6, <1>1, <1>2 DEF Sleepers
    <3>2. CASE i = n + 1
      BY <3>2, <1>6
    <3>3. CASE i \in n + 2 .. L + 1
      <4>1. i - 1 \in 1 .. L /\ r[i] = q[i - 1]
        BY <3>3, <1>6, <1>1, <1>2
      <4> QED BY <4>1, <1>1 DEF Sleepers
    <3> QED BY <3>1, <3>2, <3>3, <1>1, <1>2
  <2>2. ASSUME NEW i \in 1 .. L PROVE q[i].task \in Sleepers(r)
    <3>1. CASE i \in 1 .. n
      BY <3>1, <1>6, <1>1, <1>2 DEF Sleepers
    <3>2. CASE i \in n + 1 .. L
      <4>1. i + 1 \in n + 2 .. L + 1 /\ i + 1 \in 1 .. L + 1 /\ (i + 1) - 1 = i
        BY <3>2, <1>1, <1>2
      <4>2. r[i + 1] = q[i]
        BY <4>1, <1>6
      <4> QED BY <4>1, <4>2, <1>6 DEF Sleepers
    <3> QED BY <3>1, <3>2, <1>1, <1>2
  <2>3. e.task \in Sleepers(r)
    <3>1. n + 1 \in DOMAIN r /\ r[n + 1] = e
      BY <1>6, <1>1, <1>2
    <3> QED BY <3>1 DEF Sleepers
  <2> QED BY <2>1, <2>2, <2>3, <1>1, <1>6 DEF Sleepers
<1>8. ASSUME SleepOrdered(q), e.task \notin Sleepers(q) PROVE SleepOrdered(r)
  <2>1. \A i \in n + 1 .. L : EntryBefore(e, q[i])
    <3> SUFFICES ASSUME NEW i \in n + 1 .. L PROVE EntryBefore(e, q[i])
      OBVIOUS
    <3>1. n + 1 \in 1 .. L /\ i \in 1 .. L /\ n < L
      BY <1>1, <1>2
    <3>2. EntryBefore(e, q[n + 1])
      BY <3>1, <1>1, <1>2, EntryOrder
    <3>3. i = n + 1 \/ EntryBefore(q[n + 1], q[i])
      BY <3>1, <1>1, <1>8 DEF SleepOrdered
    <3> QED BY <3>1, <3>2, <3>3, <1>1, EntryOrder
  <2>2. \A i \in 1 .. L : q[i].task # e.task
    BY <1>1, <1>8 DEF Sleepers
  <2>3. ASSUME NEW i \in 1 .. L + 1, NEW j \in 1 .. L + 1, i < j
        PROVE  EntryBefore(r[i], r[j]) /\ r[i].task # r[j].task
    <3>0. \A k, m \in 1 .. L : k < m => EntryBefore(q[k], q[m]) /\ q[k].task # q[m].task
      BY <1>1, <1>8 DEF SleepOrdered
    <3>1. CASE i \in 1 .. n /\ j \in 1 .. n
      BY <3>1, <3>0, <2>3, <1>1, <1>2, <1>6
    <3>2. CASE i \in 1 .. n /\ j = n + 1
      BY <3>2, <2>2, <1>1, <1>2, <1>6
    <3>3. CASE i \in 1 .. n /\ j \in n + 2 .. L + 1
      <4>1. j - 1 \in 1 .. L /\ i \in 1 .. L /\ i < j - 1 /\ r[i] = q[i] /\ r[j] = q[j - 1]
        BY <3>3, <1>1, <1>2, <1>6
      <4> QED BY <4>1, <3>0
    <3>4. CASE i = n + 1 /\ j \in n + 2 .. L + 1
      <4>1. j - 1 \in n + 1 .. L /\ j - 1 \in 1 .. L /\ r[i] = e /\ r[j] = q[j - 1]
        BY <3>4, <1>1, <1>2, <1>6
      <4> QED BY <4>1, <2>1, <2>2
    <3>5. CASE i \in n + 2 .. L + 1 /\ j \in n + 2 .. L + 1
      <4>1. i - 1 \in 1 .. L /\ j - 1 \in 1 .. L /\ i - 1 < j - 1 /\ r[i] = q[i - 1] /\ r[j] = q[j - 1]
        BY <3>5, <2>3, <1>1, <1>2, <1>6
      <4> QED BY <4>1, <3>0
    <3> QED BY <3>1, <3>2, <3>3, <3>4, <3>5, <2>3, <1>1, <1>2
  <2> QED BY <2>3, <1>6 DEF SleepOrdered
<1> QED BY <1>6, <1>7, <1>8 DEF r

\* Removing a task from a sleep queue keeps the queue ordered.
LEMMA RemoveSleeperFacts ==
    ASSUME NEW q \in Seq(SleepEntry), SleepOrdered(q), NEW id
    PROVE  RemoveSleeper(q, id) \in Seq(SleepEntry) /\ SleepOrdered(RemoveSleeper(q, id))
<1> DEFINE L == Len(q)
           n == CHOOSE i \in DOMAIN q : q[i].task = id
           a == SubSeq(q, 1, n - 1)
           z == SubSeq(q, n + 1, L)
           r == a \o z
<1>1. L \in Nat /\ DOMAIN q = 1 .. L /\ \A i \in 1 .. L : q[i] \in SleepEntry
  OBVIOUS
<1>2. CASE id \notin Sleepers(q)
  BY <1>2 DEF RemoveSleeper
<1>3. CASE id \in Sleepers(q)
  <2>1. RemoveSleeper(q, id) = r
    BY <1>3, Zenon DEF RemoveSleeper, RemoveAt
  <2>2. n \in 1 .. L
    BY <1>1, <1>3 DEF Sleepers
  <2> HIDE DEF n
  <2>3. /\ n - 1 \in Int /\ n + 1 \in Int /\ L \in Int
        /\ \A i \in 1 .. n - 1 : q[i] \in SleepEntry
        /\ \A i \in n + 1 .. L : q[i] \in SleepEntry
    BY <1>1, <2>2
  <2>4. a \in Seq(SleepEntry) /\ Len(a) = n - 1 /\ \A i \in 1 .. n - 1 : a[i] = q[i]
    <3> HIDE DEF L
    <3>1. /\ a \in Seq(SleepEntry) /\ Len(a) = IF 1 <= n - 1 THEN (n - 1) - 1 + 1 ELSE 0
          /\ \A i \in 1 .. (n - 1) - 1 + 1 : a[i] = q[1 + i - 1]
      BY <2>3, SubSeqProperties
    <3> HIDE DEF a
    <3>2. Len(a) = n - 1
      BY <2>2, <3>1
    <3>3. ASSUME NEW i \in 1 .. n - 1 PROVE a[i] = q[i]
      <4>1. i \in 1 .. (n - 1) - 1 + 1 /\ 1 + i - 1 = i
        BY <2>2
      <4>2. a[i] = q[1 + i - 1]
        BY <3>1, <4>1
      <4> QED BY <4>1, <4>2
    <3> QED BY <3>1, <3>2, <3>3
  <2>5. z \in Seq(SleepEntry) /\ Len(z) = L - n /\ \A i \in 1 .. L - n : z[i] = q[n + i]
    <3>0. n \in Int /\ 1 <= n /\ n <= L
      BY <1>1, <2>2
    <3> HIDE DEF L
    <3>1. /\ z \in Seq(SleepEntry) /\ Len(z) = IF n + 1 <= L THEN L - (n + 1) + 1 ELSE 0
          /\ \A i \in 1 .. L - (n + 1) + 1 : z[i] = q[(n + 1) + i - 1]
      BY <2>3, SubSeqProperties
    <3> HIDE DEF z
    <3>2. Len(z) = L - n
      BY <2>3, <3>0, <3>1
    <3>3. ASSUME NEW i \in 1 .. L - n PROVE z[i] = q[n + i]
      <4>1. i \in 1 .. L - (n + 1) + 1 /\ (n + 1) + i - 1 = n + i
        BY <2>3, <3>0
      <4>2. z[i] = q[(n + 1) + i - 1]
        BY <3>1, <4>1
      <4> QED BY <4>1, <4>2
    <3> QED BY <3>1, <3>2, <3>3
  <2> HIDE DEF a, z
  <2>6. /\ r \in Seq(SleepEntry) /\ DOMAIN r = 1 .. L - 1
        /\ \A i \in 1 .. n - 1 : r[i] = q[i]
        /\ \A i \in n .. L - 1 : r[i] = q[i + 1]
    <3>1. r \in Seq(SleepEntry) /\ Len(r) = L - 1
      <4>1. r \in Seq(SleepEntry) /\ Len(r) = Len(a) + Len(z)
        BY <2>4, <2>5, ConcatProperties
      <4> QED BY <4>1, <1>1, <2>2, <2>4, <2>5
    <3>2. \A i \in 1 .. n - 1 : r[i] = a[i]
      BY <1>1, <2>2, <2>4, <2>5
    <3>3. \A i \in n .. L - 1 : /\ r[i] = z[i - (n - 1)]
                                /\ i - (n - 1) \in 1 .. L - n /\ n + (i - (n - 1)) = i + 1
      BY <1>1, <2>2, <2>4, <2>5
    <3>4. ASSUME NEW i \in n .. L - 1 PROVE r[i] = q[i + 1]
      <4> DEFINE k == i - (n - 1)
      <4>1. r[i] = z[k] /\ k \in 1 .. L - n /\ n + k = i + 1
        BY <3>3
      <4> HIDE DEF k
      <4>2. z[k] = q[n + k]
        BY <4>1, <2>5
      <4> QED BY <4>1, <4>2
    <3> HIDE DEF r, L
    <3> QED BY <3>1, <3>2, <3>4, <2>4
  <2> HIDE DEF r
  <2>7. ASSUME NEW i \in 1 .. L - 1, NEW j \in 1 .. L - 1, i < j
        PROVE  EntryBefore(r[i], r[j]) /\ r[i].task # r[j].task
    <3>0. \A k, m \in 1 .. L : k < m => EntryBefore(q[k], q[m]) /\ q[k].task # q[m].task
      BY <1>1 DEF SleepOrdered
    <3>1. CASE i \in 1 .. n - 1 /\ j \in 1 .. n - 1
      BY <3>0, <3>1, <2>7, <1>1, <2>2, <2>6
    <3>2. CASE i \in 1 .. n - 1 /\ j \in n .. L - 1
      <4>1. i \in 1 .. L /\ j + 1 \in 1 .. L /\ i < j + 1 /\ r[i] = q[i] /\ r[j] = q[j + 1]
        BY <3>2, <1>1, <2>2, <2>6
      <4> QED BY <4>1, <3>0
    <3>3. CASE i \in n .. L - 1 /\ j \in n .. L - 1
      <4>1. /\ i + 1 \in 1 .. L /\ j + 1 \in 1 .. L /\ i + 1 < j + 1
            /\ r[i] = q[i + 1] /\ r[j] = q[j + 1]
        BY <3>3, <2>7, <1>1, <2>2, <2>6
      <4> QED BY <4>1, <3>0
    <3> QED BY <3>1, <3>2, <3>3, <2>7, <1>1, <2>2
  <2>8. SleepOrdered(r)
    BY <2>6, <2>7 DEF SleepOrdered
  <2> QED BY <2>1, <2>6, <2>8
<1> QED BY <1>2, <1>3

\* Concatenating two queues without a common task.
LEMMA ConcatFacts ==
    ASSUME NEW S, NEW a \in Seq(S), NEW b \in Seq(S)
    PROVE  /\ a \o b \in Seq(S)
           /\ Range(a \o b) = Range(a) \cup Range(b)
           /\ IsInjective(a) /\ IsInjective(b) /\ Range(a) \cap Range(b) = {} => IsInjective(a \o b)
<1> DEFINE c == a \o b
<1>1. Len(a) \in Nat /\ DOMAIN a = 1 .. Len(a) /\ Len(b) \in Nat /\ DOMAIN b = 1 .. Len(b)
  OBVIOUS
<1>2. /\ c \in Seq(S) /\ Len(c) = Len(a) + Len(b)
      /\ \A i \in 1 .. Len(a) + Len(b) : c[i] = IF i <= Len(a) THEN a[i] ELSE b[i - Len(a)]
  BY ConcatProperties
<1> HIDE DEF c
<1>3. DOMAIN c = 1 .. Len(a) + Len(b)
  BY <1>2
<1>4. \A i \in 1 .. Len(a) : i \in DOMAIN c /\ c[i] = a[i]
  BY <1>1, <1>2, <1>3
<1>5. \A i \in 1 .. Len(b) : Len(a) + i \in DOMAIN c /\ c[Len(a) + i] = b[i]
  <2> SUFFICES ASSUME NEW i \in 1 .. Len(b) PROVE Len(a) + i \in DOMAIN c /\ c[Len(a) + i] = b[i]
    OBVIOUS
  <2>1. Len(a) + i \in 1 .. Len(a) + Len(b) /\ ~ (Len(a) + i <= Len(a)) /\ (Len(a) + i) - Len(a) = i
    BY <1>1
  <2> QED BY <2>1, <1>2, <1>3
<1>6. \A i \in DOMAIN c :
          /\ i \in Int
          /\ \/ i \in DOMAIN a /\ c[i] = a[i]
             \/ i - Len(a) \in DOMAIN b /\ c[i] = b[i - Len(a)]
  <2> SUFFICES ASSUME NEW i \in 1 .. Len(a) + Len(b)
               PROVE  \/ i \in DOMAIN a /\ c[i] = a[i]
                      \/ i - Len(a) \in DOMAIN b /\ c[i] = b[i - Len(a)]
    BY <1>3
  <2>1. CASE i <= Len(a)
    BY <2>1, <1>1, <1>2
  <2>2. CASE ~ (i <= Len(a))
    <3>1. i - Len(a) \in 1 .. Len(b)
      BY <2>2, <1>1
    <3> QED BY <3>1, <2>2, <1>1, <1>2
  <2> QED BY <2>1, <2>2
<1>7. Range(c) = Range(a) \cup Range(b)
  <2>1. ASSUME NEW x \in Range(c) PROVE x \in Range(a) \cup Range(b)
    BY <1>6 DEF Range
  <2>2. ASSUME NEW x \in Range(a) PROVE x \in Range(c)
    BY <1>1, <1>4 DEF Range
  <2>3. ASSUME NEW x \in Range(b) PROVE x \in Range(c)
    BY <1>1, <1>5 DEF Range
  <2> QED BY <2>1, <2>2, <2>3
<1>8. ASSUME IsInjective(a), IsInjective(b), Range(a) \cap Range(b) = {} PROVE IsInjective(c)
  <2> SUFFICES ASSUME NEW i \in DOMAIN c, NEW j \in DOMAIN c, c[i] = c[j] PROVE i = j
    BY DEF IsInjective
  <2>1. \A k \in DOMAIN a : a[k] \in Range(a)
    BY DEF Range
  <2>2. \A k \in DOMAIN b : b[k] \in Range(b)
    BY DEF Range
  <2>3. CASE i \in DOMAIN a /\ c[i] = a[i] /\ j \in DOMAIN a /\ c[j] = a[j]
    BY <2>3, <1>8 DEF IsInjective
  <2>4. CASE i - Len(a) \in DOMAIN b /\ c[i] = b[i - Len(a)] /\ j - Len(a) \in DOMAIN b /\ c[j] = b[j - Len(a)]
    <3>1. i - Len(a) = j - Len(a)
      BY <2>4, <1>8 DEF IsInjective
    <3> QED BY <3>1, <1>1, <1>6
  <2> QED BY <2>1, <2>2, <2>3, <2>4, <1>6, <1>8
<1> QED BY <1>2, <1>7, <1>8 DEF c

\* expire_until cuts the queue: the tasks of the prefix, each once, and a rest
\* that is ordered, holds every other sleeper and no deadline that has passed.
LEMMA ExpiryFacts ==
    ASSUME NEW q \in Seq(SleepEntry), SleepOrdered(q), NEW t \in Nat
    PROVE  /\ ExpiredTasks(q, t) \in Seq(TaskId) /\ IsInjective(ExpiredTasks(q, t))
           /\ UnexpiredEntries(q, t) \in Seq(SleepEntry) /\ SleepOrdered(UnexpiredEntries(q, t))
           /\ \A i \in DOMAIN UnexpiredEntries(q, t) : UnexpiredEntries(q, t)[i].deadline > t
           /\ Sleepers(q) \subseteq Range(ExpiredTasks(q, t)) \cup Sleepers(UnexpiredEntries(q, t))
<1> DEFINE n == ExpiryPoint(q, t)
           L == Len(q)
           x == ExpiredTasks(q, t)
           u == UnexpiredEntries(q, t)
<1>1. L \in Nat /\ DOMAIN q = 1 .. L /\ \A i \in 1 .. L : q[i] \in SleepEntry
  OBVIOUS
<1>2. \A i \in 1 .. L : q[i].deadline \in Nat /\ q[i].task \in TaskId
  BY <1>1 DEF SleepEntry
<1>3. n \in 0 .. L /\ (n < L => q[n + 1].deadline > t)
  BY ExpiryPointFacts
<1>4. x = [i \in 1 .. n |-> q[i].task] /\ u = SubSeq(q, n + 1, L)
  BY DEF ExpiredTasks, UnexpiredEntries
<1>5. \A i, j \in 1 .. L : i < j => EntryBefore(q[i], q[j]) /\ q[i].task # q[j].task
  BY <1>1 DEF SleepOrdered
<1> HIDE DEF n, x
<1>6. x \in Seq(TaskId) /\ DOMAIN x = 1 .. n /\ \A i \in 1 .. n : x[i] = q[i].task
  <2>1. \A i \in 1 .. n : q[i].task \in TaskId
    BY <1>1, <1>2, <1>3
  <2> QED BY <2>1, <1>3, <1>4, IsASeq
<1>7. IsInjective(x)
  <2> SUFFICES ASSUME NEW i \in 1 .. n, NEW j \in 1 .. n, x[i] = x[j], i < j PROVE FALSE
    BY <1>3, <1>6 DEF IsInjective
  <2> QED BY <1>1, <1>3, <1>5, <1>6
<1>8. /\ u \in Seq(SleepEntry) /\ DOMAIN u = 1 .. L - n
      /\ \A i \in 1 .. L - n : n + i \in 1 .. L /\ u[i] = q[n + i]
  <2>1. n + 1 \in Int /\ L \in Int /\ \A i \in n + 1 .. L : q[i] \in SleepEntry
    BY <1>1, <1>3
  <2> HIDE DEF L
  <2>2. /\ u \in Seq(SleepEntry) /\ Len(u) = IF n + 1 <= L THEN L - (n + 1) + 1 ELSE 0
        /\ \A i \in 1 .. L - (n + 1) + 1 : u[i] = q[(n + 1) + i - 1]
    BY <1>4, <2>1, SubSeqProperties
  <2> HIDE DEF u
  <2>3. Len(u) = L - n
    BY <1>1, <1>3, <2>2
  <2>4. ASSUME NEW i \in 1 .. L - n PROVE n + i \in 1 .. L /\ u[i] = q[n + i]
    <3>1. i \in 1 .. L - (n + 1) + 1 /\ (n + 1) + i - 1 = n + i /\ n + i \in 1 .. L
      BY <1>1, <1>3, <2>1
    <3> QED BY <3>1, <2>2
  <2> QED BY <2>2, <2>3, <2>4
<1> HIDE DEF u, L
<1>9. SleepOrdered(u)
  <2> SUFFICES ASSUME NEW i \in 1 .. L - n, NEW j \in 1 .. L - n, i < j
               PROVE  EntryBefore(u[i], u[j]) /\ u[i].task # u[j].task
    BY <1>8 DEF SleepOrdered
  <2>1. n + i < n + j
    BY <1>1, <1>3
  <2> QED BY <2>1, <1>5, <1>8
<1>10. ASSUME NEW i \in 1 .. L - n PROVE u[i].deadline > t
  <2>1. n < L /\ n + 1 \in 1 .. L /\ n + i \in 1 .. L /\ n + 1 <= n + i /\ u[i] = q[n + i]
    BY <1>1, <1>3, <1>8
  <2>2. q[n + 1].deadline <= q[n + i].deadline
    <3>1. CASE n + 1 = n + i
      BY <3>1, <2>1, <1>2
    <3>2. CASE n + 1 < n + i
      <4>1. EntryBefore(q[n + 1], q[n + i])
        BY <3>2, <2>1, <1>5
      <4> QED BY <4>1, <2>1, <1>2 DEF EntryBefore
    <3> QED BY <3>1, <3>2, <2>1, <1>1, <1>3
  <2> QED BY <2>1, <2>2, <1>2, <1>3
<1>11. ASSUME NEW k \in 1 .. L PROVE q[k].task \in Range(x) \cup Sleepers(u)
  <2>1. CASE k \in 1 .. n
    BY <2>1, <1>6 DEF Range
  <2>2. CASE k \in n + 1 .. L
    <3>1. k - n \in 1 .. L - n /\ n + (k - n) = k
      BY <2>2, <1>1, <1>3
    <3>2. u[k - n] = q[k]
      BY <3>1, <1>8
    <3> QED BY <3>1, <3>2, <1>8 DEF Sleepers
  <2> QED BY <2>1, <2>2, <1>1, <1>3
<1>12. Sleepers(q) \subseteq Range(x) \cup Sleepers(u)
  BY <1>1, <1>11 DEF Sleepers
<1> QED BY <1>6, <1>7, <1>8, <1>9, <1>10, <1>12 DEF x, u

===============================================================================
