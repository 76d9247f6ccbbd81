-------------------------- MODULE RateLimitProofs --------------------------
(***************************************************************************)
(* The inbound limiter for every number of clients, limit, window and      *)
(* clock bound: its memory is bounded, Retry-After is honoured, and the    *)
(* pruned deque decides like the abstract limiter WindowLimiter.           *)
(***************************************************************************)
EXTENDS RateLimit, FiniteSetTheorems, SequenceTheorems, TLAPS

Times == 0..MaxClock

\* Buckets are in time order and hold nothing from the future.
Sorted ==
  \A c \in Clients :
    /\ \A i \in 1..Len(hits[c]) : hits[c][i] <= clock
    /\ \A i, j \in 1..Len(hits[c]) : i <= j => hits[c][i] <= hits[c][j]

\* The bucket q is the end of the history l; all before it has expired.
LiveEnd(q, l) ==
  LET old == Len(l) - Len(q)
  IN  /\ old >= 0
      /\ \A i \in 1..Len(q) : q[i] = l[old + i]
      /\ \A i \in 1..old : Expired(l[i])
      /\ q = <<>> => l = <<>>

SuffixOfLog == \A c \in Clients : LiveEnd(hits[c], log[c])

\* What a 429 told the client lies just beyond the expiry of its first hit.
ToldBeyondFirst ==
  \A c \in Clients : told[c] # 0 /\ hits[c] # <<>> =>
    /\ hits[c][1] + Window < told[c]
    /\ told[c] <= hits[c][1] + Window + Second

IInv ==
  /\ TypeOK
  /\ Sorted
  /\ SuffixOfLog
  /\ ToldBeyondFirst
  /\ TrackedBounded
-----------------------------------------------------------------------------
(***************************************************************************)
(* Every nonempty set of naturals has a least element; from the            *)
(* well-foundedness of strict inclusion on finite sets.                    *)
(***************************************************************************)
LEMMA LeastElement ==
  ASSUME NEW S, S \subseteq Nat, S # {}
  PROVE  \E m \in S : \A k \in S : m <= k
<1> DEFINE T == {1..n : n \in S}
<1>1. T \subseteq FiniteSubsetsOf(Nat) /\ T # {}
  <2>1. T \subseteq FiniteSubsetsOf(Nat)
    BY FS_Interval DEF FiniteSubsetsOf
  <2>2. T # {}
    OBVIOUS
  <2> QED BY <2>1, <2>2
<1>2. PICK x \in T : \A y \in T : ~(<<y, x>> \in StrictSubsetOrdering(Nat))
  <2>1. IsWellFoundedOn(StrictSubsetOrdering(Nat), FiniteSubsetsOf(Nat))
    BY FS_StrictSubsetOrderingWellFounded
  <2> HIDE DEF T
  <2> QED BY <1>1, <2>1, WFMin
<1>3. PICK m \in S : x = 1..m
  OBVIOUS
<1>4. ASSUME NEW k \in S, k < m PROVE FALSE
  <2>1. 1..k \in T /\ 1..k \subseteq 1..m /\ m \in 1..m /\ m \notin 1..k
    BY <1>4
  <2>2. <<1..k, 1..m>> \in StrictSubsetOrdering(Nat)
    BY <2>1 DEF StrictSubsetOrdering
  <2> QED BY <2>1, <2>2, <1>2, <1>3
<1> QED BY <1>4

(***************************************************************************)
(* The while loop of check() is well defined: it pops a prefix of expired  *)
(* entries and stops at the end or at the first live one.                  *)
(***************************************************************************)
LEMMA DroppedProperties ==
  ASSUME NEW q \in Seq(Times)
  PROVE  /\ Dropped(q) \in 0..Len(q)
         /\ \A i \in 1..Dropped(q) : Expired(q[i])
         /\ Dropped(q) < Len(q) => ~ Expired(q[Dropped(q) + 1])
<1> DEFINE S == {n \in 0..Len(q) : n < Len(q) => ~ Expired(q[n + 1])}
<1>1. Len(q) \in S /\ S \subseteq Nat
  OBVIOUS
<1>2. PICK m \in S : \A k \in S : m <= k
  <2> HIDE DEF S
  <2> QED BY <1>1, LeastElement
<1>3. ASSUME NEW i \in 1..m PROVE Expired(q[i])
  <2>1. i - 1 \in 0..Len(q) /\ i - 1 < Len(q) /\ i - 1 < m
    OBVIOUS
  <2>2. i - 1 \notin S
    BY <2>1, <1>2
  <2> QED BY <2>1, <2>2
<1> QED BY <1>3 DEF Dropped

(***************************************************************************)
(* Pruning a bucket in time order keeps its live entries and only those.   *)
(***************************************************************************)
LEMMA PrunedProperties ==
  ASSUME TypeOK, Sorted, NEW c \in Clients
  PROVE  LET n == Dropped(hits[c])
         IN  /\ Pruned(c) \in Seq(Times)
             /\ n \in 0..Len(hits[c])
             /\ Len(Pruned(c)) = Len(hits[c]) - n
             /\ \A i \in 1..Len(Pruned(c)) : Pruned(c)[i] = hits[c][n + i]
             /\ \A i \in 1..Len(Pruned(c)) : ~ Expired(Pruned(c)[i])
             /\ \A i \in 1..n : Expired(hits[c][i])
<1> DEFINE q == hits[c]
           n == Dropped(q)
<1>1. q \in Seq(Times) /\ clock \in Nat
  BY DEF TypeOK, Times
<1>2. /\ n \in 0..Len(q)
      /\ \A i \in 1..n : Expired(q[i])
      /\ n < Len(q) => ~ Expired(q[n + 1])
  BY <1>1, DroppedProperties
<1>3. /\ Pruned(c) \in Seq(Times)
      /\ Len(Pruned(c)) = Len(q) - n
      /\ \A i \in 1..(Len(q) - n) : Pruned(c)[i] = q[n + i]
  <2> HIDE DEF n, q
  <2>1. Pruned(c) = SubSeq(q, n + 1, Len(q))
    BY DEF Pruned, n, q
  <2> QED BY <1>1, <1>2, <2>1
<1>4. ASSUME NEW i \in 1..(Len(q) - n) PROVE ~ Expired(q[n + i])
  <2>1. n < Len(q) /\ n + 1 \in 1..Len(q) /\ n + i \in 1..Len(q) /\ n + 1 <= n + i
    BY <1>1, <1>2
  <2>2. \A j, k \in 1..Len(q) : j <= k => q[j] <= q[k]
    BY DEF Sorted
  <2> HIDE DEF n, q
  <2>3. q[n + 1] \in Times /\ q[n + i] \in Times
    BY <1>1, <2>1
  <2>4. q[n + 1] <= q[n + i]
    BY <2>1, <2>2
  <2>5. ~ Expired(q[n + 1])
    BY <1>2, <2>1
  <2>6. \A s, t \in Times : s <= t /\ ~ Expired(s) => ~ Expired(t)
    BY <1>1, LimiterAssumption DEF Expired, Times
  <2> QED BY <2>3, <2>4, <2>5, <2>6
<1> QED BY <1>2, <1>3, <1>4
-----------------------------------------------------------------------------
(***************************************************************************)
(* The eviction before an admission makes room for the new bucket and      *)
(* never removes the bucket of the client that asks.                       *)
(***************************************************************************)
LEMMA EvictionMakesRoom ==
  ASSUME TrackedBounded, NEW c \in Clients, NEW gone \in Evictable(c)
  PROVE  /\ IsFiniteSet((Tracked \ gone) \cup {c})
         /\ Cardinality((Tracked \ gone) \cup {c}) <= MaxClients
         /\ gone # {} => c \notin Tracked /\ Cardinality(Tracked) >= MaxClients
                         /\ \E v \in Tracked : gone = {v}
         /\ gone = {} => c \in Tracked \/ Cardinality(Tracked) < MaxClients
<1>1. IsFiniteSet(Tracked) /\ Cardinality(Tracked) \in Nat
  BY LimiterAssumption, FS_Subset, FS_CardinalityType DEF Tracked
<1>2. CASE c \notin Tracked /\ Cardinality(Tracked) >= MaxClients
  <2>1. PICK v \in Tracked : gone = {v}
    BY <1>2 DEF Evictable, Oldest
  <2>2. /\ IsFiniteSet(Tracked \ {v})
        /\ Cardinality(Tracked \ {v}) = Cardinality(Tracked) - 1
    BY <1>1, FS_RemoveElement
  <2>3. /\ IsFiniteSet((Tracked \ {v}) \cup {c})
        /\ Cardinality((Tracked \ {v}) \cup {c}) = Cardinality(Tracked \ {v}) + 1
    BY <1>2, <2>2, FS_AddElement
  <2> QED BY <1>1, <1>2, <2>1, <2>2, <2>3, LimiterAssumption DEF TrackedBounded
<1>3. CASE c \in Tracked
  <2>1. gone = {} /\ (Tracked \ gone) \cup {c} = Tracked
    BY <1>3 DEF Evictable
  <2> QED BY <1>1, <1>3, <2>1 DEF TrackedBounded
<1>4. CASE c \notin Tracked /\ ~(Cardinality(Tracked) >= MaxClients)
  <2>1. gone = {} /\ (Tracked \ gone) \cup {c} = Tracked \cup {c}
    BY <1>4 DEF Evictable
  <2>2. /\ IsFiniteSet(Tracked \cup {c})
        /\ Cardinality(Tracked \cup {c}) = Cardinality(Tracked) + 1
    BY <1>1, <1>4, FS_AddElement
  <2> QED BY <1>1, <1>4, <2>1, <2>2, LimiterAssumption
<1> QED BY <1>2, <1>3, <1>4

(***************************************************************************)
(* Retry-After, for a bucket whose first entry is live, is the least whole *)
(* number of seconds that reaches beyond that entry's expiry.              *)
(***************************************************************************)
LEMMA RetryAfterBounds ==
  ASSUME clock \in Nat, NEW q, q[1] \in Nat, q[1] <= clock, ~ Expired(q[1])
  PROVE  /\ RetryAfter(q) \in Nat
         /\ clock + Second * RetryAfter(q) > q[1] + Window
         /\ clock + Second * RetryAfter(q) <= q[1] + Window + Second
<1> DEFINE x == Window - (clock - q[1])
           k == x \div Second
<1>1. x \in Nat
  BY LimiterAssumption DEF Expired
<1>2. k \in Nat /\ Second * (k + 1) > x /\ Second * k <= x
  <2> HIDE DEF x
  <2> QED BY <1>1, LimiterAssumption
<1>3. RetryAfter(q) = k + 1
  <2>1. RetryAfter(q) = IF k + 1 > 1 THEN k + 1 ELSE 1
    BY DEF RetryAfter
  <2> HIDE DEF k
  <2> QED BY <1>2, <2>1
<1>4. Second * (k + 1) = Second * k + Second
  <2> HIDE DEF k
  <2> QED BY <1>2, LimiterAssumption
<1>5. Second * (k + 1) \in Nat /\ k + 1 \in Nat
  <2> HIDE DEF k
  <2> QED BY <1>2, LimiterAssumption
<1>6. clock + x = q[1] + Window
  BY LimiterAssumption
<1> HIDE DEF x, k
<1>7. /\ clock + Second * (k + 1) > clock + x
      /\ clock + Second * (k + 1) <= clock + x + Second
  <2> DEFINE y == Second * (k + 1)
             z == Second * k
  <2>1. y > x /\ z <= x /\ y = z + Second /\ y \in Nat
    BY <1>2, <1>4, <1>5
  <2>2. z \in Nat
    BY <1>2, LimiterAssumption
  <2> HIDE DEF y, z
  <2>3. clock + y > clock + x /\ clock + y <= clock + x + Second
    BY <1>1, <2>1, <2>2, LimiterAssumption
  <2> QED BY <2>3 DEF y
<1> QED BY <1>3, <1>5, <1>6, <1>7
-----------------------------------------------------------------------------
(***************************************************************************)
(* The pruned bucket is exactly the live end of the client's history.      *)
(***************************************************************************)
LEMMA PrunedIsLiveHistory ==
  ASSUME TypeOK, Sorted, SuffixOfLog, NEW c \in Clients
  PROVE  LET o == Len(log[c]) - Len(Pruned(c))
         IN  /\ o \in 0..Len(log[c])
             /\ \A i \in 1..Len(Pruned(c)) : Pruned(c)[i] = log[c][o + i]
             /\ \A i \in 1..o : Expired(log[c][i])
             /\ \A i \in (o + 1)..Len(log[c]) : ~ Expired(log[c][i])
<1> DEFINE P == Pruned(c)
           n == Dropped(hits[c])
           h == Len(hits[c])
           l == Len(log[c])
           old == l - h
           o == l - Len(P)
<1>1. /\ P \in Seq(Times) /\ n \in 0..h /\ Len(P) = h - n
      /\ \A i \in 1..Len(P) : P[i] = hits[c][n + i] /\ ~ Expired(P[i])
      /\ \A i \in 1..n : Expired(hits[c][i])
  BY PrunedProperties
<1>2. /\ old >= 0
      /\ \A i \in 1..h : hits[c][i] = log[c][old + i]
      /\ \A i \in 1..old : Expired(log[c][i])
  BY DEF SuffixOfLog, LiveEnd
<1>3. h \in Nat /\ l \in Nat
  BY DEF TypeOK
<1> HIDE DEF P, n, h, l
<1>4. /\ old \in Nat /\ n \in Nat /\ Len(P) \in Nat
      /\ o = old + n /\ l = o + Len(P) /\ h = n + Len(P) /\ o \in 0..l
  BY <1>1, <1>2, <1>3
<1> HIDE DEF old, o
<1>5. ASSUME NEW i \in 1..Len(P) PROVE P[i] = log[c][o + i]
  <2>1. n + i \in 1..h /\ old + (n + i) = o + i
    BY <1>4
  <2> QED BY <1>1, <1>2, <2>1
<1>6. ASSUME NEW i \in 1..o PROVE Expired(log[c][i])
  <2>1. CASE i <= old
    BY <1>2, <1>4, <2>1
  <2>2. CASE ~(i <= old)
    <3>1. i - old \in 1..n /\ i - old \in 1..h /\ old + (i - old) = i
      BY <1>4, <2>2
    <3> QED BY <1>1, <1>2, <3>1
  <2> QED BY <2>1, <2>2
<1>7. ASSUME NEW i \in (o + 1)..l PROVE ~ Expired(log[c][i])
  <2>1. i - o \in 1..Len(P) /\ o + (i - o) = i
    BY <1>4
  <2> QED BY <1>1, <1>5, <2>1
<1> QED BY <1>4, <1>5, <1>6, <1>7 DEF o, l, P
-----------------------------------------------------------------------------
\* The limiter starts with no buckets: the invariant holds initially.
LEMMA InitInvariant == Init => IInv
<1> SUFFICES ASSUME Init PROVE IInv
  OBVIOUS
<1>1. TypeOK
  BY LimiterAssumption DEF Init, TypeOK
<1>2. Sorted /\ SuffixOfLog /\ ToldBeyondFirst
  BY DEF Init, Sorted, SuffixOfLog, LiveEnd, ToldBeyondFirst
<1>3. TrackedBounded
  <2>1. Tracked = {}
    BY DEF Init, Tracked
  <2> QED BY <2>1, FS_EmptySet, LimiterAssumption DEF TrackedBounded
<1> QED BY <1>1, <1>2, <1>3 DEF IInv

\* Time passing only expires entries.
LEMMA TickInvariant == IInv /\ Tick => IInv'
<1> SUFFICES ASSUME IInv, Tick PROVE IInv'
  OBVIOUS
<1> USE DEF IInv, Tick
<1>1. TypeOK'
  BY LimiterAssumption DEF TypeOK
<1>2. Sorted'
  <2>1. ASSUME NEW c \in Clients, NEW i \in 1..Len(hits[c]) PROVE hits[c][i] <= clock'
    <3>1. hits[c] \in Seq(Times) /\ clock \in Nat /\ clock' = clock + 1
      BY DEF TypeOK, Times
    <3>2. hits[c][i] <= clock
      BY DEF Sorted
    <3>3. hits[c][i] \in Times
      BY <3>1
    <3> QED BY <3>1, <3>2, <3>3, LimiterAssumption DEF Times
  <2> QED BY <2>1 DEF Sorted
<1>3. SuffixOfLog'
  <2> SUFFICES ASSUME NEW c \in Clients,
                      NEW i \in 1..(Len(log[c]) - Len(hits[c]))
               PROVE  Expired(log[c][i])'
    BY DEF SuffixOfLog, LiveEnd
  <2>1. Expired(log[c][i])
    BY DEF SuffixOfLog, LiveEnd
  <2>2. log[c][i] \in Times
    <3>1. log[c] \in Seq(Times) /\ hits[c] \in Seq(Times)
      BY DEF TypeOK, Times
    <3>2. Len(log[c]) \in Nat /\ Len(hits[c]) \in Nat
      BY <3>1
    <3>3. i \in 1..Len(log[c])
      BY <3>2
    <3> QED BY <3>1, <3>3
  <2> QED BY <2>1, <2>2, LimiterAssumption DEF Expired, TypeOK, Times
<1>4. ToldBeyondFirst'
  BY DEF ToldBeyondFirst
<1>5. TrackedBounded'
  BY DEF TrackedBounded, Tracked
<1> QED BY <1>1, <1>2, <1>3, <1>4, <1>5

\* An admission, with its eviction, keeps the invariant.
LEMMA AdmitInvariant ==
  ASSUME IInv, NEW c \in Clients, Admit(c)
  PROVE  IInv'
<1> USE DEF IInv
<1> DEFINE P == Pruned(c)
           n == Dropped(hits[c])
<1>1. PICK gone \in Evictable(c) :
        /\ hits' = [d \in Clients |-> CASE d = c               -> Append(P, clock)
                                        [] d # c /\ d \in gone -> <<>>
                                        [] OTHER               -> hits[d]]
        /\ log' = [d \in Clients |-> CASE d = c               -> Append(log[c], clock)
                                       [] d # c /\ d \in gone -> <<>>
                                       [] OTHER               -> log[d]]
  BY DEF Admit
<1>2. /\ P \in Seq(Times)
      /\ n \in 0..Len(hits[c])
      /\ Len(P) = Len(hits[c]) - n
      /\ \A i \in 1..Len(P) : P[i] = hits[c][n + i]
      /\ \A i \in 1..n : Expired(hits[c][i])
  BY PrunedProperties
<1>3. /\ Len(P) < Limit
      /\ clock' = clock
      /\ told' = [told EXCEPT ![c] = 0]
  BY DEF Admit, HasRoom
<1>4. clock \in Times /\ clock \in Nat /\ hits[c] \in Seq(Times) /\ log[c] \in Seq(Times)
  BY LimiterAssumption DEF TypeOK, Times
<1>5. /\ hits'[c] = Append(P, clock)
      /\ log'[c] = Append(log[c], clock)
  BY <1>1
<1>6. \A d \in Clients \ {c} :
        \/ hits'[d] = hits[d] /\ log'[d] = log[d]
        \/ hits'[d] = <<>> /\ log'[d] = <<>>
  BY <1>1
<1> HIDE DEF P, n
<1>7. /\ hits'[c] \in Seq(Times) /\ Len(hits'[c]) = Len(P) + 1
      /\ \A i \in 1..Len(P) : hits'[c][i] = P[i]
      /\ hits'[c][Len(P) + 1] = clock
  <2>1. P \in Seq(Times) /\ clock \in Times
    BY <1>2, <1>4
  <2> QED BY <1>5, <2>1, AppendProperties
<1>8. /\ log'[c] \in Seq(Times) /\ Len(log'[c]) = Len(log[c]) + 1
      /\ \A i \in 1..Len(log[c]) : log'[c][i] = log[c][i]
      /\ log'[c][Len(log[c]) + 1] = clock
  BY <1>4, <1>5, AppendProperties
<1>9. TypeOK'
  <2>1. \A d \in Clients : hits'[d] \in Seq(Times) /\ log'[d] \in Seq(Times)
    <3>1. \A d \in Clients : hits[d] \in Seq(Times) /\ log[d] \in Seq(Times)
      BY DEF TypeOK, Times
    <3>2. <<>> \in Seq(Times)
      OBVIOUS
    <3>3. \A d \in Clients \ {c} : hits'[d] \in Seq(Times) /\ log'[d] \in Seq(Times)
      BY <1>6, <3>1, <3>2
    <3> QED BY <1>7, <1>8, <3>3
  <2>2. /\ hits' \in [Clients -> Seq(Times)]
        /\ log' \in [Clients -> Seq(Times)]
    <3>1. DOMAIN hits' = Clients /\ hits' = [d \in Clients |-> hits'[d]]
      BY <1>1
    <3>2. DOMAIN log' = Clients /\ log' = [d \in Clients |-> log'[d]]
      BY <1>1
    <3> QED BY <2>1, <3>1, <3>2
  <2>3. told' \in [Clients -> Nat]
    BY <1>3 DEF TypeOK
  <2>4. \A d \in Clients : Len(hits'[d]) <= Limit
    <3>1. Len(hits'[c]) <= Limit
      BY <1>2, <1>3, <1>4, <1>7, LimiterAssumption
    <3>2. \A d \in Clients \ {c} : Len(hits'[d]) <= Limit
      BY <1>6, LimiterAssumption DEF TypeOK
    <3> QED BY <3>1, <3>2
  <2> QED BY <1>3, <2>2, <2>3, <2>4 DEF TypeOK, Times
<1>10. Sorted'
  <2>1. \A i \in 1..Len(hits[c]) : hits[c][i] \in Times /\ hits[c][i] <= clock
    BY <1>4 DEF Sorted
  <2>2. ASSUME NEW i \in 1..Len(P) PROVE P[i] <= clock
    <3>1. n + i \in 1..Len(hits[c])
      BY <1>2, <1>4
    <3> QED BY <1>2, <2>1, <3>1
  <2>3. \A i, j \in 1..Len(P) : i <= j => P[i] <= P[j]
    <3> SUFFICES ASSUME NEW i \in 1..Len(P), NEW j \in 1..Len(P), i <= j
                 PROVE  P[i] <= P[j]
      OBVIOUS
    <3>1. n + i \in 1..Len(hits[c]) /\ n + j \in 1..Len(hits[c]) /\ n + i <= n + j
      BY <1>2, <1>4
    <3>2. hits[c][n + i] <= hits[c][n + j]
      BY <3>1 DEF Sorted
    <3> QED BY <1>2, <3>2
  <2>4. /\ \A i \in 1..Len(hits'[c]) : hits'[c][i] <= clock
        /\ \A i, j \in 1..Len(hits'[c]) : i <= j => hits'[c][i] <= hits'[c][j]
    <3>1. Len(P) \in Nat
      BY <1>2
    <3>2. \A i \in 1..Len(hits'[c]) : i \in 1..Len(P) \/ i = Len(P) + 1
      BY <1>7, <3>1
    <3>3. \A i \in 1..Len(hits'[c]) : hits'[c][i] <= clock
      BY <1>4, <1>7, <2>2, <3>2
    <3>4. ASSUME NEW i \in 1..Len(hits'[c]), NEW j \in 1..Len(hits'[c]), i <= j
          PROVE  hits'[c][i] <= hits'[c][j]
      <4>1. CASE j = Len(P) + 1
        BY <1>7, <3>3, <4>1
      <4>2. CASE j # Len(P) + 1
        <5>1. j \in 1..Len(P) /\ i \in 1..Len(P)
          BY <3>1, <3>2, <3>4, <4>2
        <5> QED BY <1>7, <2>3, <3>4, <5>1
      <4> QED BY <4>1, <4>2
    <3> QED BY <3>3, <3>4
  <2>5. \A d \in Clients \ {c} :
          /\ \A i \in 1..Len(hits'[d]) : hits'[d][i] <= clock
          /\ \A i, j \in 1..Len(hits'[d]) : i <= j => hits'[d][i] <= hits'[d][j]
    BY <1>6 DEF Sorted
  <2> QED BY <1>3, <2>4, <2>5 DEF Sorted
<1>11. SuffixOfLog'
  <2> DEFINE o == Len(log[c]) - Len(P)
  <2>1. /\ o \in 0..Len(log[c])
        /\ \A i \in 1..Len(P) : P[i] = log[c][o + i]
        /\ \A i \in 1..o : Expired(log[c][i])
    BY PrunedIsLiveHistory DEF P
  <2>2. Len(log'[c]) - Len(hits'[c]) = o /\ o + Len(P) = Len(log[c])
    BY <1>2, <1>4, <1>7, <1>8
  <2> HIDE DEF o
  <2>3. ASSUME NEW i \in 1..Len(hits'[c]) PROVE hits'[c][i] = log'[c][o + i]
    <3>1. CASE i = Len(P) + 1
      BY <1>4, <1>7, <1>8, <2>1, <2>2, <3>1
    <3>2. CASE i # Len(P) + 1
      <4>1. i \in 1..Len(P) /\ o + i \in 1..Len(log[c])
        <5>1. Len(P) \in Nat /\ Len(log[c]) \in Nat /\ o \in Nat
          BY <1>2, <1>4, <2>1
        <5> QED BY <1>7, <2>2, <3>2, <5>1
      <4> QED BY <1>7, <1>8, <2>1, <4>1
    <3> QED BY <3>1, <3>2
  <2>4. ASSUME NEW i \in 1..o PROVE Expired(log'[c][i])
    <3>1. i \in 1..Len(log[c])
      BY <1>4, <2>1
    <3>2. log'[c][i] = log[c][i]
      BY <1>8, <3>1
    <3>3. Expired(log[c][i])
      BY <2>1
    <3> QED BY <3>2, <3>3
  <2>5. hits'[c] # <<>>
    BY <1>2, <1>7
  <2>6. LiveEnd(hits[c], log[c])'
    <3>1. Len(hits'[c]) \in Nat /\ Len(log'[c]) \in Nat /\ o >= 0
      BY <1>7, <1>8, <2>1
    <3> QED BY <1>3, <2>2, <2>3, <2>4, <2>5, <3>1 DEF LiveEnd, Expired
  <2>7. ASSUME NEW d \in Clients \ {c} PROVE LiveEnd(hits[d], log[d])'
    <3>1. CASE hits'[d] = hits[d] /\ log'[d] = log[d]
      <4>1. LiveEnd(hits[d], log[d])
        BY DEF SuffixOfLog
      <4> QED BY <1>3, <3>1, <4>1 DEF LiveEnd, Expired
    <3>2. CASE hits'[d] = <<>> /\ log'[d] = <<>>
      BY <3>2 DEF LiveEnd
    <3> QED BY <1>6, <3>1, <3>2
  <2> QED BY <2>6, <2>7 DEF SuffixOfLog
<1>12. ToldBeyondFirst'
  <2>1. told'[c] = 0 /\ \A d \in Clients \ {c} : told'[d] = told[d]
    BY <1>3 DEF TypeOK
  <2> QED BY <1>6, <2>1 DEF ToldBeyondFirst
<1>13. TrackedBounded'
  <2>1. Tracked' \subseteq (Tracked \ gone) \cup {c}
    BY <1>1 DEF Tracked
  <2>2. /\ IsFiniteSet((Tracked \ gone) \cup {c})
        /\ Cardinality((Tracked \ gone) \cup {c}) <= MaxClients
    BY EvictionMakesRoom
  <2>3. /\ Cardinality(Tracked') <= Cardinality((Tracked \ gone) \cup {c})
        /\ Cardinality(Tracked') \in Nat
        /\ Cardinality((Tracked \ gone) \cup {c}) \in Nat
    BY <2>1, <2>2, FS_Subset, FS_CardinalityType
  <2> QED BY <2>2, <2>3, LimiterAssumption DEF TrackedBounded
<1> QED BY <1>9, <1>10, <1>11, <1>12, <1>13

\* A 429 only prunes, and tells the time its promise is about.
LEMMA RejectInvariant ==
  ASSUME IInv, NEW c \in Clients, Reject(c)
  PROVE  IInv'
<1> USE DEF IInv
<1> DEFINE P == Pruned(c)
           n == Dropped(hits[c])
           back == clock + Second * RetryAfter(P)
<1>1. /\ P \in Seq(Times)
      /\ n \in 0..Len(hits[c])
      /\ Len(P) = Len(hits[c]) - n
      /\ \A i \in 1..Len(P) : P[i] = hits[c][n + i]
      /\ \A i \in 1..Len(P) : ~ Expired(P[i])
  BY PrunedProperties
<1>2. /\ ~(Len(P) < Limit)
      /\ clock' = clock /\ log' = log
      /\ hits' = [hits EXCEPT ![c] = P]
      /\ told' = [told EXCEPT ![c] = back]
  BY DEF Reject, HasRoom
<1>3. clock \in Times /\ clock \in Nat /\ hits[c] \in Seq(Times) /\ log[c] \in Seq(Times)
  BY LimiterAssumption DEF TypeOK, Times
<1>4. /\ hits'[c] = P /\ told'[c] = back
      /\ \A d \in Clients \ {c} : hits'[d] = hits[d] /\ told'[d] = told[d]
  BY <1>2 DEF TypeOK
<1> HIDE DEF n
<1>5. Len(P) \in Nat /\ P # <<>> /\ Len(P) >= 1 /\ Len(P) <= Len(hits[c])
  <2> HIDE DEF P
  <2> QED BY <1>1, <1>2, <1>3, LimiterAssumption
<1>6. ASSUME NEW i \in 1..Len(P)
      PROVE  n + i \in 1..Len(hits[c]) /\ P[i] = hits[c][n + i] /\ P[i] \in Times
  <2> HIDE DEF P
  <2> QED BY <1>1, <1>3, <1>5
<1>7. /\ back \in Nat
      /\ back > P[1] + Window
      /\ back <= P[1] + Window + Second
  <2>1. P[1] \in Nat /\ P[1] <= clock /\ ~ Expired(P[1])
    <3>1. 1 \in 1..Len(P)
      BY <1>5
    <3>2. P[1] \in Times /\ n + 1 \in 1..Len(hits[c]) /\ P[1] = hits[c][n + 1]
      BY <1>6, <3>1
    <3>3. hits[c][n + 1] <= clock
      BY <3>2 DEF Sorted
    <3> HIDE DEF P
    <3> QED BY <1>1, <3>1, <3>2, <3>3, LimiterAssumption DEF Times
  <2> HIDE DEF P
  <2>2. /\ RetryAfter(P) \in Nat
        /\ back > P[1] + Window
        /\ back <= P[1] + Window + Second
    BY <1>3, <2>1, RetryAfterBounds
  <2> QED BY <1>3, <2>2, LimiterAssumption
<1> HIDE DEF P, back
<1>8. TypeOK'
  <2>1. hits' \in [Clients -> Seq(Times)]
    BY <1>1, <1>2 DEF TypeOK, Times
  <2>2. \A d \in Clients : Len(hits'[d]) <= Limit
    <3>1. Len(hits[c]) <= Limit /\ Len(hits[c]) \in Nat
      BY <1>3 DEF TypeOK
    <3>2. Len(hits'[c]) <= Limit
      BY <1>4, <1>5, <3>1, LimiterAssumption
    <3> QED BY <1>4, <3>2 DEF TypeOK
  <2>3. told' \in [Clients -> Nat]
    BY <1>2, <1>7 DEF TypeOK
  <2> QED BY <1>2, <2>1, <2>2, <2>3 DEF TypeOK, Times
<1>9. Sorted'
  <2>1. \A i \in 1..Len(P) : P[i] <= clock
    BY <1>6 DEF Sorted
  <2>2. ASSUME NEW i \in 1..Len(P), NEW j \in 1..Len(P), i <= j PROVE P[i] <= P[j]
    <3>1. n + i <= n + j
      BY <1>1, <1>3, <2>2
    <3>2. hits[c][n + i] <= hits[c][n + j]
      BY <1>6, <3>1 DEF Sorted
    <3> QED BY <1>6, <3>2
  <2> QED BY <1>2, <1>4, <2>1, <2>2 DEF Sorted
<1>10. SuffixOfLog'
  <2> DEFINE o == Len(log[c]) - Len(P)
  <2>1. /\ o \in 0..Len(log[c])
        /\ \A i \in 1..Len(P) : P[i] = log[c][o + i]
        /\ \A i \in 1..o : Expired(log[c][i])
    BY PrunedIsLiveHistory DEF P
  <2>2. o >= 0
    BY <1>3, <2>1
  <2>3. LiveEnd(hits[c], log[c])'
    BY <1>2, <1>4, <1>5, <2>1, <2>2 DEF LiveEnd, Expired
  <2>4. ASSUME NEW d \in Clients \ {c} PROVE LiveEnd(hits[d], log[d])'
    <3>1. LiveEnd(hits[d], log[d])
      BY DEF SuffixOfLog
    <3> QED BY <1>2, <1>4, <3>1 DEF LiveEnd, Expired
  <2> QED BY <2>3, <2>4 DEF SuffixOfLog
<1>11. ToldBeyondFirst'
  <2>1. hits'[c][1] + Window < told'[c] /\ told'[c] <= hits'[c][1] + Window + Second
    <3>1. P[1] \in Nat
      BY <1>5, <1>6 DEF Times
    <3> QED BY <1>4, <1>7, <3>1, LimiterAssumption
  <2> QED BY <1>4, <2>1 DEF ToldBeyondFirst
<1>12. TrackedBounded'
  <2>1. hits[c] # <<>>
    BY <1>3, <1>5
  <2>2. Tracked' = Tracked
    BY <1>4, <1>5, <2>1 DEF Tracked
  <2> QED BY <2>2 DEF TrackedBounded
<1> QED BY <1>8, <1>9, <1>10, <1>11, <1>12

(***************************************************************************)
(* The invariant holds in every reachable state.                           *)
(***************************************************************************)
THEOREM InvariantHolds == Spec => []IInv
<1>1. Init => IInv
  BY InitInvariant
<1>2. IInv /\ [Next]_vars => IInv'
  <2> SUFFICES ASSUME IInv, [Next]_vars PROVE IInv'
    OBVIOUS
  <2>1. CASE Tick
    BY <2>1, TickInvariant
  <2>2. ASSUME NEW c \in Clients, Admit(c) PROVE IInv'
    BY <2>2, AdmitInvariant
  <2>3. ASSUME NEW c \in Clients, Reject(c) PROVE IInv'
    BY <2>3, RejectInvariant
  <2>4. CASE UNCHANGED vars
    BY <2>4 DEF vars, IInv, TypeOK, Sorted, SuffixOfLog, LiveEnd, Expired,
                ToldBeyondFirst, TrackedBounded, Tracked
  <2> QED BY <2>1, <2>2, <2>3, <2>4 DEF Next
<1> QED BY <1>1, <1>2, PTL DEF Spec
-----------------------------------------------------------------------------
(***************************************************************************)
(* Clock readings stay numbers and no bucket outgrows _LIMIT.              *)
(***************************************************************************)
THEOREM TypeCorrect == Spec => []TypeOK
<1>1. IInv => TypeOK
  BY DEF IInv
<1> QED BY <1>1, InvariantHolds, PTL

(***************************************************************************)
(* _hits never holds more than _MAX_CLIENTS buckets (README.md:25).        *)
(***************************************************************************)
THEOREM ClientStateIsBounded == Spec => []TrackedBounded
<1>1. IInv => TrackedBounded
  BY DEF IInv
<1> QED BY <1>1, InvariantHolds, PTL

(***************************************************************************)
(* A client that waits as long as the last Retry-After said is admitted,   *)
(* and was not asked to wait more than a second too long.                  *)
(***************************************************************************)
THEOREM RetryAfterIsHonoured == Spec => []RetryPromise
<1>1. IInv => RetryPromise
  <2> SUFFICES ASSUME IInv, NEW c \in Clients, told[c] # 0
               PROVE  /\ clock >= told[c] => HasRoom(c)
                      /\ hits[c] # <<>> => told[c] <= hits[c][1] + Window + Second
    BY DEF RetryPromise
  <2> USE DEF IInv
  <2>1. hits[c] # <<>> => told[c] <= hits[c][1] + Window + Second
    BY DEF ToldBeyondFirst
  <2>2. ASSUME clock >= told[c] PROVE HasRoom(c)
    <3> DEFINE n == Dropped(hits[c])
               P == Pruned(c)
    <3>1. /\ P \in Seq(Times) /\ n \in 0..Len(hits[c]) /\ Len(P) = Len(hits[c]) - n
          /\ \A i \in 1..Len(P) : P[i] = hits[c][n + i] /\ ~ Expired(P[i])
      BY PrunedProperties
    <3>2. hits[c] \in Seq(Times) /\ Len(hits[c]) <= Limit /\ clock \in Nat /\ told[c] \in Nat
      BY DEF TypeOK, Times
    <3>3. HasRoom(c) <=> Len(P) < Limit
      BY DEF HasRoom
    <3> HIDE DEF n, P
    <3>4. CASE hits[c] = <<>>
      BY <3>1, <3>2, <3>3, <3>4, LimiterAssumption
    <3>5. CASE hits[c] # <<>>
      <4>1. hits[c][1] \in Times /\ Len(hits[c]) >= 1
        BY <3>2, <3>5
      <4>2. hits[c][1] + Window < told[c]
        BY <3>5 DEF ToldBeyondFirst
      <4>3. Expired(hits[c][1])
        BY <2>2, <3>2, <4>1, <4>2, LimiterAssumption DEF Expired, Times
      <4>4. n # 0
        <5> SUFFICES ASSUME n = 0 PROVE FALSE
          OBVIOUS
        <5>1. 1 \in 1..Len(P) /\ n + 1 = 1
          BY <3>1, <4>1
        <5> QED BY <3>1, <4>3, <5>1
      <4> QED BY <3>1, <3>2, <3>3, <4>1, <4>4, LimiterAssumption
    <3> QED BY <3>4, <3>5
  <2> QED BY <2>1, <2>2
<1> QED BY <1>1, InvariantHolds, PTL

(***************************************************************************)
(* The instance counts sets as this module does.                           *)
(***************************************************************************)
LEMMA SameCardinality ==
  ASSUME NEW S PROVE Abstract!Cardinality(S) = Cardinality(S)
BY DEF Abstract!Cardinality, Cardinality

(***************************************************************************)
(* The abstract limiter counts the same admissions as the pruned deque.    *)
(***************************************************************************)
LEMMA SameCount ==
  ASSUME IInv, NEW c \in Clients
  PROVE  /\ Abstract!Cardinality(Abstract!Recent(c)) = Len(Pruned(c))
         /\ Abstract!Known = Tracked
         /\ Abstract!Cardinality(Abstract!Known) = Cardinality(Tracked)
<1> USE DEF IInv
<1> DEFINE P == Pruned(c)
           l == Len(log[c])
           o == l - Len(P)
<1>1. /\ o \in 0..l
      /\ \A i \in 1..o : Expired(log[c][i])
      /\ \A i \in (o + 1)..l : ~ Expired(log[c][i])
  BY PrunedIsLiveHistory
<1>2. log[c] \in Seq(Times) /\ l \in Nat /\ DOMAIN log[c] = 1..l /\ clock \in Nat
  BY DEF TypeOK, Times
<1>3. P \in Seq(Times) /\ Len(P) \in Nat
  <2>1. P \in Seq(Times)
    BY PrunedProperties
  <2> QED BY <2>1
<1> HIDE DEF P
<1>4. Abstract!Recent(c) = (o + 1)..l
  <2>1. Abstract!Recent(c) = {i \in 1..l : clock - log[c][i] <= Window}
    BY <1>2 DEF Abstract!Recent
  <2>2. \A i \in 1..l : (clock - log[c][i] <= Window) <=> ~ Expired(log[c][i])
    <3>1. \A i \in 1..l : log[c][i] \in Times
      BY <1>2
    <3> QED BY <1>2, <3>1, LimiterAssumption DEF Expired, Times
  <2>3. \A i \in 1..l : ~ Expired(log[c][i]) <=> i \in (o + 1)..l
    <3> HIDE DEF l
    <3> QED BY <1>1, <1>2, <1>3
  <2>4. (o + 1)..l \subseteq 1..l
    <3> HIDE DEF l
    <3> QED BY <1>1, <1>2, <1>3
  <2> HIDE DEF o, l
  <2> QED BY <2>1, <2>2, <2>3, <2>4
<1>5. Cardinality((o + 1)..l) = Len(P)
  <2> HIDE DEF l
  <2>1. o + 1 \in Int /\ l \in Int
    BY <1>2, <1>3
  <2>2. Cardinality((o + 1)..l) = IF o + 1 > l THEN 0 ELSE l - (o + 1) + 1
    BY <2>1, FS_Interval
  <2> QED BY <1>1, <1>2, <1>3, <2>2
<1>6. Abstract!Known = Tracked
  <2>1. ASSUME NEW d \in Clients PROVE log[d] # <<>> <=> hits[d] # <<>>
    <3>1. log[d] \in Seq(Times) /\ hits[d] \in Seq(Times)
      BY DEF TypeOK, Times
    <3>2. /\ Len(log[d]) - Len(hits[d]) >= 0
          /\ hits[d] = <<>> => log[d] = <<>>
      BY DEF SuffixOfLog, LiveEnd
    <3>3. Len(log[d]) \in Nat /\ Len(hits[d]) \in Nat
      BY <3>1
    <3>4. log[d] = <<>> => Len(log[d]) = 0
      OBVIOUS
    <3>5. Len(hits[d]) = 0 => hits[d] = <<>>
      BY <3>1
    <3> QED BY <3>2, <3>3, <3>4, <3>5
  <2> QED BY <2>1 DEF Abstract!Known, Tracked
<1> QED BY <1>4, <1>5, <1>6, SameCardinality DEF P

(***************************************************************************)
(* check() admits and rejects exactly like the limiter that remembers all. *)
(***************************************************************************)
THEOREM DequeImplementsWindow == Spec => ImplementsWindowLimiter
<1>1. Init => Abstract!Init
  BY DEF Init, Abstract!Init
<1>2. IInv /\ [Next]_vars => [Abstract!Next]_(Abstract!vars)
  <2> SUFFICES ASSUME IInv, [Next]_vars
               PROVE  Abstract!Next \/ UNCHANGED Abstract!vars
    BY DEF Abstract!vars
  <2>1. CASE Tick
    BY <2>1, LimiterAssumption DEF Tick, Abstract!Next, Abstract!Tick, IInv, TypeOK
  <2>2. ASSUME NEW c \in Clients, Admit(c) PROVE Abstract!Next
    <3>1. PICK gone \in Evictable(c) :
            log' = [d \in Clients |-> CASE d = c               -> Append(log[c], clock)
                                        [] d # c /\ d \in gone -> <<>>
                                        [] OTHER               -> log[d]]
      BY <2>2 DEF Admit
    <3>2. log' = Abstract!Admitted(c, gone)
      <4>1. \A d \in Clients :
              (CASE d = c               -> Append(log[c], clock)
                 [] d # c /\ d \in gone -> <<>>
                 [] OTHER               -> log[d])
              = (CASE d = c               -> Append(log[d], clock)
                   [] d # c /\ d \in gone -> <<>>
                   [] OTHER               -> log[d])
        OBVIOUS
      <4> QED BY <3>1, <4>1 DEF Abstract!Admitted
    <3>3. /\ Abstract!Cardinality(Abstract!Recent(c)) < Limit
          /\ Abstract!Decide(c, TRUE)
          /\ UNCHANGED clock
      BY <2>2, SameCount DEF Admit, HasRoom, Abstract!Decide
    <3>4. CASE gone = {}
      <4>1. c \in Tracked \/ Cardinality(Tracked) < MaxClients
        BY <3>4, EvictionMakesRoom DEF IInv
      <4>2. Abstract!AdmitKnown(c)
        BY <3>2, <3>3, <3>4, <4>1, SameCount DEF Abstract!AdmitKnown
      <4> QED BY <4>2 DEF Abstract!Next
    <3>5. CASE gone # {}
      <4>1. c \notin Tracked /\ Cardinality(Tracked) >= MaxClients
        BY <3>5, EvictionMakesRoom DEF IInv
      <4>2. PICK v \in Tracked : gone = {v}
        BY <3>5, EvictionMakesRoom DEF IInv
      <4>3. Abstract!AdmitForgetting(c)
        BY <3>2, <3>3, <4>1, <4>2, SameCount DEF Abstract!AdmitForgetting
      <4> QED BY <4>3 DEF Abstract!Next
    <3> QED BY <3>4, <3>5
  <2>3. ASSUME NEW c \in Clients, Reject(c) PROVE Abstract!Next
    <3>1. Len(Pruned(c)) \in Nat
      <4>1. Pruned(c) \in Seq(Times)
        BY PrunedProperties DEF IInv
      <4> QED BY <4>1
    <3>2. Abstract!Cardinality(Abstract!Recent(c)) >= Limit
      BY <2>3, <3>1, SameCount, LimiterAssumption DEF Reject, HasRoom
    <3>3. Abstract!Reject(c)
      BY <2>3, <3>2 DEF Reject, Abstract!Reject, Abstract!Decide
    <3> QED BY <3>3 DEF Abstract!Next
  <2>4. CASE UNCHANGED vars
    BY <2>4 DEF vars, Abstract!vars
  <2> QED BY <2>1, <2>2, <2>3, <2>4 DEF Next
<1>3. Spec => Abstract!Spec
  BY <1>1, <1>2, InvariantHolds, PTL DEF Spec, Abstract!Spec
<1> QED BY <1>3 DEF ImplementsWindowLimiter
=============================================================================
