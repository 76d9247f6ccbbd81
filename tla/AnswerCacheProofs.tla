------------------------- MODULE AnswerCacheProofs -------------------------
(***************************************************************************)
(* The answer cache for every number of requests, threads and entries: how *)
(* far it may exceed its bound, whose answer a reply is, and how old.      *)
(***************************************************************************)
EXTENDS AnswerCache, FiniteSetTheorems, SequenceTheorems, TLAPS

Answers == [qid : Qids \cup {{}}, question : Questions \cup {{}}, born : Nat]

Entries == [key : (Qids \cup {{}}) \X {Stripped[q] : q \in Questions \cup {{}}},
            at : Nat, answer : Answers]

TypeInv ==
  /\ clock \in Nat
  /\ cache \in Seq(Entries)
  /\ request \in [Requests -> [pc : Places, qid : Qids \cup {{}},
                               question : Questions \cup {{}}, got : Answers]]

\* An entry holds an answer to the question and id of its key.
KeyOfAnswer ==
  \A i \in 1..Len(cache) :
    cache[i].key = <<cache[i].answer.qid, Stripped[cache[i].answer.question]>>

\* A thread that holds an answer holds one to its own question and id.
HoldsOwn ==
  \A r \in Requests :
    request[r].pc \in {"hit", "touch", "trim", "pop", "replied"} =>
      /\ Stripped[request[r].got.question] = Stripped[request[r].question]
      /\ request[r].got.qid = request[r].qid

IInv == TypeInv /\ KeyOfAnswer /\ HoldsOwn /\ CacheBounded
-----------------------------------------------------------------------------
(* The entry IndexOf picks is one of key k. *)
LEMMA IndexOfKey ==
  ASSUME NEW s \in Seq(Entries), NEW k \in Keys(s)
  PROVE  IndexOf(s, k) \in 1..Len(s) /\ s[IndexOf(s, k)].key = k
<1>1. \E i \in DOMAIN s : s[i].key = k
  BY DEF Keys
<1> QED BY <1>1 DEF IndexOf

(***************************************************************************)
(* Removing a key removes one entry, and no other key.                     *)
(***************************************************************************)
LEMMA WithoutKey ==
  ASSUME NEW s \in Seq(Entries), NEW k
  PROVE  /\ Without(s, k) \in Seq(Entries)
         /\ k \in Keys(s) => Len(Without(s, k)) = Len(s) - 1
         /\ k \notin Keys(s) => Without(s, k) = s
         /\ Keys(s) \ {k} \subseteq Keys(Without(s, k))
         /\ \A j \in 1..Len(Without(s, k)) : \E i \in 1..Len(s) : Without(s, k)[j] = s[i]
         /\ k \in Keys(s) =>
              \A j \in 1..Len(Without(s, k)) :
                Without(s, k)[j] = IF j < IndexOf(s, k) THEN s[j] ELSE s[j + 1]
<1>1. CASE k \notin Keys(s)
  <2>1. Without(s, k) = s
    BY <1>1 DEF Without
  <2> QED BY <1>1, <2>1
<1>2. CASE k \in Keys(s)
  <2> DEFINE i == IndexOf(s, k)
             w == Without(s, k)
  <2>1. i \in 1..Len(s) /\ s[i].key = k
    BY <1>2, IndexOfKey
  <2>2. w = SubSeq(s, 1, i - 1) \o SubSeq(s, i + 1, Len(s))
    BY <1>2 DEF Without, RemoveAt
  <2> HIDE DEF i, w
  <2> DEFINE a == SubSeq(s, 1, i - 1)
             b == SubSeq(s, i + 1, Len(s))
  <2>3. /\ a \in Seq(Entries) /\ Len(a) = i - 1
        /\ \A j \in 1..(i - 1) : a[j] = s[j]
    BY <2>1
  <2>4. /\ b \in Seq(Entries) /\ Len(b) = Len(s) - i
        /\ \A j \in 1..(Len(s) - i) : b[j] = s[i + j]
    BY <2>1
  <2>5. w = a \o b
    BY <2>2
  <2> HIDE DEF a, b
  <2>6. w \in Seq(Entries) /\ Len(w) = Len(s) - 1
    <3>1. w \in Seq(Entries) /\ Len(w) = Len(a) + Len(b)
      BY <2>3, <2>4, <2>5, ConcatProperties
    <3> QED BY <2>1, <2>3, <2>4, <3>1
  <2>7. ASSUME NEW j \in 1..Len(w) PROVE w[j] = IF j < i THEN s[j] ELSE s[j + 1]
    <3>1. j \in 1..(Len(a) + Len(b)) /\ w[j] = IF j <= Len(a) THEN a[j] ELSE b[j - Len(a)]
      BY <2>1, <2>6, <2>3, <2>4, <2>5, ConcatProperties
    <3>2. CASE j < i
      BY <2>1, <2>3, <3>1, <3>2
    <3>3. CASE ~(j < i)
      <4>1. j - (i - 1) \in 1..(Len(s) - i) /\ i + (j - (i - 1)) = j + 1 /\ ~(j <= Len(a))
        BY <2>1, <2>6, <2>3, <3>3
      <4> QED BY <2>3, <2>4, <3>1, <3>3, <4>1
    <3> QED BY <3>2, <3>3
  <2>8. ASSUME NEW x \in Keys(s) \ {k} PROVE x \in Keys(w)
    <3>1. PICK j \in 1..Len(s) : s[j].key = x
      BY DEF Keys
    <3>2. j # i
      BY <2>1, <2>8, <3>1
    <3>3. CASE j < i
      <4>1. j \in 1..Len(w) /\ w[j] = s[j]
        BY <2>1, <2>6, <2>7, <3>3
      <4> QED BY <2>6, <3>1, <4>1 DEF Keys
    <3>4. CASE j > i
      <4>1. j - 1 \in 1..Len(w) /\ ~(j - 1 < i) /\ (j - 1) + 1 = j
        BY <2>1, <2>6, <3>4
      <4>2. w[j - 1] = s[j]
        BY <2>7, <4>1
      <4> QED BY <2>6, <3>1, <4>1, <4>2 DEF Keys
    <3> QED BY <2>1, <3>2, <3>3, <3>4
  <2>9. ASSUME NEW j \in 1..Len(w) PROVE \E h \in 1..Len(s) : w[j] = s[h]
    BY <2>1, <2>6, <2>7
  <2> QED BY <1>2, <2>6, <2>7, <2>8, <2>9 DEF i, w
<1> QED BY <1>1, <1>2

(***************************************************************************)
(* move_to_end() keeps the keys, the entries and their number.             *)
(***************************************************************************)
LEMMA ToEndOfKey ==
  ASSUME NEW s \in Seq(Entries), NEW k \in Keys(s)
  PROVE  /\ ToEnd(s, k) \in Seq(Entries)
         /\ Len(ToEnd(s, k)) = Len(s)
         /\ Keys(s) \subseteq Keys(ToEnd(s, k))
         /\ \A j \in 1..Len(ToEnd(s, k)) : \E i \in 1..Len(s) : ToEnd(s, k)[j] = s[i]
<1> DEFINE w == Without(s, k)
           e == s[IndexOf(s, k)]
           t == ToEnd(s, k)
<1>1. /\ w \in Seq(Entries) /\ Len(w) = Len(s) - 1
      /\ Keys(s) \ {k} \subseteq Keys(w)
      /\ \A j \in 1..Len(w) : \E i \in 1..Len(s) : w[j] = s[i]
  BY WithoutKey
<1>2. IndexOf(s, k) \in 1..Len(s) /\ e \in Entries /\ e.key = k
  BY IndexOfKey
<1>3. t = Append(w, e)
  BY DEF ToEnd
<1> HIDE DEF w, t
<1>4. /\ t \in Seq(Entries) /\ Len(t) = Len(w) + 1
      /\ \A j \in 1..Len(w) : t[j] = w[j]
      /\ t[Len(w) + 1] = e
  BY <1>1, <1>2, <1>3, AppendProperties
<1>5. Len(w) \in Nat /\ Len(s) \in Nat /\ Len(t) = Len(s)
  BY <1>1, <1>4
<1>6. Keys(s) \subseteq Keys(t)
  <2>1. DOMAIN w = 1..Len(w) /\ DOMAIN t = 1..Len(t)
    BY <1>1, <1>4
  <2>2. Keys(w) \subseteq Keys(t)
    <3> SUFFICES ASSUME NEW j \in 1..Len(w) PROVE w[j].key \in Keys(t)
      BY <2>1 DEF Keys
    <3>1. t[j] = w[j] /\ j \in 1..Len(t)
      BY <1>4, <1>5
    <3> QED BY <2>1, <3>1 DEF Keys
  <2>3. Len(w) + 1 \in DOMAIN t
    BY <1>4, <1>5
  <2>4. k \in Keys(t)
    BY <1>2, <1>4, <2>3 DEF Keys
  <2> QED BY <1>1, <2>2, <2>4
<1>7. ASSUME NEW j \in 1..Len(t) PROVE \E i \in 1..Len(s) : t[j] = s[i]
  <2>1. j \in 1..Len(w) \/ j = Len(w) + 1
    BY <1>4, <1>5
  <2> QED BY <1>1, <1>2, <1>4, <2>1
<1> QED BY <1>4, <1>5, <1>6, <1>7 DEF t

(***************************************************************************)
(* An assignment adds its key, and an entry only when the key is new.      *)
(***************************************************************************)
LEMMA AssignEntry ==
  ASSUME NEW s \in Seq(Entries), NEW e \in Entries
  PROVE  /\ Assign(s, e) \in Seq(Entries)
         /\ Keys(s) \cup {e.key} \subseteq Keys(Assign(s, e))
         /\ e.key \in Keys(s) => Len(Assign(s, e)) = Len(s)
         /\ e.key \notin Keys(s) => Len(Assign(s, e)) = Len(s) + 1
         /\ \A j \in 1..Len(Assign(s, e)) :
              Assign(s, e)[j] = e \/ \E i \in 1..Len(s) : Assign(s, e)[j] = s[i]
<1> DEFINE t == Assign(s, e)
<1>1. CASE e.key \in Keys(s)
  <2> DEFINE i == IndexOf(s, e.key)
  <2>1. i \in 1..Len(s) /\ s[i].key = e.key
    BY <1>1, IndexOfKey
  <2>2. t = [s EXCEPT ![i] = e]
    BY <1>1 DEF Assign, ReplaceAt
  <2> HIDE DEF i, t
  <2>3. t \in Seq(Entries) /\ Len(t) = Len(s)
    BY <2>1, <2>2
  <2>4. \A j \in 1..Len(s) : t[j] = (IF j = i THEN e ELSE s[j]) /\ t[j].key = s[j].key
    BY <2>1, <2>2
  <2>5. Keys(s) \subseteq Keys(t)
    BY <2>3, <2>4 DEF Keys
  <2> QED BY <1>1, <2>3, <2>4, <2>5 DEF t
<1>2. CASE e.key \notin Keys(s)
  <2>1. t = Append(s, e)
    BY <1>2 DEF Assign
  <2> HIDE DEF t
  <2>2. /\ t \in Seq(Entries) /\ Len(t) = Len(s) + 1
        /\ \A j \in 1..Len(s) : t[j] = s[j]
        /\ t[Len(s) + 1] = e
    BY <2>1, AppendProperties
  <2>3. \A j \in 1..Len(t) : j \in 1..Len(s) \/ j = Len(s) + 1
    BY <2>2
  <2>4. Keys(s) \cup {e.key} \subseteq Keys(t)
    <3>1. \A j \in 1..Len(s) : j \in DOMAIN t
      BY <2>2
    <3>2. Len(s) + 1 \in DOMAIN t
      BY <2>2
    <3> QED BY <2>2, <3>1, <3>2 DEF Keys
  <2> QED BY <1>2, <2>2, <2>3, <2>4 DEF t
<1> QED BY <1>1, <1>2
-----------------------------------------------------------------------------
\* The entries that are still owed a touch.
Owed == TouchedKeys \cap Keys(cache)

\* The counts of CacheBounded are numbers.
Counted ==
  /\ IsFiniteSet(Owed) /\ IsFiniteSet(Trimming)
  /\ Cardinality(Owed) \in Nat /\ Cardinality(Trimming) \in Nat
  /\ Len(cache) \in Nat

(* Requests are finitely many, so what they owe can be counted. *)
LEMMA CountsAreNumbers == TypeInv => Counted
<1> HAVE TypeInv
<1>1. IsFiniteSet(Requests)
  BY FS_Interval, CacheAssumption DEF Requests
<1>2. IsFiniteSet({q \in Requests : request[q].pc = "touch"})
  BY <1>1, FS_Subset
<1>3. IsFiniteSet(TouchedKeys)
  <2> DEFINE S == {q \in Requests : request[q].pc = "touch"}
             f == [q \in S |-> Key(q)]
  <2>1. f \in Surjection(S, TouchedKeys)
    BY DEF Surjection, TouchedKeys
  <2> QED BY <1>2, <2>1, FS_Surjection
<1>4. IsFiniteSet(Owed)
  BY <1>3, FS_Subset DEF Owed
<1>5. IsFiniteSet(Trimming)
  BY <1>1, FS_Subset DEF Trimming
<1> QED BY <1>4, <1>5, FS_CardinalityType DEF TypeInv, Counted

(* The same after a step. *)
LEMMA CountsAreNumbersNext == TypeInv' => Counted'
BY CountsAreNumbers, PTL

(* A set that keeps all but one element of another is at most one smaller. *)
LEMMA LoseOne ==
  ASSUME NEW S, NEW T, NEW x, IsFiniteSet(S), IsFiniteSet(T), S \ {x} \subseteq T
  PROVE  Cardinality(S) <= Cardinality(T) + 1
<1>1. Cardinality(S) \in Nat /\ Cardinality(T) \in Nat
  BY FS_CardinalityType
<1>2. CASE x \in S
  <2>1. IsFiniteSet(S \ {x}) /\ Cardinality(S \ {x}) = Cardinality(S) - 1
    BY <1>2, FS_RemoveElement
  <2>2. Cardinality(S \ {x}) <= Cardinality(T)
    BY FS_Subset
  <2> QED BY <1>1, <2>1, <2>2
<1>3. CASE x \notin S
  <2>1. S \subseteq T
    BY <1>3
  <2>2. Cardinality(S) <= Cardinality(T)
    BY <2>1, FS_Subset
  <2> QED BY <1>1, <2>2
<1> QED BY <1>2, <1>3

(* A set that has one element more than another is larger. *)
LEMMA GainOne ==
  ASSUME NEW S, NEW T, NEW x, IsFiniteSet(S), IsFiniteSet(T), x \notin S, S \cup {x} \subseteq T
  PROVE  Cardinality(S) + 1 <= Cardinality(T)
<1>1. IsFiniteSet(S \cup {x}) /\ Cardinality(S \cup {x}) = Cardinality(S) + 1
  BY FS_AddElement
<1>2. Cardinality(S \cup {x}) <= Cardinality(T)
  BY FS_Subset
<1> QED BY <1>1, <1>2

(***************************************************************************)
(* A step of one thread leaves what the others owe.                        *)
(***************************************************************************)
LEMMA OthersUnchanged ==
  ASSUME NEW r \in Requests, \A q \in Requests \ {r} : request'[q] = request[q]
  PROVE  /\ TouchedKeys \ {Key(r)} \subseteq TouchedKeys'
         /\ request[r].pc # "touch" => TouchedKeys \subseteq TouchedKeys'
         /\ request'[r].pc = "touch" => Key(r)' \in TouchedKeys'
         /\ Trimming \ {r} \subseteq Trimming'
         /\ r \notin Trimming => Trimming \subseteq Trimming'
         /\ request'[r].pc \in {"trim", "pop"} => r \in Trimming'
<1>1. ASSUME NEW q \in Requests, request[q].pc = "touch", q # r
      PROVE  Key(q) \in TouchedKeys'
  <2>1. request'[q].pc = "touch" /\ Key(q)' = Key(q)
    BY <1>1 DEF Key
  <2> QED BY <2>1 DEF TouchedKeys
<1>2. request'[r].pc = "touch" => Key(r)' \in TouchedKeys'
  BY DEF TouchedKeys
<1>3. TouchedKeys \ {Key(r)} \subseteq TouchedKeys'
  BY <1>1 DEF TouchedKeys
<1>4. request[r].pc # "touch" => TouchedKeys \subseteq TouchedKeys'
  BY <1>1 DEF TouchedKeys
<1> QED BY <1>2, <1>3, <1>4 DEF Trimming

(***************************************************************************)
(* CacheBounded after a step of r, from what the step does to the length,  *)
(* to the keys and to the place of r.                                      *)
(***************************************************************************)
LEMMA BoundKept ==
  ASSUME TypeInv, TypeInv', CacheBounded, NEW r \in Requests,
         \A q \in Requests \ {r} : request'[q] = request[q],
         request[r].pc \in {"trim", "pop"} => request'[r].pc \in {"trim", "pop"},
         \/ /\ Len(cache') <= Len(cache)
            /\ Keys(cache) \subseteq Keys(cache')
            /\ \/ request[r].pc # "touch"
               \/ Key(r) \notin Keys(cache)
               \/ request'[r].pc \in {"trim", "pop"}
         \/ \E k : /\ Len(cache') = Len(cache) - 1
                   /\ Keys(cache) \ {k} \subseteq Keys(cache')
                   /\ request[r].pc # "touch"
         \/ /\ Len(cache') = Len(cache) + 1
            /\ request[r].pc # "touch" /\ request'[r].pc = "touch"
            /\ Key(r)' \notin Keys(cache)
            /\ Keys(cache) \cup {Key(r)'} \subseteq Keys(cache')
  PROVE  CacheBounded'
<1> DEFINE K == Cardinality(Owed)
           L == Cardinality(Owed')
           T == Cardinality(Trimming)
           U == Cardinality(Trimming')
<1>1. /\ IsFiniteSet(Owed) /\ IsFiniteSet(Trimming)
      /\ K \in Nat /\ T \in Nat /\ Len(cache) \in Nat
  BY CountsAreNumbers DEF Counted
<1>2. /\ IsFiniteSet(Owed') /\ IsFiniteSet(Trimming')
      /\ L \in Nat /\ U \in Nat /\ Len(cache') \in Nat
  BY CountsAreNumbersNext DEF Counted
<1>3. Len(cache) <= MaxEntries + K + T
  BY DEF CacheBounded, Owed
<1>4. /\ TouchedKeys \ {Key(r)} \subseteq TouchedKeys'
      /\ request[r].pc # "touch" => TouchedKeys \subseteq TouchedKeys'
      /\ request'[r].pc = "touch" => Key(r)' \in TouchedKeys'
      /\ Trimming \ {r} \subseteq Trimming'
      /\ r \notin Trimming => Trimming \subseteq Trimming'
      /\ request'[r].pc \in {"trim", "pop"} => r \in Trimming'
  BY OthersUnchanged
<1>5. Trimming \subseteq Trimming'
  <2>1. r \in Trimming => r \in Trimming'
    BY <1>4 DEF Trimming
  <2> QED BY <1>4, <2>1
<1>6. T <= U
  BY <1>1, <1>2, <1>5, FS_Subset
<1> SUFFICES Len(cache') <= MaxEntries + L + U
  BY DEF CacheBounded, Owed
<1> HIDE DEF K, L, T, U
<1>7. ASSUME Len(cache') <= Len(cache), Keys(cache) \subseteq Keys(cache'),
             \/ request[r].pc # "touch"
             \/ Key(r) \notin Keys(cache)
             \/ request'[r].pc \in {"trim", "pop"}
      PROVE  Len(cache') <= MaxEntries + L + U
  <2>1. CASE request[r].pc # "touch" \/ Key(r) \notin Keys(cache)
    <3>1. Owed \subseteq Owed'
      BY <1>4, <1>7, <2>1 DEF Owed
    <3>2. K <= L
      BY <1>2, <3>1, FS_Subset DEF K, L
    <3> QED BY <1>1, <1>2, <1>3, <1>6, <1>7, <3>2, CacheAssumption
  <2>2. CASE request[r].pc = "touch" /\ request'[r].pc \in {"trim", "pop"}
    <3>1. Owed \ {Key(r)} \subseteq Owed'
      BY <1>4, <1>7 DEF Owed
    <3>2. K <= L + 1
      BY <1>1, <1>2, <3>1, LoseOne DEF K, L
    <3>3. r \notin Trimming /\ Trimming \cup {r} \subseteq Trimming'
      BY <1>4, <1>5, <2>2 DEF Trimming
    <3>4. T + 1 <= U
      BY <1>1, <1>2, <3>3, GainOne DEF T, U
    <3> QED BY <1>1, <1>2, <1>3, <1>7, <3>2, <3>4, CacheAssumption
  <2> QED BY <1>7, <2>1, <2>2
<1>8. ASSUME NEW k, Len(cache') = Len(cache) - 1,
             Keys(cache) \ {k} \subseteq Keys(cache'), request[r].pc # "touch"
      PROVE  Len(cache') <= MaxEntries + L + U
  <2>1. Owed \ {k} \subseteq Owed'
    BY <1>4, <1>8 DEF Owed
  <2>2. K <= L + 1
    BY <1>1, <1>2, <2>1, LoseOne DEF K, L
  <2> QED BY <1>1, <1>2, <1>3, <1>6, <1>8, <2>2, CacheAssumption
<1>9. ASSUME Len(cache') = Len(cache) + 1,
             request[r].pc # "touch", request'[r].pc = "touch",
             Key(r)' \notin Keys(cache), Keys(cache) \cup {Key(r)'} \subseteq Keys(cache')
      PROVE  Len(cache') <= MaxEntries + L + U
  <2>1. Key(r)' \notin Owed /\ Owed \cup {Key(r)'} \subseteq Owed'
    BY <1>4, <1>9 DEF Owed
  <2>2. K + 1 <= L
    BY <1>1, <1>2, <2>1, GainOne DEF K, L
  <2> QED BY <1>1, <1>2, <1>3, <1>6, <1>9, <2>2, CacheAssumption
<1> QED BY <1>7, <1>8, <1>9

\* Every entry of the new cache is one of the old.
OldEntries ==
  \A j \in 1..Len(cache') : \E i \in 1..Len(cache) : cache'[j] = cache[i]

(* Entries that come from the old cache still match their keys. *)
LEMMA OldEntriesMatch ==
  ASSUME KeyOfAnswer, OldEntries PROVE KeyOfAnswer'
<1> SUFFICES ASSUME NEW j \in 1..Len(cache')
             PROVE  cache'[j].key = <<cache'[j].answer.qid, Stripped[cache'[j].answer.question]>>
  BY DEF KeyOfAnswer
<1>1. PICK i \in 1..Len(cache) : cache'[j] = cache[i]
  BY DEF OldEntries
<1> QED BY <1>1 DEF KeyOfAnswer

(***************************************************************************)
(* A step of r that only moves its thread keeps the types and the answers; *)
(* it reaches a place that holds an answer only from such a place.         *)
(***************************************************************************)
LEMMA MoveKeeps ==
  ASSUME IInv, NEW r \in Requests, NEW p \in Places, Goto(r, p), clock' = clock,
         cache' \in Seq(Entries), OldEntries,
         p \in {"hit", "touch", "trim", "pop", "replied"} =>
           request[r].pc \in {"hit", "touch", "trim", "pop", "replied"}
  PROVE  /\ TypeInv' /\ KeyOfAnswer' /\ HoldsOwn'
         /\ \A q \in Requests \ {r} : request'[q] = request[q]
         /\ request'[r].pc = p /\ Key(r)' = Key(r)
<1>1. /\ request' = [request EXCEPT ![r].pc = p]
      /\ request \in [Requests -> [pc : Places, qid : Qids \cup {{}},
                                   question : Questions \cup {{}}, got : Answers]]
  BY DEF IInv, TypeInv, Goto
<1>2. /\ \A q \in Requests \ {r} : request'[q] = request[q]
      /\ request'[r].pc = p /\ request'[r].got = request[r].got
      /\ request'[r].qid = request[r].qid /\ request'[r].question = request[r].question
  BY <1>1
<1>3. TypeInv'
  BY <1>1 DEF IInv, TypeInv
<1>4. KeyOfAnswer'
  BY OldEntriesMatch DEF IInv
<1>5. HoldsOwn'
  BY <1>2 DEF IInv, HoldsOwn
<1> QED BY <1>2, <1>3, <1>4, <1>5 DEF Key

(* A step that leaves the cache alone has only old entries. *)
LEMMA SameCache ==
  ASSUME TypeInv, cache' = cache
  PROVE  cache' \in Seq(Entries) /\ OldEntries /\ Len(cache') <= Len(cache)
BY DEF TypeInv, OldEntries

(* The initial state satisfies the invariant. *)
LEMMA InitInv == Init => IInv
<1> SUFFICES ASSUME Init PROVE IInv
  OBVIOUS
<1>1. TypeInv
  BY DEF Init, TypeInv, Places, Answers, NoAnswer
<1>2. KeyOfAnswer /\ HoldsOwn
  BY DEF Init, KeyOfAnswer, HoldsOwn
<1>3. CacheBounded
  <2>1. Len(cache) = 0
    BY DEF Init
  <2>2. Cardinality(Owed) \in Nat /\ Cardinality(Trimming) \in Nat
    BY <1>1, CountsAreNumbers DEF Counted
  <2> QED BY <2>1, <2>2, CacheAssumption DEF CacheBounded, Owed
<1> QED BY <1>1, <1>2, <1>3 DEF IInv

(* Steps that move a thread and leave the cache alone. *)
LEMMA ThinkInvariant ==
  ASSUME IInv, NEW r \in Requests,
         Refuse(r) \/ Run(r) \/ KeyError(r) \/ Trim(r)
  PROVE  IInv'
<1> USE DEF IInv
<1>1. cache' = cache /\ clock' = clock
  BY DEF Refuse, Run, KeyError, Trim
<1>2. cache' \in Seq(Entries) /\ OldEntries /\ Len(cache') <= Len(cache)
  BY <1>1, SameCache
<1>3. Keys(cache) \subseteq Keys(cache')
  BY <1>1
<1>4. CASE Refuse(r)
  <2>1. Goto(r, "refused") /\ "refused" \in Places /\ request[r].pc = "asked"
    BY <1>4 DEF Refuse, Places
  <2>2. /\ TypeInv' /\ KeyOfAnswer' /\ HoldsOwn'
        /\ \A q \in Requests \ {r} : request'[q] = request[q]
        /\ request'[r].pc = "refused"
    BY <1>1, <1>2, <2>1, MoveKeeps
  <2> QED BY <1>2, <1>3, <2>1, <2>2, BoundKept
<1>5. CASE Run(r)
  <2>1. Goto(r, "store") /\ "store" \in Places /\ request[r].pc = "run"
    BY <1>5 DEF Run, Places
  <2>2. /\ TypeInv' /\ KeyOfAnswer' /\ HoldsOwn'
        /\ \A q \in Requests \ {r} : request'[q] = request[q]
        /\ request'[r].pc = "store"
    BY <1>1, <1>2, <2>1, MoveKeeps
  <2> QED BY <1>2, <1>3, <2>1, <2>2, BoundKept
<1>6. CASE KeyError(r)
  <2>1. Goto(r, "failed") /\ "failed" \in Places
    BY <1>6 DEF KeyError, ReplyError, Places
  <2>2. /\ TypeInv' /\ KeyOfAnswer' /\ HoldsOwn'
        /\ \A q \in Requests \ {r} : request'[q] = request[q]
        /\ request'[r].pc = "failed"
    BY <1>1, <1>2, <2>1, MoveKeeps
  <2>3. CASE request[r].pc \in {"hit", "touch"} /\ Key(r) \notin Keys(cache)
    BY <1>2, <1>3, <2>2, <2>3, BoundKept
  <2>4. CASE request[r].pc = "pop" /\ cache = <<>>
    <3>1. Len(cache') = 0
      BY <1>1, <2>4
    <3>2. Cardinality(Owed') \in Nat /\ Cardinality(Trimming') \in Nat
      BY <2>2, CountsAreNumbersNext DEF Counted
    <3>3. CacheBounded'
      BY <3>1, <3>2, CacheAssumption DEF CacheBounded, Owed
    <3> QED BY <2>2, <3>3
  <2> QED BY <1>6, <2>3, <2>4 DEF KeyError
<1>7. CASE Trim(r)
  <2> DEFINE p == IF Overfull THEN "pop" ELSE "replied"
  <2>1. Goto(r, p) /\ p \in Places /\ request[r].pc = "trim"
    BY <1>7 DEF Trim, Places
  <2>2. /\ TypeInv' /\ KeyOfAnswer' /\ HoldsOwn'
        /\ \A q \in Requests \ {r} : request'[q] = request[q]
        /\ request'[r].pc = p
    BY <1>1, <1>2, <2>1, MoveKeeps
  <2>3. CASE Overfull
    BY <1>2, <1>3, <2>1, <2>2, <2>3, BoundKept
  <2>4. CASE ~ Overfull
    <3>1. Len(cache') <= MaxEntries /\ Len(cache') \in Nat
      BY <1>1, <1>2, <2>4, CacheAssumption DEF Overfull
    <3>2. Cardinality(Owed') \in Nat /\ Cardinality(Trimming') \in Nat
      BY <2>2, CountsAreNumbersNext DEF Counted
    <3>3. CacheBounded'
      BY <3>1, <3>2, CacheAssumption DEF CacheBounded, Owed
    <3> QED BY <2>2, <3>3
  <2> QED BY <2>3, <2>4
<1> QED BY <1>4, <1>5, <1>6, <1>7

(* Steps that take an entry out, or move it to the end. *)
LEMMA ReorderInvariant ==
  ASSUME IInv, NEW r \in Requests, Hit(r) \/ Touch(r) \/ Drop(r) \/ Pop(r)
  PROVE  IInv'
<1> USE DEF IInv
<1>1. cache \in Seq(Entries) /\ Len(cache) \in Nat
  BY DEF TypeInv
<1>2. CASE Hit(r) \/ Touch(r)
  <2> DEFINE p == IF request[r].pc = "hit" THEN "replied" ELSE "trim"
  <2>1. /\ Goto(r, p) /\ p \in Places /\ request[r].pc \in {"hit", "touch"}
        /\ clock' = clock /\ Key(r) \in Keys(cache) /\ cache' = ToEnd(cache, Key(r))
    BY <1>2 DEF Hit, Touch, Places
  <2>2. /\ cache' \in Seq(Entries) /\ Len(cache') = Len(cache)
        /\ Keys(cache) \subseteq Keys(cache') /\ OldEntries
    BY <1>1, <2>1, ToEndOfKey DEF OldEntries
  <2>3. /\ TypeInv' /\ KeyOfAnswer' /\ HoldsOwn'
        /\ \A q \in Requests \ {r} : request'[q] = request[q]
        /\ request'[r].pc = p
    BY <2>1, <2>2, MoveKeeps
  <2>4. Len(cache') <= Len(cache)
    BY <1>1, <2>2
  <2> QED BY <2>1, <2>2, <2>3, <2>4, BoundKept
<1>3. CASE Drop(r)
  <2>1. /\ Goto(r, "run") /\ "run" \in Places /\ request[r].pc = "stale"
        /\ clock' = clock /\ cache' = Without(cache, Key(r))
    BY <1>3 DEF Drop, Places
  <2>2. /\ cache' \in Seq(Entries) /\ OldEntries
        /\ Key(r) \in Keys(cache) => Len(cache') = Len(cache) - 1
        /\ Key(r) \notin Keys(cache) => cache' = cache
        /\ Keys(cache) \ {Key(r)} \subseteq Keys(cache')
    BY <1>1, <2>1, WithoutKey DEF OldEntries
  <2>3. /\ TypeInv' /\ KeyOfAnswer' /\ HoldsOwn'
        /\ \A q \in Requests \ {r} : request'[q] = request[q]
        /\ request'[r].pc = "run"
    BY <2>1, <2>2, MoveKeeps
  <2>4. CASE Key(r) \in Keys(cache)
    BY <2>1, <2>2, <2>3, <2>4, BoundKept
  <2>5. CASE Key(r) \notin Keys(cache)
    <3>1. Len(cache') <= Len(cache) /\ Keys(cache) \subseteq Keys(cache')
      BY <1>1, <2>2, <2>5
    <3> QED BY <2>1, <2>3, <3>1, BoundKept
  <2> QED BY <2>4, <2>5
<1>4. CASE Pop(r)
  <2>1. /\ Goto(r, "trim") /\ "trim" \in Places /\ request[r].pc = "pop"
        /\ clock' = clock /\ cache # <<>> /\ cache' = Tail(cache)
    BY <1>4 DEF Pop, Places
  <2>2. /\ cache' \in Seq(Entries) /\ Len(cache') = Len(cache) - 1
        /\ \A i \in 1..Len(cache') : cache'[i] = cache[i + 1]
    BY <1>1, <2>1, HeadTailProperties
  <2>3. OldEntries
    BY <1>1, <2>2 DEF OldEntries
  <2>4. Keys(cache) \ {cache[1].key} \subseteq Keys(cache')
    <3> SUFFICES ASSUME NEW i \in 1..Len(cache), i # 1 PROVE cache[i].key \in Keys(cache')
      BY <1>1 DEF Keys
    <3>1. i - 1 \in 1..Len(cache') /\ (i - 1) + 1 = i
      BY <1>1, <2>2
    <3>2. cache'[i - 1] = cache[i] /\ i - 1 \in DOMAIN cache'
      BY <2>2, <3>1
    <3> QED BY <3>2 DEF Keys
  <2>5. /\ TypeInv' /\ KeyOfAnswer' /\ HoldsOwn'
        /\ \A q \in Requests \ {r} : request'[q] = request[q]
        /\ request'[r].pc = "trim"
    BY <2>1, <2>2, <2>3, MoveKeeps
  <2> QED BY <2>1, <2>2, <2>4, <2>5, BoundKept
<1> QED BY <1>2, <1>3, <1>4

(* A new request, and what the look-up makes of it. *)
LEMMA AskLookupInvariant ==
  ASSUME IInv, NEW r \in Requests, Ask(r) \/ Lookup(r)
  PROVE  IInv'
<1> USE DEF IInv
<1> DEFINE Records == [pc : Places, qid : Qids \cup {{}},
                       question : Questions \cup {{}}, got : Answers]
<1>1. cache' = cache /\ clock' = clock
  BY DEF Ask, Lookup
<1>2. cache' \in Seq(Entries) /\ OldEntries /\ Len(cache') <= Len(cache)
  BY <1>1, SameCache
<1>3. Keys(cache) \subseteq Keys(cache') /\ KeyOfAnswer'
  BY <1>1, <1>2, OldEntriesMatch
<1>4. request \in [Requests -> Records]
  BY DEF TypeInv
<1>5. CASE Ask(r)
  <2>1. PICK qid \in Qids, question \in Questions :
          request' = [request EXCEPT ![r].pc = "asked", ![r].qid = qid,
                                     ![r].question = question]
    BY <1>5 DEF Ask
  <2>2. /\ request'[r].pc = "asked" /\ request[r].pc = "new"
        /\ \A q \in Requests \ {r} : request'[q] = request[q]
    <3>1. request[r].pc = "new"
      BY <1>5 DEF Ask
    <3> QED BY <1>4, <2>1, <3>1
  <2>3. TypeInv'
    <3>1. "asked" \in Places
      BY DEF Places
    <3>2. request' \in [Requests -> Records]
      BY <1>4, <2>1, <3>1
    <3> QED BY <1>1, <1>2, <3>2 DEF TypeInv
  <2>4. HoldsOwn'
    BY <2>2 DEF HoldsOwn
  <2> QED BY <1>2, <1>3, <2>2, <2>3, <2>4, BoundKept
<1>6. CASE Lookup(r) /\ Goto(r, "run")
  <2>1. request[r].pc = "asked" /\ "run" \in Places
    BY <1>6 DEF Lookup, Places
  <2>2. /\ TypeInv' /\ KeyOfAnswer' /\ HoldsOwn'
        /\ \A q \in Requests \ {r} : request'[q] = request[q]
        /\ request'[r].pc = "run"
    BY <1>1, <1>2, <1>6, <2>1, MoveKeeps
  <2> QED BY <1>2, <1>3, <2>1, <2>2, BoundKept
<1>7. CASE Lookup(r) /\ Goto(r, "stale")
  <2>1. request[r].pc = "asked" /\ "stale" \in Places
    BY <1>7 DEF Lookup, Places
  <2>2. /\ TypeInv' /\ KeyOfAnswer' /\ HoldsOwn'
        /\ \A q \in Requests \ {r} : request'[q] = request[q]
        /\ request'[r].pc = "stale"
    BY <1>1, <1>2, <1>7, <2>1, MoveKeeps
  <2> QED BY <1>2, <1>3, <2>1, <2>2, BoundKept
<1>8. CASE /\ Lookup(r) /\ Key(r) \in Keys(cache)
           /\ request' = [request EXCEPT ![r].pc = "hit",
                                         ![r].got = cache[IndexOf(cache, Key(r))].answer]
  <2> DEFINE e == cache[IndexOf(cache, Key(r))]
  <2>1. e \in Entries /\ e.key = Key(r) /\ e.key = <<e.answer.qid, Stripped[e.answer.question]>>
    <3> DEFINE i == IndexOf(cache, Key(r))
    <3>1. i \in 1..Len(cache) /\ cache[i].key = Key(r)
      BY <1>8, IndexOfKey DEF TypeInv
    <3> HIDE DEF i
    <3>2. cache[i] \in Entries
      BY <3>1 DEF TypeInv
    <3>3. cache[i].key = <<cache[i].answer.qid, Stripped[cache[i].answer.question]>>
      BY <3>1 DEF KeyOfAnswer
    <3> QED BY <3>1, <3>2, <3>3 DEF i
  <2> HIDE DEF e
  <2>2. /\ request' = [request EXCEPT ![r].pc = "hit", ![r].got = e.answer]
        /\ e.answer \in Answers /\ request[r].pc = "asked" /\ "hit" \in Places
    BY <1>8, <2>1 DEF Lookup, Places, Entries, e
  <2>3. /\ request' \in [Requests -> Records]
        /\ request'[r].pc = "hit" /\ request'[r].got = e.answer
        /\ request'[r].qid = request[r].qid /\ request'[r].question = request[r].question
        /\ \A q \in Requests \ {r} : request'[q] = request[q]
    BY <1>4, <2>2
  <2>4. TypeInv'
    BY <1>1, <1>2, <2>3 DEF TypeInv
  <2>5. /\ request'[r].got.qid = request'[r].qid
        /\ Stripped[request'[r].got.question] = Stripped[request'[r].question]
    BY <2>1, <2>3 DEF Key
  <2>6. HoldsOwn'
    BY <2>3, <2>5 DEF HoldsOwn
  <2> QED BY <1>2, <1>3, <2>2, <2>3, <2>4, <2>6, BoundKept
<1> QED BY <1>5, <1>6, <1>7, <1>8 DEF Lookup

(* The answer is stored. *)
LEMMA StoreInvariant ==
  ASSUME IInv, NEW r \in Requests, Store(r)
  PROVE  IInv'
<1> USE DEF IInv
<1> DEFINE Records == [pc : Places, qid : Qids \cup {{}},
                       question : Questions \cup {{}}, got : Answers]
           a == [qid |-> request[r].qid, question |-> request[r].question, born |-> clock]
           e == [key |-> Key(r), at |-> clock, answer |-> a]
<1>1. /\ request[r].pc = "store" /\ clock' = clock
      /\ cache' = Assign(cache, e)
      /\ request' = [request EXCEPT ![r].pc = "touch", ![r].got = a]
  BY DEF Store
<1>2. request \in [Requests -> Records] /\ cache \in Seq(Entries) /\ clock \in Nat
  BY DEF TypeInv
<1>3. a \in Answers /\ e \in Entries /\ e.key = Key(r) /\ e.answer = a
  BY <1>2 DEF Answers, Entries, Key
<1>4. e.key = <<e.answer.qid, Stripped[e.answer.question]>>
  BY DEF Key
<1>5. a.qid = request[r].qid /\ a.question = request[r].question
  OBVIOUS
<1> HIDE DEF a, e
<1>6. /\ cache' \in Seq(Entries)
      /\ Keys(cache) \cup {Key(r)} \subseteq Keys(cache')
      /\ Key(r) \in Keys(cache) => Len(cache') = Len(cache)
      /\ Key(r) \notin Keys(cache) => Len(cache') = Len(cache) + 1
      /\ \A j \in 1..Len(cache') : cache'[j] = e \/ \E i \in 1..Len(cache) : cache'[j] = cache[i]
  BY <1>1, <1>2, <1>3, AssignEntry
<1>7. /\ request' \in [Requests -> Records]
      /\ request'[r].pc = "touch" /\ request'[r].got = a
      /\ request'[r].qid = request[r].qid /\ request'[r].question = request[r].question
      /\ \A q \in Requests \ {r} : request'[q] = request[q]
  <2>1. "touch" \in Places
    BY DEF Places
  <2> QED BY <1>1, <1>2, <1>3, <2>1
<1>8. TypeInv'
  BY <1>1, <1>2, <1>6, <1>7 DEF TypeInv
<1>9. KeyOfAnswer'
  <2> SUFFICES ASSUME NEW j \in 1..Len(cache')
               PROVE  cache'[j].key = <<cache'[j].answer.qid, Stripped[cache'[j].answer.question]>>
    BY DEF KeyOfAnswer
  <2>1. CASE cache'[j] = e
    BY <1>4, <2>1
  <2>2. CASE \E i \in 1..Len(cache) : cache'[j] = cache[i]
    BY <2>2 DEF KeyOfAnswer
  <2> QED BY <1>6, <2>1, <2>2
<1>10. HoldsOwn'
  BY <1>5, <1>7 DEF HoldsOwn
<1>11. CacheBounded'
  <2>1. Key(r)' = Key(r)
    BY <1>7 DEF Key
  <2>2. CASE Key(r) \in Keys(cache)
    <3>1. Len(cache') <= Len(cache) /\ Keys(cache) \subseteq Keys(cache')
      BY <1>2, <1>6, <2>2
    <3> QED BY <1>1, <1>7, <1>8, <3>1, BoundKept
  <2>3. CASE Key(r) \notin Keys(cache)
    BY <1>1, <1>6, <1>7, <1>8, <2>1, <2>3, BoundKept
  <2> QED BY <2>2, <2>3
<1> QED BY <1>8, <1>9, <1>10, <1>11

(* The inductive invariant holds in every reachable state. *)
THEOREM InvariantHolds == Spec => []IInv
<1>1. Init => IInv
  BY InitInv
<1>2. IInv /\ [Next]_vars => IInv'
  <2> SUFFICES ASSUME IInv, [Next]_vars PROVE IInv'
    OBVIOUS
  <2>1. CASE Tick
    BY <2>1 DEF Tick, IInv, TypeInv, KeyOfAnswer, HoldsOwn, CacheBounded, TouchedKeys,
                Trimming, Key, Keys
  <2>2. ASSUME NEW r \in Requests, Ask(r) \/ Lookup(r) PROVE IInv'
    BY <2>2, AskLookupInvariant
  <2>3. ASSUME NEW r \in Requests, Refuse(r) \/ Run(r) \/ KeyError(r) \/ Trim(r) PROVE IInv'
    BY <2>3, ThinkInvariant
  <2>4. ASSUME NEW r \in Requests, Hit(r) \/ Touch(r) \/ Drop(r) \/ Pop(r) PROVE IInv'
    BY <2>4, ReorderInvariant
  <2>5. ASSUME NEW r \in Requests, Store(r) PROVE IInv'
    BY <2>5, StoreInvariant
  <2>6. CASE UNCHANGED vars
    BY <2>6 DEF vars, IInv, TypeInv, KeyOfAnswer, HoldsOwn, CacheBounded, TouchedKeys,
                Trimming, Key, Keys
  <2> QED BY <2>1, <2>2, <2>3, <2>4, <2>5, <2>6 DEF Next, Thread
<1> QED BY <1>1, <1>2, PTL DEF Spec

(***************************************************************************)
(* The cache exceeds _cache_max by at most the threads between insertion   *)
(* and the end of trimming, for any number of requests and entries.        *)
(***************************************************************************)
THEOREM CacheStaysBounded == Spec => []CacheBounded
<1>1. IInv => CacheBounded
  BY DEF IInv
<1> QED BY <1>1, InvariantHolds, PTL

(***************************************************************************)
(* A reply never is the answer to another question or question_id.         *)
(***************************************************************************)
THEOREM RepliesAnswerTheirQuestion == Spec => []OwnQuestion
<1>1. IInv => OwnQuestion
  BY DEF IInv, HoldsOwn, OwnQuestion
<1> QED BY <1>1, InvariantHolds, PTL
-----------------------------------------------------------------------------
(***************************************************************************)
(* No key has two entries, and an entry has the time of its answer.        *)
(***************************************************************************)
Distinct(s) == \A i, j \in 1..Len(s) : s[i].key = s[j].key => i = j

LEMMA WithoutIsDistinct ==
  ASSUME NEW s \in Seq(Entries), NEW k, Distinct(s)
  PROVE  Distinct(Without(s, k)) /\ k \notin Keys(Without(s, k))
<1>1. CASE k \notin Keys(s)
  BY <1>1, WithoutKey
<1>2. CASE k \in Keys(s)
  <2> DEFINE w == Without(s, k)
             x == IndexOf(s, k)
             From(j) == IF j < x THEN j ELSE j + 1
  <2>1. /\ w \in Seq(Entries) /\ Len(w) = Len(s) - 1
        /\ \A j \in 1..Len(w) : w[j] = IF j < x THEN s[j] ELSE s[j + 1]
    BY <1>2, WithoutKey
  <2>2. x \in 1..Len(s) /\ s[x].key = k
    BY <1>2, IndexOfKey
  <2> HIDE DEF w, x
  <2>3. \A j \in 1..Len(w) : w[j] = s[From(j)] /\ From(j) \in 1..Len(s) /\ From(j) # x
    BY <2>1, <2>2
  <2>4. \A i, j \in 1..Len(w) : From(i) = From(j) => i = j
    BY <2>1, <2>2
  <2> HIDE DEF From
  <2>5. Distinct(w)
    BY <2>3, <2>4 DEF Distinct
  <2>6. \A j \in 1..Len(w) : w[j].key # k
    BY <2>2, <2>3 DEF Distinct
  <2>7. k \notin Keys(w)
    BY <2>1, <2>6 DEF Keys
  <2> QED BY <2>5, <2>7 DEF w
<1> QED BY <1>1, <1>2

LEMMA AppendIsDistinct ==
  ASSUME NEW s \in Seq(Entries), NEW e \in Entries, Distinct(s), e.key \notin Keys(s)
  PROVE  Distinct(Append(s, e))
<1> DEFINE t == Append(s, e)
<1>1. /\ Len(t) = Len(s) + 1 /\ Len(s) \in Nat
      /\ \A j \in 1..Len(s) : t[j] = s[j]
      /\ t[Len(s) + 1] = e
  BY AppendProperties
<1>2. \A j \in 1..Len(s) : s[j].key # e.key
  BY DEF Keys
<1> HIDE DEF t
<1>3. \A j \in 1..Len(t) : j \in 1..Len(s) \/ j = Len(s) + 1
  BY <1>1
<1>4. Distinct(t)
  BY <1>1, <1>2, <1>3 DEF Distinct
<1> QED BY <1>4 DEF t

LEMMA ToEndIsDistinct ==
  ASSUME NEW s \in Seq(Entries), NEW k \in Keys(s), Distinct(s)
  PROVE  Distinct(ToEnd(s, k))
<1> DEFINE w == Without(s, k)
           e == s[IndexOf(s, k)]
<1>1. w \in Seq(Entries) /\ Distinct(w) /\ k \notin Keys(w)
  BY WithoutKey, WithoutIsDistinct
<1>2. e \in Entries /\ e.key = k
  BY IndexOfKey
<1> HIDE DEF w, e
<1>3. Distinct(Append(w, e))
  BY <1>1, <1>2, AppendIsDistinct
<1> QED BY <1>3 DEF ToEnd, w, e

LEMMA AssignIsDistinct ==
  ASSUME NEW s \in Seq(Entries), NEW e \in Entries, Distinct(s)
  PROVE  Distinct(Assign(s, e))
<1>1. CASE e.key \in Keys(s)
  <2> DEFINE i == IndexOf(s, e.key)
             t == [s EXCEPT ![i] = e]
  <2>1. i \in 1..Len(s) /\ s[i].key = e.key
    BY <1>1, IndexOfKey
  <2>2. Assign(s, e) = t
    BY <1>1 DEF Assign, ReplaceAt
  <2> HIDE DEF i
  <2>3. Len(t) = Len(s) /\ \A j \in 1..Len(s) : t[j].key = s[j].key
    BY <2>1
  <2> HIDE DEF t
  <2> QED BY <2>2, <2>3 DEF Distinct
<1>2. CASE e.key \notin Keys(s)
  BY <1>2, AppendIsDistinct DEF Assign
<1> QED BY <1>1, <1>2

TimeOK(e) == e.at = e.answer.born /\ e.at \in 0..clock

EntriesOK ==
  /\ clock \in 0..MaxClock
  /\ Distinct(cache)
  /\ \A i \in 1..Len(cache) : TimeOK(cache[i])

THEOREM EntriesStayOK == Spec => []EntriesOK
<1>1. Init => EntriesOK
  <2> SUFFICES ASSUME Init PROVE EntriesOK
    OBVIOUS
  <2>1. cache = <<>> /\ Len(cache) = 0 /\ clock = 0
    BY DEF Init
  <2> QED BY <2>1, CacheAssumption DEF EntriesOK, Distinct
<1>2. IInv /\ EntriesOK /\ [Next]_vars => EntriesOK'
  <2> SUFFICES ASSUME IInv, EntriesOK, [Next]_vars PROVE EntriesOK'
    OBVIOUS
  <2>1. /\ cache \in Seq(Entries) /\ Len(cache) \in Nat
        /\ clock \in 0..MaxClock /\ Distinct(cache)
        /\ \A i \in 1..Len(cache) : TimeOK(cache[i])
    BY DEF IInv, TypeInv, EntriesOK
  <2>2. CASE Tick
    <3>1. clock' = clock + 1 /\ clock < MaxClock /\ cache' = cache
      BY <2>2 DEF Tick
    <3>2. clock' \in 0..MaxClock /\ \A n \in 0..clock : n \in 0..clock'
      BY <2>1, <3>1, CacheAssumption
    <3> QED BY <2>1, <3>1, <3>2 DEF EntriesOK, TimeOK
  <2>3. CASE cache' = cache /\ clock' = clock
    BY <2>1, <2>3 DEF EntriesOK, TimeOK
  <2>4. ASSUME clock' = clock, Distinct(cache'),
               \A j \in 1..Len(cache') : \E i \in 1..Len(cache) : cache'[j] = cache[i]
        PROVE  EntriesOK'
    BY <2>1, <2>4 DEF EntriesOK, TimeOK
  <2>5. ASSUME NEW r \in Requests, Hit(r) \/ Touch(r) PROVE EntriesOK'
    <3>1. clock' = clock /\ Key(r) \in Keys(cache) /\ cache' = ToEnd(cache, Key(r))
      BY <2>5 DEF Hit, Touch
    <3> QED BY <2>1, <2>4, <3>1, ToEndOfKey, ToEndIsDistinct
  <2>6. ASSUME NEW r \in Requests, Drop(r) PROVE EntriesOK'
    <3>1. clock' = clock /\ cache' = Without(cache, Key(r))
      BY <2>6 DEF Drop
    <3> QED BY <2>1, <2>4, <3>1, WithoutKey, WithoutIsDistinct
  <2>7. ASSUME NEW r \in Requests, Pop(r) PROVE EntriesOK'
    <3>1. clock' = clock /\ cache # <<>> /\ cache' = Tail(cache)
      BY <2>7 DEF Pop
    <3>2. /\ Len(cache') = Len(cache) - 1
          /\ \A i \in 1..Len(cache') : cache'[i] = cache[i + 1]
      BY <2>1, <3>1, HeadTailProperties
    <3>3. \A i \in 1..Len(cache') : i + 1 \in 1..Len(cache)
      BY <2>1, <3>2
    <3>4. Distinct(cache')
      <4> SUFFICES ASSUME NEW i \in 1..Len(cache'), NEW j \in 1..Len(cache'),
                          cache'[i].key = cache'[j].key
                   PROVE  i = j
        BY DEF Distinct
      <4>1. i + 1 = j + 1
        BY <2>1, <3>2, <3>3 DEF Distinct
      <4> QED BY <4>1
    <3> QED BY <2>4, <3>1, <3>2, <3>3, <3>4
  <2>8. ASSUME NEW r \in Requests, Store(r) PROVE EntriesOK'
    <3> DEFINE a == [qid |-> request[r].qid, question |-> request[r].question, born |-> clock]
               e == [key |-> Key(r), at |-> clock, answer |-> a]
    <3>1. clock' = clock /\ cache' = Assign(cache, e)
      BY <2>8 DEF Store
    <3>2. e \in Entries /\ TimeOK(e)
      <4>1. /\ request[r].qid \in Qids \cup {{}} /\ request[r].question \in Questions \cup {{}}
            /\ clock \in Nat
        BY DEF IInv, TypeInv
      <4>2. TimeOK(e)
        BY <4>1 DEF TimeOK
      <4> QED BY <4>1, <4>2 DEF Entries, Answers, Key
    <3> HIDE DEF e
    <3>3. /\ Distinct(cache')
          /\ \A j \in 1..Len(cache') :
               cache'[j] = e \/ \E i \in 1..Len(cache) : cache'[j] = cache[i]
      BY <2>1, <3>1, <3>2, AssignEntry, AssignIsDistinct
    <3> QED BY <2>1, <3>1, <3>2, <3>3 DEF EntriesOK, TimeOK
  <2>9. ASSUME NEW r \in Requests,
               Ask(r) \/ Refuse(r) \/ Lookup(r) \/ Run(r) \/ KeyError(r) \/ Trim(r)
        PROVE  EntriesOK'
    BY <2>3, <2>9 DEF Ask, Refuse, Lookup, Run, KeyError, Trim
  <2> QED BY <2>2, <2>3, <2>5, <2>6, <2>7, <2>8, <2>9 DEF Next, Thread, vars
<1> QED BY <1>1, <1>2, InvariantHolds, PTL DEF Spec

(***************************************************************************)
(* Every state has its type, and no key ever has two entries.              *)
(***************************************************************************)
THEOREM TypeCorrect == Spec => []TypeOK
<1>1. IInv /\ EntriesOK => TypeOK
  <2> SUFFICES ASSUME IInv, EntriesOK PROVE TypeOK
    OBVIOUS
  <2>1. DOMAIN cache = 1..Len(cache) /\ DOMAIN request = Requests
        /\ \A r \in Requests : request[r].pc \in Places
    BY DEF IInv, TypeInv
  <2> QED BY <2>1 DEF EntriesOK, Distinct, TimeOK, TypeOK
<1> QED BY <1>1, InvariantHolds, EntriesStayOK, PTL

(***************************************************************************)
(* A cached answer is never chosen when it is as old as _cache_ttl_s,      *)
(* whatever other threads did to its entry.                                *)
(***************************************************************************)
THEOREM ChosenAnswersAreFresh == Spec => FreshWhenChosen
<1>1. IInv /\ EntriesOK /\ [Next]_vars =>
        [\A r \in Requests : Chosen(r) => clock - request'[r].got.born < TTL]_vars
  <2> SUFFICES ASSUME IInv, EntriesOK, [Next]_vars, NEW r \in Requests, Chosen(r)
               PROVE  clock - request'[r].got.born < TTL
    OBVIOUS
  <2> DEFINE e == cache[IndexOf(cache, Key(r))]
  <2>1. /\ request[r].pc = "asked" /\ request'[r].pc = "hit"
        /\ cache \in Seq(Entries)
        /\ request \in [Requests -> [pc : Places, qid : Qids \cup {{}},
                                     question : Questions \cup {{}}, got : Answers]]
    BY DEF Chosen, IInv, TypeInv
  <2>2. \E q \in Requests : Ask(q) \/ Thread(q)
    BY <2>1 DEF Next, Tick, vars
  <2>3. PICK q \in Requests : Ask(q) \/ Thread(q)
    BY <2>2
  <2>4. Lookup(r)
    BY <2>1, <2>3 DEF Ask, Thread, Refuse, Hit, Drop, Run, Store, Touch, KeyError, ReplyError, Trim,
                      Pop, Lookup, Goto
  <2>5. /\ Key(r) \in Keys(cache) /\ ~ Expired(e)
        /\ request' = [request EXCEPT ![r].pc = "hit", ![r].got = e.answer]
    BY <2>1, <2>4 DEF Lookup, Goto
  <2>6. TimeOK(e)
    BY <2>1, <2>5, IndexOfKey DEF EntriesOK
  <2> HIDE DEF e
  <2>7. request'[r].got = e.answer
    BY <2>1, <2>5
  <2> QED BY <2>5, <2>6, <2>7 DEF Expired, TimeOK
<1> QED BY <1>1, InvariantHolds, EntriesStayOK, PTL DEF Spec, FreshWhenChosen
=============================================================================
