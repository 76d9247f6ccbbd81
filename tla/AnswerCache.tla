---------------------------- MODULE AnswerCache ----------------------------
(***************************************************************************)
(* The answer cache of agent/orchestrator.py, behind GET /answer of        *)
(* api/server.py.  The handler is a plain function, so the server runs it  *)
(* in a pool of threads; the cache, an OrderedDict, has no lock, and one   *)
(* operation on it is one step.  Nothing stops two requests with the same  *)
(* key from computing the answer both, or a third from evicting an entry   *)
(* that another is about to touch.                                         *)
(*                                                                         *)
(* The OrderedDict is the sequence cache, least recently used first.       *)
(***************************************************************************)
EXTENDS Integers, FiniteSets, Sequences, SequencesExt

CONSTANTS
  NumRequests, \* bound on the requests of a behaviour
  Qids,        \* values of question_id
  Questions,   \* values of question, after the truncation to _Q_MAX
  Stripped,    \* question.strip(), a function on Questions
  Sensitive,   \* the questions refused before the cache is looked at
  Threads,     \* threads of the server
  MaxEntries,  \* _cache_max
  TTL,         \* _cache_ttl_s
  MaxClock     \* bound on the clock

ASSUME CacheAssumption ==
  /\ NumRequests \in Nat
  /\ Stripped \in [Questions -> Questions]
  /\ Sensitive \subseteq Questions
  /\ Threads \in Nat \ {0}
  /\ MaxEntries \in Nat \ {0}
  /\ {TTL, MaxClock} \subseteq Nat

\* In the order they arrive.
Requests == 1..NumRequests

VARIABLES
  clock,       \* time.monotonic()
  cache,       \* _cache: entries [key, at, answer]
  request      \* each request: where its thread is, what it asks, and the
               \* answer it holds

vars == <<clock, cache, request>>

\* An answer is known by the question it answers and the time it was stored.
NoAnswer == [qid |-> {}, question |-> {}, born |-> 0]

\* The places where the thread of a request can be.
Places ==
  {"new", "asked", "hit", "stale", "run", "store", "touch", "trim", "pop",
   "replied", "failed", "refused"}

InFlight == {r \in Requests : request[r].pc \notin {"new", "replied", "failed", "refused"}}
-----------------------------------------------------------------------------
KeyOfId(r) == <<request[r].qid>>

\* The key of the request: the pair, because question ids are reused.
Key(r) == <<request[r].qid, Stripped[request[r].question]>>

Keys(s) == {s[i].key : i \in DOMAIN s}

\* The entry of key k in s; only when there is one.
IndexOf(s, k) == CHOOSE i \in DOMAIN s : s[i].key = k

Without(s, k) == IF k \in Keys(s) THEN RemoveAt(s, IndexOf(s, k)) ELSE s

ToEndFresh(s, k) == Append(Without(s, k), [s[IndexOf(s, k)] EXCEPT !.at = clock])

\* move_to_end() of a key that is present.
ToEnd(s, k) == Append(Without(s, k), s[IndexOf(s, k)])

AppendAlways(s, e) == Append(s, e)

\* s[k] = e: an entry that exists is overwritten where it is.
Assign(s, e) ==
  IF e.key \in Keys(s) THEN ReplaceAt(s, IndexOf(s, e.key), e) ELSE Append(s, e)

Expired(e) == ~ (clock - e.at < TTL)

Goto(r, pc) == request' = [request EXCEPT ![r].pc = pc]
-----------------------------------------------------------------------------
Init ==
  /\ clock = 0
  /\ cache = <<>>
  /\ request = [r \in Requests |->
                  [pc |-> "new", qid |-> {}, question |-> {}, got |-> NoAnswer]]

Tick ==
  /\ clock < MaxClock
  /\ clock' = clock + 1
  /\ UNCHANGED <<cache, request>>

\* A free thread of the server takes the next request.
Ask(r) ==
  /\ request[r].pc = "new"
  /\ \A q \in Requests : q < r => request[q].pc # "new"
  /\ Cardinality(InFlight) < Threads
  /\ \E qid \in Qids, question \in Questions :
       request' = [request EXCEPT ![r].pc = "asked", ![r].qid = qid,
                                  ![r].question = question]
  /\ UNCHANGED <<clock, cache>>

\* An empty question, an index that isn't ready, or a sensitive question:
\* answered before the cache, the tools and the model.
Refuse(r) ==
  /\ request[r].pc = "asked"
  /\ request[r].question \in Sensitive
  /\ Goto(r, "refused")
  /\ UNCHANGED <<clock, cache>>

\* _cache.get(), and the check of what it returned.
Lookup(r) ==
  /\ request[r].pc = "asked"
  /\ request[r].question \notin Sensitive
  /\ IF Key(r) \notin Keys(cache)
     THEN Goto(r, "run")
     ELSE LET e == cache[IndexOf(cache, Key(r))]
          IN  IF Expired(e)
              THEN Goto(r, "stale")
              ELSE request' = [request EXCEPT ![r].pc = "hit", ![r].got = e.answer]
  /\ UNCHANGED <<clock, cache>>

\* move_to_end() and return.
Hit(r) ==
  /\ request[r].pc = "hit"
  /\ Key(r) \in Keys(cache)
  /\ cache' = ToEnd(cache, Key(r))
  /\ Goto(r, "replied")
  /\ UNCHANGED clock

\* _cache.pop(key, None): the entry may be a newer one than the expired one.
Drop(r) ==
  /\ request[r].pc = "stale"
  /\ cache' = Without(cache, Key(r))
  /\ Goto(r, "run")
  /\ UNCHANGED clock

\* _run() ends; an exception in it is an answer too (internal_error).
Run(r) ==
  /\ request[r].pc = "run"
  /\ Goto(r, "store")
  /\ UNCHANGED <<clock, cache>>

\* self._cache[key] = (time.monotonic(), ans)
Store(r) ==
  LET answer == [qid |-> request[r].qid, question |-> request[r].question, born |-> clock]
  IN  /\ request[r].pc = "store"
      /\ cache' = Assign(cache, [key |-> Key(r), at |-> clock, answer |-> answer])
      /\ request' = [request EXCEPT ![r].pc = "touch", ![r].got = answer]
      /\ UNCHANGED clock

Touch(r) ==
  /\ request[r].pc = "touch"
  /\ Key(r) \in Keys(cache)
  /\ cache' = ToEnd(cache, Key(r))
  /\ Goto(r, "trim")
  /\ UNCHANGED clock

\* No reply: the exception ends the thread.
ReplyNothing(r) == UNCHANGED request

\* The except of server.answer(): the error reply, and the answer is lost.
ReplyError(r) == Goto(r, "failed")

\* move_to_end() of an entry, or popitem() of the last one, that another
\* thread has removed.
KeyError(r) ==
  /\ \/ request[r].pc \in {"hit", "touch"} /\ Key(r) \notin Keys(cache)
     \/ request[r].pc = "pop" /\ cache = <<>>
  /\ ReplyError(r)
  /\ UNCHANGED <<clock, cache>>

OverfullByOne == Len(cache) > MaxEntries + 1

Overfull == Len(cache) > MaxEntries

\* The condition of the trimming loop.
Trim(r) ==
  /\ request[r].pc = "trim"
  /\ Goto(r, IF Overfull THEN "pop" ELSE "replied")
  /\ UNCHANGED <<clock, cache>>

\* popitem(last=False)
Pop(r) ==
  /\ request[r].pc = "pop"
  /\ cache # <<>>
  /\ cache' = Tail(cache)
  /\ Goto(r, "trim")
  /\ UNCHANGED clock

Thread(r) ==
  \/ Refuse(r) \/ Lookup(r) \/ Hit(r) \/ Drop(r) \/ Run(r) \/ Store(r)
  \/ Touch(r) \/ KeyError(r) \/ Trim(r) \/ Pop(r)

Next == Tick \/ \E r \in Requests : Ask(r) \/ Thread(r)

Spec == Init /\ [][Next]_vars

\* Every thread of the server runs, and _run() ends: its LLM stages have a
\* deadline; that no embedding of a question hangs for ever is assumed.
FairSpec == Spec /\ \A r \in Requests : WF_vars(Thread(r))
-----------------------------------------------------------------------------
(***************************************************************************)
(* Types, and no key has two entries.                                      *)
(***************************************************************************)
TypeOK ==
  /\ clock \in 0..MaxClock
  /\ DOMAIN request = Requests
  /\ \A r \in Requests : request[r].pc \in Places
  /\ \A i \in DOMAIN cache : cache[i].at \in 0..clock
  /\ \A i, j \in DOMAIN cache : cache[i].key = cache[j].key => i = j

TouchedKeys == {Key(r) : r \in {q \in Requests : request[q].pc = "touch"}}

Trimming == {r \in Requests : request[r].pc \in {"trim", "pop"}}

(***************************************************************************)
(* The cache exceeds _cache_max by no more entries than there are threads  *)
(* between their insertion and the end of their trimming.  So whenever no  *)
(* request is between the two it is within the bound, although nothing     *)
(* makes insertion and trimming one step.                                  *)
(***************************************************************************)
CacheBounded ==
  Len(cache) <= MaxEntries + Cardinality(TouchedKeys \cap Keys(cache))
                           + Cardinality(Trimming)

(***************************************************************************)
(* orchestrator.py:314-316: a reply is an answer to the question that was  *)
(* asked, up to the blanks around it, under the question_id it was asked   *)
(* with; never the answer of another question that came with the same id.  *)
(***************************************************************************)
OwnQuestion ==
  \A r \in Requests : request[r].pc = "replied" =>
    /\ Stripped[request[r].got.question] = Stripped[request[r].question]
    /\ request[r].got.qid = request[r].qid

Chosen(r) == request[r].pc = "asked" /\ request'[r].pc = "hit"

(***************************************************************************)
(* A cached answer is chosen only within _cache_ttl_s of the time it was   *)
(* stored, however often it was touched or overwritten since.              *)
(***************************************************************************)
FreshWhenChosen ==
  [][\A r \in Requests : Chosen(r) => clock - request'[r].got.born < TTL]_vars

(***************************************************************************)
(* AC-API2: every request is replied to, even when another thread removes  *)
(* its entry or the trimming loops of several threads meet.                *)
(***************************************************************************)
EveryRequestReplied ==
  \A r \in Requests :
    request[r].pc = "asked" ~> request[r].pc \in {"replied", "failed", "refused"}
=============================================================================
