----------------------------- MODULE RateLimit -----------------------------
(***************************************************************************)
(* The inbound limiter, api/ratelimit_mw.py.  check() runs inside the      *)
(* async middleware of api/server.py, on the one event-loop thread and     *)
(* with no await in it, so one call is one step.                           *)
(*                                                                         *)
(* The dict _hits is the function hits: a bucket exists iff it is not      *)
(* empty, because check() leaves every bucket it touches with at least one *)
(* time in it.  Time is counted in ticks, Second of them to a second, so   *)
(* that int() in the Retry-After header really truncates.                  *)
(***************************************************************************)
EXTENDS Integers, Sequences, FiniteSets

CONSTANTS
  Clients,     \* what _client_key returns
  Limit,       \* _LIMIT, RATE_LIMIT_PER_MIN (0 or less switches the limiter off)
  Window,      \* _WINDOW, in ticks
  Second,      \* ticks per second
  MaxClients,  \* _MAX_CLIENTS
  MaxClock     \* bound on the clock

ASSUME LimiterAssumption ==
  /\ IsFiniteSet(Clients)
  /\ Limit \in Nat \ {0}
  /\ Window \in Nat
  /\ Second \in Nat \ {0}
  /\ MaxClients \in Nat \ {0}
  /\ MaxClock \in Nat

VARIABLES
  clock,       \* time.monotonic()
  hits,        \* _hits: the deque of admission times of each client
  told,        \* history: when the last 429 told the client to come back, 0 if none
  log,         \* history: every admission since the client's bucket was created
  verdict      \* history: the last decision

vars == <<clock, hits, told, log, verdict>>
-----------------------------------------------------------------------------
Tracked == {c \in Clients : hits[c] # <<>>}

ExpiredFrom(t) == clock - t >= Window

Expired(t) == clock - t > Window

\* How many times the while loop pops: it stops at the first live entry.
Dropped(q) ==
  CHOOSE n \in 0..Len(q) :
    /\ \A i \in 1..n : Expired(q[i])
    /\ n < Len(q) => ~ Expired(q[n + 1])

Pruned(c) == SubSeq(hits[c], Dropped(hits[c]) + 1, Len(hits[c]))

\* The buckets min(_hits, key=first hit) can pick; ties are left open.
Oldest == {v \in Tracked : \A u \in Tracked : hits[v][1] <= hits[u][1]}

EvictableLate(c) ==
  IF c \notin Tracked /\ Cardinality(Tracked) > MaxClients
  THEN {{v} : v \in Oldest} ELSE {{}}

Evictable(c) ==
  IF c \notin Tracked /\ Cardinality(Tracked) >= MaxClients
  THEN {{v} : v \in Oldest} ELSE {{}}

HasRoomOffByOne(c) == Len(Pruned(c)) <= Limit

HasRoom(c) == Len(Pruned(c)) < Limit

RetryAfterTruncated(q) ==
  LET left == (Window - (clock - q[1])) \div Second
  IN  IF left > 1 THEN left ELSE 1

\* The Retry-After header, in seconds, for the pruned bucket q.
RetryAfter(q) ==
  LET left == (Window - (clock - q[1])) \div Second + 1
  IN  IF left > 1 THEN left ELSE 1
-----------------------------------------------------------------------------
Init ==
  /\ clock = 0
  /\ hits = [c \in Clients |-> <<>>]
  /\ told = [c \in Clients |-> 0]
  /\ log = [c \in Clients |-> <<>>]
  /\ verdict = [client |-> {}, at |-> 0, admitted |-> TRUE]

Tick ==
  /\ clock < MaxClock
  /\ clock' = clock + 1
  /\ UNCHANGED <<hits, told, log, verdict>>

\* check() returns None: the victim's bucket is deleted, c's is pruned and
\* gets the current time.
Admit(c) ==
  /\ HasRoom(c)
  /\ \E gone \in Evictable(c) :
       /\ hits' = [d \in Clients |-> CASE d = c               -> Append(Pruned(c), clock)
                                       [] d # c /\ d \in gone -> <<>>
                                       [] OTHER               -> hits[d]]
       /\ log' = [d \in Clients |-> CASE d = c               -> Append(log[c], clock)
                                      [] d # c /\ d \in gone -> <<>>
                                      [] OTHER               -> log[d]]
  /\ told' = [told EXCEPT ![c] = 0]
  /\ verdict' = [client |-> c, at |-> clock, admitted |-> TRUE]
  /\ UNCHANGED clock

\* check() returns the 429: the pruned bucket stays, the hit isn't recorded.
Reject(c) ==
  /\ ~ HasRoom(c)
  /\ hits' = [hits EXCEPT ![c] = Pruned(c)]
  /\ told' = [told EXCEPT ![c] = clock + Second * RetryAfter(Pruned(c))]
  /\ verdict' = [client |-> c, at |-> clock, admitted |-> FALSE]
  /\ UNCHANGED <<clock, log>>

Next == Tick \/ \E c \in Clients : Admit(c) \/ Reject(c)

Spec == Init /\ [][Next]_vars
-----------------------------------------------------------------------------
(***************************************************************************)
(* Types: clock readings are numbers and no bucket ever holds more than    *)
(* _LIMIT of them, so the limiter's memory per client is bounded.          *)
(***************************************************************************)
TypeOK ==
  /\ clock \in 0..MaxClock
  /\ hits \in [Clients -> Seq(0..MaxClock)]
  /\ told \in [Clients -> Nat]
  /\ log \in [Clients -> Seq(0..MaxClock)]
  /\ \A c \in Clients : Len(hits[c]) <= Limit

(***************************************************************************)
(* README.md:25 promises a hard bound on the limiter's client state: no    *)
(* sequence of requests of new clients makes _hits outgrow _MAX_CLIENTS.   *)
(***************************************************************************)
TrackedBounded == Cardinality(Tracked) <= MaxClients

(***************************************************************************)
(* The Retry-After header is a promise: whoever waits as long as the last  *)
(* 429 said is admitted, unless another request of the same address was    *)
(* admitted in between (told is then 0), whatever other clients did and    *)
(* whether or not the bucket was evicted.  The header also never asks for  *)
(* more than one second beyond what is needed.                             *)
(***************************************************************************)
RetryPromise ==
  \A c \in Clients : told[c] # 0 =>
    /\ clock >= told[c] => HasRoom(c)
    /\ hits[c] # <<>> => told[c] <= hits[c][1] + Window + Second

(***************************************************************************)
(* The pruned deque decides like the abstract limiter that remembers every *)
(* admission: check() admits exactly when the client had fewer than _LIMIT *)
(* admissions in the last _WINDOW, since its bucket was created.           *)
(***************************************************************************)
Abstract ==
  INSTANCE WindowLimiter WITH
    Clients <- Clients, Limit <- Limit, Window <- Window, MaxClients <- MaxClients,
    clock <- clock, log <- log, verdict <- verdict

ImplementsWindowLimiter == Abstract!Spec
=============================================================================
