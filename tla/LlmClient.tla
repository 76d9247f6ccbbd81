----------------------------- MODULE LlmClient -----------------------------
(***************************************************************************)
(* How requests use the language model: llm/hard_deadline.py (one thread   *)
(* pool for the process), llm/clova.py and llm/ratelimit.py (one provider  *)
(* and one Pacer for the process).                                         *)
(*                                                                         *)
(* A request runs in a server thread and makes at most one call per stage: *)
(* the table-of-contents routing, then the narration.  run_bounded() gives *)
(* the call to the pool and waits for it no longer than its timeout; a     *)
(* call whose caller has left isn't cancelled, and goes on using its       *)
(* worker, the Pacer and the service.  Between the two, the search for     *)
(* documents sends the question to the embedding service: on the request's *)
(* own thread, without run_bounded(), deadline, retries or Pacer.          *)
(*                                                                         *)
(* Time passes only while every thread sleeps, waits or is deep in the     *)
(* deterministic work of a request, which may take any time.  The Pacer    *)
(* has no lock: its read and its write are separate steps.                 *)
(***************************************************************************)
EXTENDS Integers, Sequences, FiniteSets

CONSTANTS
  Requests,       \* the requests of a behaviour
  Caps,           \* the wall-clock cap of each stage (25 s, 45 s)
  Workers,        \* max_workers of _POOL
  Budget,         \* request_timeout_s
  MinAttempt,     \* _MIN_ATTEMPT_S
  MaxRetries,     \* MAX_RETRIES
  Fallback,       \* _FALLBACK_WAIT
  Grace,          \* the half second added to a hinted reset
  MaxWait,        \* _MAX_WAIT
  JitterPercent,  \* jitter is at most this share of the wait (30) ...
  JitterCap,      \* ... and at most this long
  Hints,          \* the resets parse_reset() may find in the headers
  NoHint,         \* parse_reset() found none
  MaxClock        \* bound on the clock

ASSUME LlmAssumption ==
  /\ IsFiniteSet(Requests)
  /\ Caps \in Seq(Nat \ {0}) /\ Caps # <<>>
  /\ {Workers, Budget} \subseteq Nat \ {0}
  /\ {MinAttempt, MaxRetries, Fallback, Grace, MaxWait} \subseteq Nat
  /\ {JitterPercent, JitterCap, MaxClock} \subseteq Nat
  /\ Hints \subseteq Nat

\* The provers know nothing of powers.
ASSUME PowerAssumption == \A n \in 0..MaxRetries : 2^n \in Nat

VARIABLES
  clock,       \* time.monotonic()
  request,     \* each request: its stage (0 before it arrives), its deadline,
               \* until when it waits for a call (0 when it waits for none), and
               \* whether its question was sent to be embedded
  call,        \* the call of each request and stage: where it is, its
               \* attempt, and when it wakes up (0 when it is awake)
  queue,       \* _POOL's work queue
  sleepUntil   \* Pacer._sleep_until

vars == <<clock, request, call, queue, sleepUntil>>

Stages == DOMAIN Caps
-----------------------------------------------------------------------------
MinOf(a, b) == IF a < b THEN a ELSE b

WithJitter(base) ==
  {base + j : j \in 0..MinOf((base * JitterPercent) \div 100, JitterCap)}

\* retry_wait(): the hinted reset, else an exponential backoff.
RetryWaits(hint, attempt) ==
  WithJitter(MinOf(IF hint = NoHint THEN Fallback * 2^attempt ELSE hint + Grace, MaxWait))

\* The pause of observe(): a reset of 0 is falsy, and counts as no hint.
Pauses(hint) ==
  WithJitter(MinOf((IF hint \in {NoHint, 0} THEN Fallback ELSE hint) + Grace, MaxWait))

Remaining(r) == request[r].deadline - clock

Left(k) == Remaining(k[1])

Waiting(r) == request[r].until # 0

Embedding(r) == request[r].embed = "sent"

Answered(r) == request[r].stage > Len(Caps)

\* A mutant's: a worker that has had a call is lost.
BusyForever(k) == call[k].pc \notin {"new", "queued"}

Busy(k) == call[k].pc \notin {"new", "queued", "over"}

\* The future has a result or an exception, which are the same to a stage.
Done(k) == call[k].pc = "over"

WorkerFree == Cardinality({k \in DOMAIN call : Busy(k)}) < Workers

Goto(k, pc) == call' = [call EXCEPT ![k].pc = pc, ![k].wake = 0]

\* The loop is left, by a return or an exception.
Finish(k) == call' = [call EXCEPT ![k] = [pc |-> "over", attempt |-> 0, wake |-> 0]]

GotoSleep(k, pc, t) == call' = [call EXCEPT ![k].pc = pc, ![k].wake = t]
-----------------------------------------------------------------------------
Init ==
  /\ clock = 0
  /\ request = [r \in Requests |-> 
                   [stage |-> 0, deadline |-> 0, until |-> 0, embed |-> "none"]]
  /\ call = [k \in Requests \X Stages |-> [pc |-> "new", attempt |-> 0, wake |-> 0]]
  /\ queue = <<>>
  /\ sleepUntil = 0

\* Orchestrator.answer() fixes the deadline of the request.
Arrive(r) ==
  /\ request[r].stage = 0
  /\ clock + Budget <= MaxClock
  /\ request' = [request EXCEPT ![r].stage = 1, ![r].deadline = clock + Budget]
  /\ UNCHANGED <<clock, call, queue, sleepUntil>>

Working(r) == request[r].stage \in Stages /\ ~ Waiting(r) /\ ~ Embedding(r)

MoveOn(r) == request' = [request EXCEPT ![r].stage = @ + 1, ![r].until = 0]

\* doc_search(), before the last stage: the question is posted.
StartEmbedding(r) ==
  /\ Working(r)
  /\ request[r].stage = Len(Caps)
  /\ request[r].embed = "none"
  /\ request' = [request EXCEPT ![r].embed = "sent"]
  /\ UNCHANGED <<clock, call, queue, sleepUntil>>

\* A vector or any exception, upon which BM25 searches alone.
EndEmbedding(r) ==
  /\ Embedding(r)
  /\ request' = [request EXCEPT ![r].embed = "over"]
  /\ UNCHANGED <<clock, call, queue, sleepUntil>>

\* The stage makes no call (another question type, an empty body, stub), or
\* run_bounded() raises HardTimeout at once because no budget is left.
Skip(r) ==
  /\ Working(r)
  /\ MoveOn(r)
  /\ UNCHANGED <<clock, call, queue, sleepUntil>>

CapOnly(r) == Caps[request[r].stage]

\* min(remaining(deadline), cap)
Timeout(r) == MinOf(Remaining(r), Caps[request[r].stage])

\* run_bounded() submits the call and starts to wait.
Submit(r) ==
  LET k == <<r, request[r].stage>>
  IN  /\ Working(r)
      /\ Timeout(r) > 0
      /\ request' = [request EXCEPT ![r].until = clock + Timeout(r)]
      /\ Goto(k, "queued")
      /\ queue' = Append(queue, k)
      /\ UNCHANGED <<clock, sleepUntil>>

\* future.result() returns, or raises what the call raised; both end the stage.
Result(r) ==
  /\ Waiting(r)
  /\ Done(<<r, request[r].stage>>)
  /\ MoveOn(r)
  /\ UNCHANGED <<clock, call, queue, sleepUntil>>

NeverTimesOut(r) == FALSE

TimedOut(r) == clock >= request[r].until

\* future.result() times out and the caller leaves; the call goes on.
Abandon(r) ==
  /\ Waiting(r)
  /\ ~ Done(<<r, request[r].stage>>)
  /\ TimedOut(r)
  /\ MoveOn(r)
  /\ UNCHANGED <<clock, call, queue, sleepUntil>>
-----------------------------------------------------------------------------
\* A worker of the pool takes the oldest call, abandoned or not.
Take ==
  /\ queue # <<>>
  /\ WorkerFree
  /\ Goto(Head(queue), "head")
  /\ queue' = Tail(queue)
  /\ UNCHANGED <<clock, request, sleepUntil>>

NeverTooLate(k) == FALSE

\* The check at the head of the loop of _post_with_retry().
TooLate(k) == Left(k) <= MinAttempt

GiveUp(k) ==
  /\ call[k].pc = "head"
  /\ TooLate(k)
  /\ Finish(k)
  /\ UNCHANGED <<clock, request, queue, sleepUntil>>

PauseAlwaysFits(k) == TRUE

\* The pause ends before the deadline.
PauseFits(k) == sleepUntil - clock < Left(k)

\* Pacer.wait() reads _sleep_until: no pause, one that doesn't fit in the
\* budget, or one to sleep through.
ReadPause(k) ==
  /\ call[k].pc = "head"
  /\ ~ TooLate(k)
  /\ \/ sleepUntil <= clock                 /\ Goto(k, "clear")
     \/ sleepUntil > clock /\ ~ PauseFits(k) /\ Goto(k, "refuse")
     \/ sleepUntil > clock /\ PauseFits(k)   /\ GotoSleep(k, "pacing", sleepUntil)
  /\ UNCHANGED <<clock, request, queue, sleepUntil>>

\* Pacer.wait() erases the pause, whoever set it, and the attempt starts.
Attempt(k) ==
  /\ \/ call[k].pc = "clear"
     \/ call[k].pc = "pacing" /\ clock >= call[k].wake
  /\ sleepUntil' = 0
  /\ Goto(k, "http")
  /\ UNCHANGED <<clock, request, queue>>

\* Pacer.wait() erases the pause it refuses to sleep through, and raises.
RefusePause(k) ==
  /\ call[k].pc = "refuse"
  /\ sleepUntil' = 0
  /\ Finish(k)
  /\ UNCHANGED <<clock, request, queue>>

\* A status below 400: observe() asks for a pause when the quota runs low.
Succeed(k) ==
  /\ call[k].pc = "http"
  /\ Finish(k)
  /\ \/ UNCHANGED sleepUntil
     \/ \E hint \in Hints \cup {NoHint} : \E pause \in Pauses(hint) :
          sleepUntil' = clock + pause
  /\ UNCHANGED <<clock, request, queue>>

\* A transport error, another 4xx, or a 429/5xx that isn't retried.
Fail(k) ==
  /\ call[k].pc = "http"
  /\ Finish(k)
  /\ UNCHANGED <<clock, request, queue, sleepUntil>>

RetryFitsBarely(k, wait) == wait < Left(k)

\* The retry is refused when the sleep leaves less than a minimal attempt.
RetryFits(k, wait) == wait + MinAttempt < Left(k)

RetriesLeftOffByOne(k) == call[k].attempt <= MaxRetries

RetriesLeft(k) == call[k].attempt < MaxRetries

\* A 429 or a 5xx: sleep, then try again.
Backoff(k) ==
  /\ call[k].pc = "http"
  /\ RetriesLeft(k)
  /\ \E hint \in Hints \cup {NoHint} : \E wait \in RetryWaits(hint, call[k].attempt) :
       /\ RetryFits(k, wait)
       /\ GotoSleep(k, "backoff", clock + wait)
  /\ UNCHANGED <<clock, request, queue, sleepUntil>>

WakeUp(k) ==
  /\ call[k].pc = "backoff"
  /\ clock >= call[k].wake
  /\ call' = [call EXCEPT ![k] = [pc |-> "head", attempt |-> @.attempt + 1, wake |-> 0]]
  /\ UNCHANGED <<clock, request, queue, sleepUntil>>
-----------------------------------------------------------------------------
\* A thread that would run now if it were scheduled.
Ready ==
  \/ queue # <<>> /\ WorkerFree
  \/ \E k \in DOMAIN call :
       \/ call[k].pc \in {"head", "clear", "refuse"}
       \/ call[k].pc \in {"pacing", "backoff"} /\ clock >= call[k].wake
  \/ \E r \in Requests :
       Waiting(r) /\ (TimedOut(r) \/ Done(<<r, request[r].stage>>))

Tick ==
  /\ clock < MaxClock
  /\ ~ Ready
  /\ clock' = clock + 1
  /\ UNCHANGED <<request, call, queue, sleepUntil>>

ServerThread(r) == StartEmbedding(r) \/ Skip(r) \/ Submit(r) \/ Result(r) \/ Abandon(r)

Worker(k) == GiveUp(k) \/ ReadPause(k) \/ Attempt(k) \/ RefusePause(k) \/ WakeUp(k)

Service(k) == Succeed(k) \/ Fail(k) \/ Backoff(k)

Next ==
  \/ Tick \/ Take
  \/ \E r \in Requests : Arrive(r) \/ ServerThread(r) \/ EndEmbedding(r)
  \/ \E k \in DOMAIN call : Worker(k) \/ Service(k)

Spec == Init /\ [][Next]_vars

(***************************************************************************)
(* Threads that can run do, and time passes.  The services owe no answer:  *)
(* an attempt may hang for ever, and so may an embedding.                  *)
(***************************************************************************)
Fairness ==
  /\ WF_vars(Tick)
  /\ WF_vars(Take)
  /\ \A r \in Requests : WF_vars(ServerThread(r))
  /\ \A k \in Requests \X Stages : WF_vars(Worker(k))

FairSpec == Spec /\ Fairness
-----------------------------------------------------------------------------
(***************************************************************************)
(* Types: a call is tried at most MAX_RETRIES + 1 times, the queue holds   *)
(* each waiting call once, and no pause outlasts its cap.                  *)
(***************************************************************************)
TypeOK ==
  /\ clock \in 0..MaxClock
  /\ request \in [Requests -> [stage : 0..(Len(Caps) + 1), deadline : 0..MaxClock,
                               until : 0..MaxClock, embed : {"none", "sent", "over"}]]
  /\ call \in [Requests \X Stages ->
                 [pc : {"new", "queued", "head", "clear", "refuse", "pacing", "http",
                        "backoff", "over"},
                  attempt : 0..MaxRetries, wake : 0..MaxClock]]
  /\ queue \in Seq(Requests \X Stages)
  /\ \A i, j \in 1..Len(queue) : queue[i] = queue[j] => i = j
  /\ \A k \in DOMAIN call : call[k].pc = "queued" <=> \E i \in 1..Len(queue) : queue[i] = k
  /\ sleepUntil \in 0..(clock + MaxWait + JitterCap)

Starts(k) == call[k].pc # "http" /\ call'[k].pc = "http"

(***************************************************************************)
(* No attempt starts once the deadline of its request is over, however     *)
(* long the call was in the queue, paced or backed off before (clova.py    *)
(* 88-90: such an attempt only costs quota).                               *)
(***************************************************************************)
AttemptInBudget == [][\A k \in DOMAIN call : Starts(k) => Left(k) > 0]_vars

(***************************************************************************)
(* A thread never sleeps in vain: a pause ends before the deadline, and a  *)
(* backoff with more than _MIN_ATTEMPT_S of the budget left.  So outside   *)
(* an HTTP call, no worker outlives the request it works for.              *)
(***************************************************************************)
NoSleepInVain ==
  \A k \in DOMAIN call :
    /\ call[k].pc = "pacing" => call[k].wake < request[k[1]].deadline
    /\ call[k].pc = "backoff" => call[k].wake + MinAttempt < request[k[1]].deadline

(***************************************************************************)
(* AC-API4: no caller waits for the routing or the narration beyond the    *)
(* deadline of its request, or beyond the cap of the stage, whatever the   *)
(* pool, the Pacer and the service do.                                     *)
(***************************************************************************)
WaitsInBudget ==
  \A r \in Requests : Waiting(r) =>
    /\ clock <= request[r].until
    /\ request[r].until <= request[r].deadline
    /\ request[r].until <= clock + Caps[request[r].stage]

(***************************************************************************)
(* hard_deadline.py: a request is answered, or stays in its one embedding, *)
(* even if the model hangs for ever and every worker is lost to it, and    *)
(* whatever the embeddings of other requests do.                           *)
(***************************************************************************)
EveryRequestAnswered ==
  \A r \in Requests : request[r].stage \in Stages ~> Answered(r) \/ Embedding(r)

(***************************************************************************)
(* Abandoning a call leaks nothing: unless an attempt hangs for ever,      *)
(* every call that was queued, abandoned or not, gets a worker and ends.   *)
(***************************************************************************)
PoolRecovers ==
  (\A k \in Requests \X Stages : []<>(call[k].pc # "http"))
     => \A k \in Requests \X Stages : call[k].pc = "queued" ~> Done(k)

(***************************************************************************)
(* AC-N10 and ratelimit.py:98 say that the Pacer remembers the last        *)
(* response and makes the next attempt sleep when the quota runs low: no   *)
(* attempt starts while a pause that was asked for still runs.             *)
(***************************************************************************)
PauseRespected == [][\A k \in DOMAIN call : Starts(k) => clock >= sleepUntil]_vars
=============================================================================
