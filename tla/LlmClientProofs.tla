-------------------------- MODULE LlmClientProofs --------------------------
(***************************************************************************)
(* Time in the calls of the language model, for every number of requests,  *)
(* stages, workers and retries: no sleep, attempt or wait outlasts the     *)
(* deadline of its request.                                                *)
(***************************************************************************)
EXTENDS LlmClient, FiniteSetTheorems, SequenceTheorems, TLAPS

Calls == Requests \X Stages

\* Where a call is once a worker has it.
Taken == {"head", "clear", "refuse", "pacing", "http", "backoff", "over"}

Typed ==
  /\ clock \in 0..MaxClock
  /\ request \in [Requests -> [stage : 0..(Len(Caps) + 1), deadline : 0..MaxClock,
                               until : 0..MaxClock, embed : {"none", "sent", "over"}]]
  /\ call \in [Calls -> [pc : Taken \cup {"new", "queued"}, attempt : 0..MaxRetries,
                         wake : 0..MaxClock]]

PauseBounded == sleepUntil \in 0..(clock + MaxWait + JitterCap)

QueueOK ==
  /\ queue \in Seq(Calls)
  /\ \A i, j \in 1..Len(queue) : queue[i] = queue[j] => i = j
  /\ \A k \in Calls : call[k].pc = "queued" <=> \E i \in 1..Len(queue) : queue[i] = k

\* A stage that has not come makes no call, and a request waits in a stage only.
Unused ==
  /\ \A r \in Requests : Waiting(r) => request[r].stage \in Stages
  /\ \A r \in Requests, s \in Stages :
       s > request[r].stage \/ (s = request[r].stage /\ ~ Waiting(r))
         => call[<<r, s>>].pc = "new"

\* What a call may do in its state: begin an attempt, sleep, retry.
CallOK(c, deadline) ==
  /\ c.pc = "clear" => clock < deadline
  /\ c.pc = "pacing" => clock <= c.wake /\ c.wake < deadline
  /\ c.pc = "backoff" => c.attempt < MaxRetries /\ c.wake + MinAttempt < deadline

CallsInTime == \A k \in Calls : CallOK(call[k], request[k[1]].deadline)

IInv ==
  /\ Typed
  /\ PauseBounded
  /\ QueueOK
  /\ Unused
  /\ CallsInTime
  /\ WaitsInBudget
-----------------------------------------------------------------------------
(* The constants, number by number. *)
LEMMA Numbers ==
  /\ Len(Caps) \in Nat /\ Stages = 1..Len(Caps)
  /\ \A s \in Stages : s \in Nat /\ Caps[s] \in Nat \ {0}
  /\ MinAttempt \in Nat /\ MaxRetries \in Nat /\ Fallback \in Nat /\ Grace \in Nat
  /\ MaxWait \in Nat /\ JitterPercent \in Nat /\ JitterCap \in Nat /\ MaxClock \in Nat
  /\ Budget \in Nat
  /\ \A h \in Hints : h \in Nat
<1>1. Caps \in Seq(Nat \ {0})
  BY LlmAssumption
<1>2. Len(Caps) \in Nat /\ Stages = 1..Len(Caps)
  BY <1>1 DEF Stages
<1>3. \A s \in Stages : s \in Nat /\ Caps[s] \in Nat \ {0}
  BY <1>1, <1>2
<1>4. /\ MinAttempt \in Nat /\ MaxRetries \in Nat /\ Fallback \in Nat /\ Grace \in Nat
      /\ MaxWait \in Nat /\ JitterPercent \in Nat /\ JitterCap \in Nat /\ MaxClock \in Nat
      /\ Budget \in Nat
      /\ \A h \in Hints : h \in Nat
  BY LlmAssumption
<1> QED BY <1>2, <1>3, <1>4

LEMMA JitterBounds ==
  ASSUME NEW base \in Nat, NEW t \in WithJitter(base)
  PROVE  t \in Nat /\ t >= base /\ t <= base + JitterCap
<1> DEFINE share == (base * JitterPercent) \div 100
<1>1. JitterPercent \in Nat /\ JitterCap \in Nat
  BY Numbers
<1>2. base * JitterPercent \in Nat
  BY <1>1
<1>3. share \in Nat
  <2> DEFINE p == base * JitterPercent
  <2>1. p \in Nat
    BY <1>2
  <2> HIDE DEF p
  <2>2. p \div 100 \in Nat
    BY <2>1
  <2> QED BY <2>2 DEF p
<1> HIDE DEF share
<1>4. PICK j \in 0..MinOf(share, JitterCap) : t = base + j
  BY DEF WithJitter, share
<1>5. j \in Nat /\ j <= JitterCap
  BY <1>1, <1>3, <1>4 DEF MinOf
<1> QED BY <1>1, <1>4, <1>5

(* The waits are natural numbers, and no pause outlasts its cap. *)
LEMMA PauseBounds ==
  ASSUME NEW hint \in Hints \cup {NoHint}, NEW t \in Pauses(hint)
  PROVE  t \in 0..(MaxWait + JitterCap)
<1> DEFINE sum == (IF hint \in {NoHint, 0} THEN Fallback ELSE hint) + Grace
<1>1. sum \in Nat /\ MaxWait \in Nat /\ JitterCap \in Nat
  BY Numbers
<1> HIDE DEF sum
<1>2. MinOf(sum, MaxWait) \in Nat /\ MinOf(sum, MaxWait) <= MaxWait
  BY <1>1 DEF MinOf
<1>3. t \in WithJitter(MinOf(sum, MaxWait))
  BY DEF Pauses, sum
<1>4. t \in Nat /\ t <= MinOf(sum, MaxWait) + JitterCap
  BY <1>2, <1>3, JitterBounds
<1> QED BY <1>1, <1>2, <1>4

LEMMA RetryBounds ==
  ASSUME NEW hint \in Hints \cup {NoHint}, NEW attempt \in 0..MaxRetries,
         NEW t \in RetryWaits(hint, attempt)
  PROVE  t \in Nat
<1> DEFINE power == 2^attempt
           sum == IF hint = NoHint THEN Fallback * 2^attempt ELSE hint + Grace
<1>1. power \in Nat
  BY PowerAssumption
<1>2. Fallback \in Nat /\ Grace \in Nat /\ MaxWait \in Nat /\ \A h \in Hints : h \in Nat
  BY Numbers
<1>3. sum \in Nat
  <2> HIDE DEF power
  <2>1. Fallback * power \in Nat
    BY <1>1, <1>2
  <2>2. sum = IF hint = NoHint THEN Fallback * power ELSE hint + Grace
    BY DEF power
  <2> HIDE DEF sum
  <2>3. hint # NoHint => hint + Grace \in Nat
    BY <1>2
  <2> QED BY <2>1, <2>2, <2>3
<1>4. t \in WithJitter(MinOf(sum, MaxWait))
  BY DEF RetryWaits
<1> HIDE DEF sum
<1>5. MinOf(sum, MaxWait) \in Nat
  BY <1>2, <1>3 DEF MinOf
<1> QED BY <1>4, <1>5, JitterBounds
-----------------------------------------------------------------------------
(***************************************************************************)
(* A worker, or the service, moves one call on.                            *)
(***************************************************************************)
LEMMA CallMoves ==
  ASSUME IInv, UNCHANGED <<clock, request, queue>>, PauseBounded',
         NEW k \in Calls, call[k].pc \in Taken,
         NEW c \in [pc : Taken, attempt : 0..MaxRetries, wake : 0..MaxClock],
         CallOK(c, request[k[1]].deadline),
         call' = [call EXCEPT ![k] = c]
  PROVE  IInv'
<1> USE DEF IInv
<1>1. /\ call'[k] = c /\ \A j \in Calls \ {k} : call'[j] = call[j]
      /\ call' \in [Calls -> [pc : Taken \cup {"new", "queued"}, attempt : 0..MaxRetries,
                              wake : 0..MaxClock]]
  BY DEF Typed
<1>2. Typed'
  BY <1>1 DEF Typed
<1>3. call[k].pc \notin {"new", "queued"} /\ c.pc \notin {"new", "queued"}
  BY DEF Taken
<1>4. QueueOK'
  <2>1. \A j \in Calls : call'[j].pc = "queued" <=> call[j].pc = "queued"
    <3> TAKE j \in Calls
    <3>1. CASE j = k
      BY <1>1, <1>3, <3>1
    <3>2. CASE j # k
      BY <1>1, <3>2
    <3> QED BY <3>1, <3>2
  <2>2. queue' = queue /\ QueueOK
    OBVIOUS
  <2> HIDE DEF IInv
  <2> QED BY <2>1, <2>2 DEF QueueOK
<1>5. Unused'
  <2>1. ASSUME NEW r \in Requests, NEW s \in Stages, call[<<r, s>>].pc = "new"
        PROVE  call'[<<r, s>>].pc = "new"
    BY <1>1, <1>3, <2>1 DEF Calls
  <2> QED BY <2>1 DEF Unused, Waiting
<1>6. CallsInTime'
  BY <1>1 DEF CallsInTime, CallOK
<1>7. WaitsInBudget'
  BY DEF WaitsInBudget, Waiting
<1> QED BY <1>2, <1>4, <1>5, <1>6, <1>7

(* Goto() and GotoSleep() as CallMoves has them. *)
Moved(k, pc, wake) == [pc |-> pc, attempt |-> call[k].attempt, wake |-> wake]

LEMMA Gone ==
  ASSUME IInv, NEW k \in Calls, NEW pc \in Taken, NEW wake \in 0..MaxClock,
         GotoSleep(k, pc, wake)
  PROVE  /\ Moved(k, pc, wake) \in [pc : Taken, attempt : 0..MaxRetries, wake : 0..MaxClock]
         /\ call' = [call EXCEPT ![k] = Moved(k, pc, wake)]
<1>1. call[k] \in [pc : Taken \cup {"new", "queued"}, attempt : 0..MaxRetries, wake : 0..MaxClock]
      /\ DOMAIN call = Calls
  BY DEF IInv, Typed
<1>2. Moved(k, pc, wake) \in [pc : Taken, attempt : 0..MaxRetries, wake : 0..MaxClock]
  BY <1>1 DEF Moved
<1>3. [[call[k] EXCEPT !.pc = pc] EXCEPT !.wake = wake] = Moved(k, pc, wake)
  <2> DEFINE c == call[k]
  <2>1. c = [pc |-> c.pc, attempt |-> c.attempt, wake |-> c.wake]
    BY <1>1
  <2>2. Moved(k, pc, wake) = [pc |-> pc, attempt |-> c.attempt, wake |-> wake]
    BY DEF Moved
  <2> HIDE DEF c
  <2> DEFINE d == [c EXCEPT !.pc = pc]
  <2>3. d = [pc |-> pc, attempt |-> c.attempt, wake |-> c.wake]
    BY <2>1
  <2> HIDE DEF d
  <2>4. [d EXCEPT !.wake = wake] = [pc |-> pc, attempt |-> c.attempt, wake |-> wake]
    BY <2>3
  <2> QED BY <2>2, <2>4 DEF c, d
<1>4. call' = [call EXCEPT ![k] = [[call[k] EXCEPT !.pc = pc] EXCEPT !.wake = wake]]
  BY <1>1 DEF GotoSleep
<1> QED BY <1>2, <1>3, <1>4

(* It goes where it need not keep a time. *)
LEMMA GotoKeeps ==
  ASSUME IInv, UNCHANGED <<clock, request, queue>>, PauseBounded',
         NEW k \in Calls, call[k].pc \in Taken,
         NEW pc \in Taken, Goto(k, pc), pc \notin {"pacing", "backoff"},
         pc = "clear" => clock < request[k[1]].deadline
  PROVE  IInv'
<1> DEFINE c == Moved(k, pc, 0)
<1>1. 0 \in 0..MaxClock /\ GotoSleep(k, pc, 0)
  BY Numbers DEF Goto, GotoSleep
<1>2. /\ c \in [pc : Taken, attempt : 0..MaxRetries, wake : 0..MaxClock]
      /\ call' = [call EXCEPT ![k] = c]
  BY <1>1, Gone
<1>3. CallOK(c, request[k[1]].deadline)
  BY DEF CallOK, Moved
<1> HIDE DEF c
<1> QED BY <1>2, <1>3, CallMoves

(* It is over. *)
LEMMA FinishKeeps ==
  ASSUME IInv, UNCHANGED <<clock, request, queue>>, PauseBounded',
         NEW k \in Calls, call[k].pc \in Taken, Finish(k)
  PROVE  IInv'
<1> DEFINE c == [pc |-> "over", attempt |-> 0, wake |-> 0]
<1>1. 0 \in 0..MaxClock /\ 0 \in 0..MaxRetries
  BY Numbers
<1>2. /\ c \in [pc : Taken, attempt : 0..MaxRetries, wake : 0..MaxClock]
      /\ call' = [call EXCEPT ![k] = c]
  BY <1>1 DEF Finish, Taken
<1>3. CallOK(c, request[k[1]].deadline)
  BY DEF CallOK
<1> HIDE DEF c
<1> QED BY <1>2, <1>3, CallMoves

LEMMA CallTypes ==
  ASSUME IInv, NEW k \in Calls
  PROVE  /\ clock \in Nat /\ sleepUntil \in Nat
         /\ request[k[1]].deadline \in 0..MaxClock /\ MaxClock \in Nat
         /\ request[k[1]].until \in Nat
         /\ call[k].attempt \in 0..MaxRetries /\ call[k].wake \in Nat
         /\ MinAttempt \in Nat /\ MaxRetries \in Nat
<1>1. MaxClock \in Nat /\ MaxRetries \in Nat /\ MinAttempt \in Nat
  BY Numbers
<1>2. k[1] \in Requests
  BY DEF Calls
<1>3. clock \in 0..MaxClock /\ call[k].wake \in 0..MaxClock
  BY DEF IInv, Typed
<1> QED BY <1>1, <1>2, <1>3 DEF IInv, Typed, PauseBounded

LEMMA WorkerKeeps ==
  ASSUME IInv, NEW k \in Calls, Worker(k)
  PROVE  IInv'
<1>1. /\ clock \in Nat /\ sleepUntil \in Nat
      /\ request[k[1]].deadline \in 0..MaxClock /\ MaxClock \in Nat
      /\ call[k].attempt \in 0..MaxRetries /\ call[k].wake \in Nat
      /\ MinAttempt \in Nat /\ MaxRetries \in Nat
  BY CallTypes
<1>2. UNCHANGED <<clock, request, queue>>
  BY DEF Worker, GiveUp, ReadPause, Attempt, RefusePause, WakeUp
<1>3. PauseBounded'
  <2>1. sleepUntil' = sleepUntil \/ sleepUntil' = 0
    BY DEF Worker, GiveUp, ReadPause, Attempt, RefusePause, WakeUp
  <2>2. MaxWait \in Nat /\ JitterCap \in Nat
    BY Numbers
  <2> QED BY <1>1, <1>2, <2>1, <2>2 DEF PauseBounded, IInv
<1>4. CASE GiveUp(k) \/ RefusePause(k)
  <2>1. call[k].pc \in Taken /\ Finish(k)
    BY <1>4 DEF GiveUp, RefusePause, Taken
  <2> QED BY <1>2, <1>3, <2>1, FinishKeeps
<1>5. CASE Attempt(k)
  <2>1. call[k].pc \in Taken /\ Goto(k, "http") /\ "http" \in Taken
    BY <1>5 DEF Attempt, Taken
  <2> QED BY <1>2, <1>3, <2>1, GotoKeeps
<1>6. CASE ReadPause(k)
  <2>1. /\ call[k].pc \in Taken /\ "clear" \in Taken /\ "refuse" \in Taken /\ "pacing" \in Taken
    BY <1>6 DEF ReadPause, Taken
  <2>2. Left(k) = request[k[1]].deadline - clock /\ Left(k) > MinAttempt
    BY <1>1, <1>6 DEF ReadPause, TooLate, Left, Remaining
  <2>3. clock < request[k[1]].deadline
    BY <1>1, <2>2
  <2>4. CASE Goto(k, "clear")
    BY <1>2, <1>3, <2>1, <2>3, <2>4, GotoKeeps
  <2>5. CASE Goto(k, "refuse")
    BY <1>2, <1>3, <2>1, <2>5, GotoKeeps
  <2>6. CASE sleepUntil > clock /\ PauseFits(k) /\ GotoSleep(k, "pacing", sleepUntil)
    <3> DEFINE c == Moved(k, "pacing", sleepUntil)
    <3>1. clock <= sleepUntil /\ sleepUntil < request[k[1]].deadline
      BY <1>1, <2>2, <2>6 DEF PauseFits
    <3>2. sleepUntil \in 0..MaxClock
      BY <1>1, <3>1
    <3>3. /\ c \in [pc : Taken, attempt : 0..MaxRetries, wake : 0..MaxClock]
          /\ call' = [call EXCEPT ![k] = c]
      BY <2>1, <2>6, <3>2, Gone
    <3>4. CallOK(c, request[k[1]].deadline)
      BY <3>1 DEF CallOK, Moved
    <3> HIDE DEF c
    <3> QED BY <1>2, <1>3, <2>1, <3>3, <3>4, CallMoves
  <2> QED BY <1>6, <2>4, <2>5, <2>6 DEF ReadPause
<1>7. CASE WakeUp(k)
  <2> DEFINE c == [pc |-> "head", attempt |-> call[k].attempt + 1, wake |-> 0]
  <2>1. call[k].pc = "backoff" /\ call' = [call EXCEPT ![k] = c]
    BY <1>7 DEF WakeUp
  <2>2. call[k].attempt < MaxRetries
    BY <2>1 DEF IInv, CallsInTime, CallOK
  <2>3. call[k].attempt + 1 \in 0..MaxRetries /\ 0 \in 0..MaxClock
    BY <1>1, <2>2
  <2>4. c \in [pc : Taken, attempt : 0..MaxRetries, wake : 0..MaxClock]
    BY <2>3 DEF Taken
  <2>5. CallOK(c, request[k[1]].deadline)
    BY DEF CallOK
  <2>6. call[k].pc \in Taken
    BY <2>1 DEF Taken
  <2> HIDE DEF c
  <2> QED BY <1>2, <1>3, <2>1, <2>4, <2>5, <2>6, CallMoves
<1> QED BY <1>4, <1>5, <1>6, <1>7 DEF Worker

LEMMA ServiceKeeps ==
  ASSUME IInv, NEW k \in Calls, Service(k)
  PROVE  IInv'
<1>1. /\ clock \in Nat /\ sleepUntil \in Nat
      /\ request[k[1]].deadline \in 0..MaxClock /\ MaxClock \in Nat
      /\ call[k].attempt \in 0..MaxRetries /\ call[k].wake \in Nat
      /\ MinAttempt \in Nat /\ MaxRetries \in Nat
  BY CallTypes
<1>2. UNCHANGED <<clock, request, queue>>
  BY DEF Service, Succeed, Fail, Backoff
<1>3. PauseBounded'
  <2>1. MaxWait \in Nat /\ JitterCap \in Nat
    BY Numbers
  <2>2. CASE sleepUntil' = sleepUntil
    BY <1>2, <2>2 DEF PauseBounded, IInv
  <2>3. CASE \E hint \in Hints \cup {NoHint} : \E pause \in Pauses(hint) :
               sleepUntil' = clock + pause
    <3>1. PICK pause : pause \in 0..(MaxWait + JitterCap) /\ sleepUntil' = clock + pause
      BY <2>3, PauseBounds
    <3> QED BY <1>1, <1>2, <2>1, <3>1 DEF PauseBounded
  <2> QED BY <2>2, <2>3 DEF Service, Succeed, Fail, Backoff
<1>4. call[k].pc = "http" /\ call[k].pc \in Taken /\ "backoff" \in Taken
  BY DEF Service, Succeed, Fail, Backoff, Taken
<1>5. CASE Succeed(k) \/ Fail(k)
  <2>1. Finish(k)
    BY <1>5 DEF Succeed, Fail
  <2> QED BY <1>2, <1>3, <1>4, <2>1, FinishKeeps
<1>6. CASE Backoff(k)
  <2>1. PICK hint \in Hints \cup {NoHint} : \E wait \in RetryWaits(hint, call[k].attempt) :
          RetryFits(k, wait) /\ GotoSleep(k, "backoff", clock + wait)
    BY <1>6 DEF Backoff
  <2>2. PICK wait \in RetryWaits(hint, call[k].attempt) :
          RetryFits(k, wait) /\ GotoSleep(k, "backoff", clock + wait)
    BY <2>1
  <2>3. wait \in Nat
    BY <1>1, RetryBounds
  <2>4. wait + MinAttempt < request[k[1]].deadline - clock
    BY <2>2 DEF RetryFits, Left, Remaining
  <2>5. (clock + wait) + MinAttempt < request[k[1]].deadline /\ clock + wait \in 0..MaxClock
    BY <1>1, <2>3, <2>4
  <2>6. call[k].attempt < MaxRetries
    BY <1>6 DEF Backoff, RetriesLeft
  <2> DEFINE c == Moved(k, "backoff", clock + wait)
  <2>7. /\ c \in [pc : Taken, attempt : 0..MaxRetries, wake : 0..MaxClock]
        /\ call' = [call EXCEPT ![k] = c]
    BY <1>4, <2>2, <2>5, Gone
  <2>8. CallOK(c, request[k[1]].deadline)
    BY <2>5, <2>6 DEF CallOK, Moved
  <2> HIDE DEF c
  <2> QED BY <1>2, <1>3, <1>4, <2>7, <2>8, CallMoves
<1> QED BY <1>5, <1>6 DEF Service
-----------------------------------------------------------------------------
(***************************************************************************)
(* The request goes to its next stage.                                     *)
(***************************************************************************)
LEMMA RequestTypes ==
  ASSUME IInv, NEW r \in Requests
  PROVE  /\ request[r].stage \in 0..(Len(Caps) + 1) /\ Len(Caps) \in Nat
         /\ request[r].deadline \in 0..MaxClock /\ request[r].until \in 0..MaxClock
         /\ clock \in 0..MaxClock /\ MaxClock \in Nat
BY Numbers DEF IInv, Typed

LEMMA MoveOnFields ==
  ASSUME IInv, NEW r \in Requests, MoveOn(r)
  PROVE  /\ DOMAIN request' = Requests
         /\ request'[r] = [stage |-> request[r].stage + 1, deadline |-> request[r].deadline,
                           until |-> 0, embed |-> request[r].embed]
         /\ \A q \in Requests \ {r} : request'[q] = request[q]
<1> DEFINE x == request[r]
<1>1. DOMAIN request = Requests
      /\ x \in [stage : 0..(Len(Caps) + 1), deadline : 0..MaxClock, until : 0..MaxClock,
                embed : {"none", "sent", "over"}]
  BY DEF IInv, Typed
<1>2. x = [stage |-> x.stage, deadline |-> x.deadline, until |-> x.until, embed |-> x.embed]
  BY <1>1
<1>3. request' = [request EXCEPT ![r] = [[x EXCEPT !.stage = x.stage + 1] EXCEPT !.until = 0]]
  BY <1>1 DEF MoveOn
<1> HIDE DEF x
<1> DEFINE y == [x EXCEPT !.stage = x.stage + 1]
<1>4. y = [stage |-> x.stage + 1, deadline |-> x.deadline, until |-> x.until,
           embed |-> x.embed]
  BY <1>2
<1> HIDE DEF y
<1>5. [y EXCEPT !.until = 0]
        = [stage |-> x.stage + 1, deadline |-> x.deadline, until |-> 0, embed |-> x.embed]
  BY <1>4
<1>6. request' = [request EXCEPT ![r] = [y EXCEPT !.until = 0]]
  BY <1>3 DEF y
<1> QED BY <1>1, <1>5, <1>6 DEF x

LEMMA MoveOnKeeps ==
  ASSUME IInv, NEW r \in Requests, request[r].stage \in Stages, MoveOn(r),
         UNCHANGED <<clock, call, queue, sleepUntil>>
  PROVE  IInv'
<1> USE DEF IInv
<1>1. /\ DOMAIN request' = Requests
      /\ request'[r] = [stage |-> request[r].stage + 1, deadline |-> request[r].deadline,
                        until |-> 0, embed |-> request[r].embed]
      /\ \A q \in Requests \ {r} : request'[q] = request[q]
  BY MoveOnFields
<1>2. /\ request[r].stage \in 1..Len(Caps) /\ Len(Caps) \in Nat
      /\ request[r].deadline \in 0..MaxClock /\ MaxClock \in Nat
  BY RequestTypes, Numbers
<1>3. Typed'
  <2>1. \A q \in Requests :
          request'[q] \in [stage : 0..(Len(Caps) + 1), deadline : 0..MaxClock,
                           until : 0..MaxClock, embed : {"none", "sent", "over"}]
    <3>1. request[r].stage + 1 \in 0..(Len(Caps) + 1) /\ 0 \in 0..MaxClock
      BY <1>2
    <3>2. request[r].embed \in {"none", "sent", "over"}
      BY DEF Typed
    <3>3. request'[r] \in [stage : 0..(Len(Caps) + 1), deadline : 0..MaxClock,
                           until : 0..MaxClock, embed : {"none", "sent", "over"}]
      BY <1>1, <1>2, <3>1, <3>2
    <3> QED BY <1>1, <3>3 DEF Typed
  <2>2. request' = [request EXCEPT ![r] = request'[r]]
    BY DEF MoveOn, Typed
  <2>3. request' \in [Requests -> [stage : 0..(Len(Caps) + 1), deadline : 0..MaxClock,
                                   until : 0..MaxClock, embed : {"none", "sent", "over"}]]
    BY <2>1, <2>2 DEF Typed
  <2> QED BY <2>3 DEF Typed
<1>4. PauseBounded' /\ QueueOK'
  BY DEF PauseBounded, QueueOK
<1>5. \A q \in Requests : Waiting(q)' => Waiting(q) /\ q # r
  BY <1>1 DEF Waiting
<1>6. Unused'
  <2>1. \A q \in Requests : Waiting(q)' => request'[q].stage \in Stages
    BY <1>1, <1>5 DEF Unused
  <2>2. ASSUME NEW q \in Requests, NEW s \in Stages,
               s > request'[q].stage \/ (s = request'[q].stage /\ ~ Waiting(q)')
        PROVE  call[<<q, s>>].pc = "new"
    <3>1. CASE q = r
      <4>1. s \in Nat /\ s > request[r].stage
        BY <1>1, <1>2, <2>2, <3>1, Numbers
      <4> QED BY <3>1, <4>1 DEF Unused
    <3>2. CASE q # r
      BY <1>1, <2>2, <3>2 DEF Unused, Waiting
    <3> QED BY <3>1, <3>2
  <2> QED BY <2>1, <2>2 DEF Unused
<1>7. CallsInTime'
  <2>1. \A k \in Calls : request'[k[1]].deadline = request[k[1]].deadline
    BY <1>1 DEF Calls
  <2> QED BY <2>1 DEF CallsInTime, CallOK
<1>8. WaitsInBudget'
  BY <1>1, <1>5 DEF WaitsInBudget
<1> QED BY <1>3, <1>4, <1>6, <1>7, <1>8

(* An embedding starts or ends: nothing else of the request changes. *)
LEMMA EmbeddingKeeps ==
  ASSUME IInv, NEW r \in Requests, StartEmbedding(r) \/ EndEmbedding(r)
  PROVE  IInv'
<1> USE DEF IInv
<1>1. PICK e \in {"sent", "over"} : request' = [request EXCEPT ![r].embed = e]
  BY DEF StartEmbedding, EndEmbedding
<1>2. UNCHANGED <<clock, call, queue, sleepUntil>>
  BY DEF StartEmbedding, EndEmbedding
<1>3. /\ DOMAIN request' = Requests
      /\ \A q \in Requests : /\ request'[q].stage = request[q].stage
                            /\ request'[q].deadline = request[q].deadline
                            /\ request'[q].until = request[q].until
  BY <1>1 DEF Typed
<1>4. Typed'
  <2>1. request' \in [Requests -> [stage : 0..(Len(Caps) + 1), deadline : 0..MaxClock,
                                   until : 0..MaxClock, embed : {"none", "sent", "over"}]]
    BY <1>1 DEF Typed
  <2> QED BY <1>2, <2>1 DEF Typed
<1>5. PauseBounded' /\ QueueOK'
  BY <1>2 DEF PauseBounded, QueueOK
<1>6. \A q \in Requests : Waiting(q)' = Waiting(q)
  BY <1>3 DEF Waiting
<1>7. Unused'
  BY <1>2, <1>3, <1>6 DEF Unused
<1>8. CallsInTime'
  <2>1. \A k \in Calls : request'[k[1]].deadline = request[k[1]].deadline
    BY <1>3 DEF Calls
  <2> QED BY <1>2, <2>1 DEF CallsInTime, CallOK
<1>9. WaitsInBudget'
  BY <1>2, <1>3, <1>6 DEF WaitsInBudget
<1> QED BY <1>4, <1>5, <1>7, <1>8, <1>9

LEMMA ArriveKeeps ==
  ASSUME IInv, NEW r \in Requests, Arrive(r)
  PROVE  IInv'
<1> USE DEF IInv
<1>1. /\ request[r].stage = 0 /\ clock + Budget <= MaxClock
      /\ UNCHANGED <<clock, call, queue, sleepUntil>>
      /\ request' = [request EXCEPT ![r].stage = 1, ![r].deadline = clock + Budget]
  BY DEF Arrive
<1>2. /\ Len(Caps) \in Nat /\ clock \in 0..MaxClock /\ MaxClock \in Nat /\ Budget \in Nat
      /\ request[r].until \in 0..MaxClock
  BY RequestTypes, Numbers
<1>3. request[r].until = 0
  <2>1. 0 \notin Stages
    BY Numbers
  <2> QED BY <1>1, <2>1 DEF Unused, Waiting
<1>4. /\ DOMAIN request' = Requests
      /\ request'[r].stage = 1 /\ request'[r].deadline = clock + Budget /\ request'[r].until = 0
      /\ \A q \in Requests \ {r} : request'[q] = request[q]
  BY <1>1, <1>3 DEF Typed
<1>5. Typed'
  <2>1. 1 \in 0..(Len(Caps) + 1) /\ clock + Budget \in 0..MaxClock
    BY <1>1, <1>2
  <2> DEFINE y == [request[r] EXCEPT !.stage = 1]
  <2>2. y = [stage |-> 1, deadline |-> request[r].deadline, until |-> request[r].until,
            embed |-> request[r].embed]
    BY DEF Typed
  <2> HIDE DEF y
  <2>3. [y EXCEPT !.deadline = clock + Budget]
          \in [stage : 0..(Len(Caps) + 1), deadline : 0..MaxClock, until : 0..MaxClock,
               embed : {"none", "sent", "over"}]
    BY <1>2, <2>1, <2>2 DEF Typed
  <2>4. request' = [request EXCEPT ![r] = [y EXCEPT !.deadline = clock + Budget]]
    BY <1>1 DEF Typed, y
  <2>5. request' \in [Requests -> [stage : 0..(Len(Caps) + 1), deadline : 0..MaxClock,
                                   until : 0..MaxClock, embed : {"none", "sent", "over"}]]
    BY <2>3, <2>4 DEF Typed
  <2> QED BY <1>1, <2>5 DEF Typed
<1>6. PauseBounded' /\ QueueOK'
  BY <1>1 DEF PauseBounded, QueueOK
<1>7. \A q \in Requests : Waiting(q)' => Waiting(q) /\ q # r
  BY <1>4 DEF Waiting
<1>8. \A s \in Stages : call[<<r, s>>].pc = "new"
  <2>1. \A s \in Stages : s > request[r].stage
    BY <1>1, Numbers
  <2> QED BY <2>1 DEF Unused
<1>9. Unused'
  <2>1. \A q \in Requests : Waiting(q)' => request'[q].stage \in Stages
    BY <1>4, <1>7 DEF Unused
  <2>2. ASSUME NEW q \in Requests, NEW s \in Stages,
               s > request'[q].stage \/ (s = request'[q].stage /\ ~ Waiting(q)')
        PROVE  call[<<q, s>>].pc = "new"
    BY <1>4, <1>8, <2>2 DEF Unused, Waiting
  <2> QED BY <1>1, <2>1, <2>2 DEF Unused
<1>10. CallsInTime'
  <2>1. ASSUME NEW k \in Calls
        PROVE  CallOK(call[k], request'[k[1]].deadline)
    <3>1. CASE k[1] = r
      <4>1. k[2] \in Stages /\ k = <<r, k[2]>>
        BY <3>1 DEF Calls
      <4> QED BY <1>8, <4>1 DEF CallOK
    <3>2. CASE k[1] # r
      <4>1. k[1] \in Requests
        BY DEF Calls
      <4> QED BY <1>4, <3>2, <4>1 DEF CallsInTime
    <3> QED BY <3>1, <3>2
  <2> QED BY <1>1, <2>1 DEF CallsInTime, CallOK
<1>11. WaitsInBudget'
  BY <1>1, <1>4, <1>7 DEF WaitsInBudget
<1> QED BY <1>5, <1>6, <1>9, <1>10, <1>11

(***************************************************************************)
(* The call is queued, and the request waits for it within its budget.     *)
(***************************************************************************)
LEMMA SubmitKeeps ==
  ASSUME IInv, NEW r \in Requests, Submit(r)
  PROVE  IInv'
<1> USE DEF IInv
<1> DEFINE k == <<r, request[r].stage>>
           t == Timeout(r)
<1>1. /\ request[r].stage \in Stages /\ ~ Waiting(r) /\ t > 0
      /\ request' = [request EXCEPT ![r].until = clock + t]
      /\ call' = [call EXCEPT ![k].pc = "queued", ![k].wake = 0]
      /\ queue' = Append(queue, k)
      /\ UNCHANGED <<clock, sleepUntil>>
  BY DEF Submit, Working, Goto
<1>2. /\ clock \in 0..MaxClock /\ MaxClock \in Nat
      /\ request[r].deadline \in 0..MaxClock /\ Caps[request[r].stage] \in Nat
  BY <1>1, RequestTypes, Numbers
<1>3. /\ clock + t \in 0..MaxClock /\ clock <= clock + t /\ clock + t # 0
      /\ clock + t <= request[r].deadline /\ clock + t <= clock + Caps[request[r].stage]
  <2>1. t = MinOf(request[r].deadline - clock, Caps[request[r].stage])
    BY DEF Timeout, Remaining
  <2> HIDE DEF t
  <2>2. /\ t \in Int /\ t <= request[r].deadline - clock /\ t <= Caps[request[r].stage]
    BY <1>2, <2>1 DEF MinOf
  <2> QED BY <1>1, <1>2, <2>2
<1>4. k \in Calls /\ call[k].pc = "new"
  BY <1>1 DEF Calls, Unused
<1> HIDE DEF k, t
<1>5. /\ DOMAIN request' = Requests
      /\ request'[r].stage = request[r].stage /\ request'[r].deadline = request[r].deadline
      /\ request'[r].until = clock + t
      /\ \A q \in Requests \ {r} : request'[q] = request[q]
  BY <1>1 DEF Typed
<1>6. call'[k].pc = "queued" /\ \A j \in Calls \ {k} : call'[j] = call[j]
  BY <1>1, <1>4 DEF Typed
<1>7. Typed'
  <2>1. 0 \in 0..MaxClock
    BY <1>2
  <2>2. request' \in [Requests -> [stage : 0..(Len(Caps) + 1), deadline : 0..MaxClock,
                                   until : 0..MaxClock, embed : {"none", "sent", "over"}]]
    BY <1>1, <1>3 DEF Typed
  <2>3. call' \in [Calls -> [pc : Taken \cup {"new", "queued"}, attempt : 0..MaxRetries,
                             wake : 0..MaxClock]]
    BY <1>1, <1>4, <2>1 DEF Typed
  <2> QED BY <1>1, <2>2, <2>3 DEF Typed
<1>8. PauseBounded'
  BY <1>1 DEF PauseBounded
<1>9. QueueOK'
  <2>1. queue \in Seq(Calls) /\ Len(queue) \in Nat
    BY DEF QueueOK
  <2>2. /\ queue' \in Seq(Calls) /\ Len(queue') = Len(queue) + 1
        /\ queue'[Len(queue) + 1] = k
        /\ \A i \in 1..Len(queue) : queue'[i] = queue[i]
    BY <1>1, <1>4, <2>1
  <2>3. \A i \in 1..Len(queue) : queue[i] # k
    BY <1>4 DEF QueueOK
  <2>4. \A i, j \in 1..Len(queue') : queue'[i] = queue'[j] => i = j
    BY <2>1, <2>2, <2>3 DEF QueueOK
  <2>5. ASSUME NEW j \in Calls
        PROVE  call'[j].pc = "queued" <=> \E i \in 1..Len(queue') : queue'[i] = j
    <3>1. CASE j = k
      <4>1. Len(queue) + 1 \in 1..Len(queue')
        BY <2>1, <2>2
      <4> QED BY <1>6, <2>2, <3>1, <4>1
    <3>2. CASE j # k
      <4>1. (\E i \in 1..Len(queue') : queue'[i] = j) <=> \E i \in 1..Len(queue) : queue[i] = j
        BY <2>1, <2>2, <3>2
      <4> QED BY <1>6, <3>2, <4>1 DEF QueueOK
    <3> QED BY <3>1, <3>2
  <2> QED BY <2>2, <2>4, <2>5 DEF QueueOK
<1>10. Unused'
  <2>1. Waiting(r)' /\ \A q \in Requests \ {r} : Waiting(q)' = Waiting(q)
    BY <1>3, <1>5 DEF Waiting
  <2>2. \A q \in Requests : Waiting(q)' => request'[q].stage \in Stages
    BY <1>1, <1>5, <2>1 DEF Unused
  <2>3. ASSUME NEW q \in Requests, NEW s \in Stages,
               s > request'[q].stage \/ (s = request'[q].stage /\ ~ Waiting(q)')
        PROVE  call'[<<q, s>>].pc = "new"
    <3>1. call[<<q, s>>].pc = "new"
      BY <1>5, <2>1, <2>3 DEF Unused
    <3>2. <<q, s>> # k
      <4>1. CASE q = r
        <5>1. s > request[r].stage /\ s \in Nat /\ request[r].stage \in Nat
          BY <1>1, <1>5, <2>1, <2>3, <4>1, Numbers
        <5> QED BY <5>1 DEF k
      <4>2. CASE q # r
        BY <4>2 DEF k
      <4> QED BY <4>1, <4>2
    <3>3. <<q, s>> \in Calls
      BY DEF Calls
    <3> QED BY <1>6, <3>1, <3>2, <3>3
  <2> QED BY <2>2, <2>3 DEF Unused
<1>11. CallsInTime'
  <2>1. \A j \in Calls : request'[j[1]].deadline = request[j[1]].deadline
    BY <1>5 DEF Calls
  <2>2. \A j \in Calls : CallOK(call'[j], request[j[1]].deadline)
    BY <1>6 DEF CallsInTime, CallOK
  <2> QED BY <1>1, <2>1, <2>2 DEF CallsInTime, CallOK
<1>12. WaitsInBudget'
  <2>1. ASSUME NEW q \in Requests, Waiting(q)'
        PROVE  /\ clock <= request'[q].until
               /\ request'[q].until <= request'[q].deadline
               /\ request'[q].until <= clock + Caps[request'[q].stage]
    <3>1. CASE q = r
      BY <1>3, <1>5, <3>1
    <3>2. CASE q # r
      BY <1>5, <2>1, <3>2 DEF WaitsInBudget, Waiting
    <3> QED BY <3>1, <3>2
  <2> QED BY <1>1, <2>1 DEF WaitsInBudget
<1> QED BY <1>7, <1>8, <1>9, <1>10, <1>11, <1>12

(***************************************************************************)
(* A worker takes the oldest call.                                         *)
(***************************************************************************)
LEMMA TakeKeeps ==
  ASSUME IInv, Take
  PROVE  IInv'
<1> USE DEF IInv
<1> DEFINE k == Head(queue)
<1>1. /\ queue # <<>> /\ queue' = Tail(queue) /\ UNCHANGED <<clock, request, sleepUntil>>
      /\ call' = [call EXCEPT ![k].pc = "head", ![k].wake = 0]
  BY DEF Take, Goto
<1>2. queue \in Seq(Calls) /\ Len(queue) \in Nat \ {0}
  BY <1>1, EmptySeq DEF QueueOK
<1>3. /\ k = queue[1] /\ k \in Calls /\ 1 \in 1..Len(queue)
      /\ queue' \in Seq(Calls) /\ Len(queue') = Len(queue) - 1
      /\ \A i \in 1..Len(queue') : queue'[i] = queue[i + 1]
  BY <1>1, <1>2, HeadTailProperties
<1>4. call[k].pc = "queued"
  BY <1>3 DEF QueueOK
<1> HIDE DEF k
<1>5. call'[k].pc = "head" /\ \A j \in Calls \ {k} : call'[j] = call[j]
  BY <1>1, <1>3 DEF Typed
<1>6. Typed'
  <2>1. 0 \in 0..MaxClock
    BY Numbers
  <2>2. call' \in [Calls -> [pc : Taken \cup {"new", "queued"}, attempt : 0..MaxRetries,
                             wake : 0..MaxClock]]
    BY <1>1, <1>3, <2>1 DEF Typed, Taken
  <2> QED BY <1>1, <2>2 DEF Typed
<1>7. PauseBounded' /\ WaitsInBudget'
  BY <1>1 DEF PauseBounded, WaitsInBudget, Waiting
<1>8. QueueOK'
  <2>1. \A i \in 1..Len(queue') : i + 1 \in 1..Len(queue) /\ i + 1 # 1
    BY <1>2, <1>3
  <2>2. \A i \in 1..Len(queue') : queue'[i] # k
    BY <1>3, <2>1 DEF QueueOK
  <2>3. \A i, j \in 1..Len(queue') : queue'[i] = queue'[j] => i = j
    <3> SUFFICES ASSUME NEW i \in 1..Len(queue'), NEW j \in 1..Len(queue'),
                        queue'[i] = queue'[j]
                 PROVE  i = j
      OBVIOUS
    <3>1. queue[i + 1] = queue[j + 1]
      BY <1>3
    <3>2. i + 1 = j + 1
      BY <2>1, <3>1 DEF QueueOK
    <3> QED BY <3>2
  <2>4. ASSUME NEW j \in Calls
        PROVE  call'[j].pc = "queued" <=> \E i \in 1..Len(queue') : queue'[i] = j
    <3>1. CASE j = k
      BY <1>5, <2>2, <3>1
    <3>2. CASE j # k
      <4>1. ASSUME NEW i \in 1..Len(queue), queue[i] = j
            PROVE  \E h \in 1..Len(queue') : queue'[h] = j
        <5>1. i # 1
          BY <1>3, <3>2, <4>1
        <5>2. i - 1 \in 1..Len(queue') /\ (i - 1) + 1 = i
          BY <1>2, <1>3, <5>1
        <5>3. queue'[i - 1] = queue[(i - 1) + 1]
          BY <1>3, <5>2
        <5> QED BY <4>1, <5>2, <5>3
      <4>2. (\E i \in 1..Len(queue') : queue'[i] = j) <=> \E i \in 1..Len(queue) : queue[i] = j
        BY <1>3, <2>1, <4>1
      <4> QED BY <1>5, <3>2, <4>2 DEF QueueOK
    <3> QED BY <3>1, <3>2
  <2> QED BY <1>3, <2>3, <2>4 DEF QueueOK
<1>9. Unused'
  <2>1. ASSUME NEW r \in Requests, NEW s \in Stages, call[<<r, s>>].pc = "new"
        PROVE  call'[<<r, s>>].pc = "new"
    BY <1>4, <1>5, <2>1 DEF Calls
  <2> QED BY <1>1, <2>1 DEF Unused, Waiting
<1>10. CallsInTime'
  BY <1>1, <1>5 DEF CallsInTime, CallOK
<1> QED BY <1>6, <1>7, <1>8, <1>9, <1>10

(***************************************************************************)
(* Time passes only while no sleep, wait or look at the clock is over.     *)
(***************************************************************************)
LEMMA TickKeeps ==
  ASSUME IInv, Tick
  PROVE  IInv'
<1> USE DEF IInv
<1>1. /\ clock < MaxClock /\ ~ Ready /\ clock' = clock + 1
      /\ UNCHANGED <<request, call, queue, sleepUntil>>
  BY DEF Tick
<1>2. /\ clock \in 0..MaxClock /\ MaxClock \in Nat /\ MaxWait \in Nat /\ JitterCap \in Nat
  BY Numbers DEF Typed
<1>3. Typed'
  <2>1. clock' \in 0..MaxClock
    BY <1>1, <1>2
  <2> QED BY <1>1, <2>1 DEF Typed
<1>4. PauseBounded'
  BY <1>1, <1>2 DEF PauseBounded
<1>5. QueueOK' /\ Unused'
  BY <1>1 DEF QueueOK, Unused, Waiting
<1>6. CallsInTime'
  <2>1. ASSUME NEW k \in Calls
        PROVE  CallOK(call[k], request[k[1]].deadline)'
    <3>1. k \in DOMAIN call
      BY DEF Typed
    <3>2. /\ call[k].pc # "clear"
          /\ call[k].pc = "pacing" => ~ (clock >= call[k].wake)
      BY <1>1, <3>1 DEF Ready
    <3>3. call[k].wake \in Nat
      BY CallTypes
    <3>4. CallOK(call[k], request[k[1]].deadline)
      BY DEF CallsInTime
    <3> QED BY <1>1, <1>2, <3>2, <3>3, <3>4 DEF CallOK
  <2> QED BY <2>1 DEF CallsInTime
<1>7. WaitsInBudget'
  <2>1. ASSUME NEW r \in Requests, Waiting(r)
        PROVE  clock + 1 <= request[r].until /\ request[r].until <= clock + 1 + Caps[request[r].stage]
    <3>1. ~ TimedOut(r)
      BY <1>1, <2>1 DEF Ready
    <3>2. request[r].until \in Nat /\ request[r].until <= clock + Caps[request[r].stage]
      BY <2>1, RequestTypes DEF WaitsInBudget
    <3>3. Caps[request[r].stage] \in Nat
      BY <2>1, Numbers DEF Unused
    <3> QED BY <1>2, <3>1, <3>2, <3>3 DEF TimedOut
  <2> QED BY <1>1, <2>1 DEF WaitsInBudget, Waiting
<1> QED BY <1>3, <1>4, <1>5, <1>6, <1>7
-----------------------------------------------------------------------------
LEMMA InitInv ==
  ASSUME Init
  PROVE  IInv
<1> USE DEF Init
<1>1. /\ Len(Caps) \in Nat /\ MaxClock \in Nat /\ MaxWait \in Nat /\ JitterCap \in Nat
      /\ MaxRetries \in Nat
  BY Numbers
<1>2. 0 \in 0..(Len(Caps) + 1) /\ 0 \in 0..MaxClock /\ 0 \in 0..MaxRetries
  BY <1>1
<1>3. Typed
  BY <1>2 DEF Typed, Calls
<1>4. PauseBounded
  BY <1>1 DEF PauseBounded
<1>5. QueueOK
  <2>1. queue \in Seq(Calls) /\ Len(queue) = 0
    BY EmptySeq
  <2> QED BY <2>1 DEF QueueOK, Calls
<1>6. Unused
  BY DEF Unused, Waiting
<1>7. CallsInTime /\ WaitsInBudget
  BY DEF CallsInTime, CallOK, Calls, WaitsInBudget, Waiting
<1> QED BY <1>3, <1>4, <1>5, <1>6, <1>7 DEF IInv

LEMMA NextInv ==
  ASSUME IInv, [Next]_vars
  PROVE  IInv'
<1>1. CASE Tick
  BY <1>1, TickKeeps
<1>2. CASE Take
  BY <1>2, TakeKeeps
<1>3. ASSUME NEW r \in Requests, Arrive(r)
      PROVE  IInv'
  BY <1>3, ArriveKeeps
<1>4. ASSUME NEW r \in Requests, ServerThread(r) \/ EndEmbedding(r)
      PROVE  IInv'
  <2>1. CASE Submit(r)
    BY <2>1, SubmitKeeps
  <2>2. CASE Skip(r) \/ Result(r) \/ Abandon(r)
    <3>1. request[r].stage \in Stages
      BY <2>2 DEF Skip, Result, Abandon, Working, IInv, Unused
    <3>2. MoveOn(r) /\ UNCHANGED <<clock, call, queue, sleepUntil>>
      BY <2>2 DEF Skip, Result, Abandon
    <3> QED BY <3>1, <3>2, MoveOnKeeps
  <2>3. CASE StartEmbedding(r) \/ EndEmbedding(r)
    BY <2>3, EmbeddingKeeps
  <2> QED BY <1>4, <2>1, <2>2, <2>3 DEF ServerThread
<1>5. ASSUME NEW k \in DOMAIN call, Worker(k) \/ Service(k)
      PROVE  IInv'
  <2>1. k \in Calls
    BY DEF IInv, Typed
  <2> QED BY <1>5, <2>1, WorkerKeeps, ServiceKeeps
<1>6. CASE UNCHANGED vars
  BY <1>6 DEF vars, IInv, Typed, PauseBounded, QueueOK, Unused, Waiting, CallsInTime, CallOK,
              WaitsInBudget
<1> QED BY <1>1, <1>2, <1>3, <1>4, <1>5, <1>6 DEF Next

(***************************************************************************)
(* IInv is inductive.                                                      *)
(***************************************************************************)
THEOREM InvariantHolds == Spec => []IInv
<1>1. Init => IInv
  BY InitInv
<1>2. IInv /\ [Next]_vars => IInv'
  BY NextInv
<1> QED BY <1>1, <1>2, PTL DEF Spec

(***************************************************************************)
(* The queue has each waiting call once, and the Pacer's pause its cap.    *)
(***************************************************************************)
THEOREM TypeCorrect == Spec => []TypeOK
<1>1. IInv => TypeOK
  <2> SUFFICES ASSUME IInv
               PROVE  TypeOK
    OBVIOUS
  <2>1. DOMAIN call = Calls
    BY DEF IInv, Typed
  <2>2. {"new", "queued", "head", "clear", "refuse", "pacing", "http", "backoff", "over"}
          = Taken \cup {"new", "queued"}
    BY DEF Taken
  <2> QED BY <2>1, <2>2 DEF TypeOK, IInv, Typed, PauseBounded, QueueOK, Calls
<1> QED BY <1>1, InvariantHolds, PTL

(***************************************************************************)
(* No thread sleeps beyond the deadline of its request.                    *)
(***************************************************************************)
THEOREM NobodySleepsInVain == Spec => []NoSleepInVain
<1>1. IInv => NoSleepInVain
  BY DEF IInv, NoSleepInVain, CallsInTime, CallOK, Typed
<1> QED BY <1>1, InvariantHolds, PTL

(***************************************************************************)
(* No caller waits beyond the deadline, or the cap of the stage.           *)
(***************************************************************************)
THEOREM WaitsStayInBudget == Spec => []WaitsInBudget
<1>1. IInv => WaitsInBudget
  BY DEF IInv
<1> QED BY <1>1, InvariantHolds, PTL

(***************************************************************************)
(* No attempt starts after the deadline of its request.                    *)
(***************************************************************************)
THEOREM AttemptsStartInBudget == Spec => AttemptInBudget
<1> DEFINE InBudget == \A k \in DOMAIN call : Starts(k) => Left(k) > 0
<1>1. IInv /\ [Next]_vars => [InBudget]_vars
  <2> SUFFICES ASSUME IInv, [Next]_vars, NEW k \in DOMAIN call, Starts(k)
               PROVE  Left(k) > 0
    OBVIOUS
  <2>1. k \in Calls /\ call[k].pc # "http" /\ call'[k].pc = "http"
    BY DEF IInv, Typed, Starts
  <2>2. /\ clock \in Nat /\ request[k[1]].deadline \in Nat /\ call[k].wake \in Nat
        /\ CallOK(call[k], request[k[1]].deadline)
    BY <2>1, CallTypes DEF IInv, CallsInTime
  <2>3. Attempt(k)
    <3>1. \A j \in Calls : \A pc : Goto(j, pc) =>
            call'[j].pc = pc /\ \A h \in Calls \ {j} : call'[h] = call[h]
      BY DEF Goto, IInv, Typed
    <3>2. \A j \in Calls : \A pc, t : GotoSleep(j, pc, t) =>
            call'[j].pc = pc /\ \A h \in Calls \ {j} : call'[h] = call[h]
      BY DEF GotoSleep, IInv, Typed
    <3>3. call' # call
      BY <2>1
    <3>4. CASE Take
      <4>1. Head(queue) \in Calls
        <5>1. queue \in Seq(Calls) /\ queue # <<>>
          BY <3>4 DEF Take, IInv, QueueOK
        <5> QED BY <5>1, HeadTailProperties
      <4> QED BY <2>1, <3>1, <3>4, <4>1 DEF Take
    <3>5. ASSUME NEW r \in Requests, Submit(r)
          PROVE  FALSE
      <4>1. <<r, request[r].stage>> \in Calls
        BY <3>5 DEF Submit, Working, Calls
      <4> QED BY <2>1, <3>1, <3>5, <4>1 DEF Submit
    <3>6. ASSUME NEW j \in DOMAIN call, Worker(j) \/ Service(j)
          PROVE  Attempt(k)
      <4>1. j \in Calls
        BY DEF IInv, Typed
      <4>2. CASE Attempt(j)
        BY <2>1, <3>1, <4>1, <4>2 DEF Attempt
      <4>3. CASE WakeUp(j)
        <5>1. call'[j].pc = "head" /\ \A h \in Calls \ {j} : call'[h] = call[h]
          BY <4>1, <4>3 DEF WakeUp, IInv, Typed
        <5> QED BY <2>1, <5>1
      <4>4. CASE GiveUp(j) \/ ReadPause(j) \/ RefusePause(j) \/ Service(j)
        <5>1. CASE Finish(j)
          BY <2>1, <4>1, <5>1 DEF Finish, IInv, Typed
        <5>2. CASE ~ Finish(j)
          <6>1. PICK pc \in {"clear", "refuse", "pacing", "backoff"} :
                  Goto(j, pc) \/ \E t : GotoSleep(j, pc, t)
            BY <4>4, <5>2 DEF GiveUp, ReadPause, RefusePause, Service, Succeed, Fail, Backoff
          <6> QED BY <2>1, <3>1, <3>2, <4>1, <6>1
        <5> QED BY <5>1, <5>2
      <4> QED BY <3>6, <4>2, <4>3, <4>4 DEF Worker
    <3> QED BY <3>3, <3>4, <3>5, <3>6 DEF Next, Tick, Arrive, ServerThread, StartEmbedding,
                                          EndEmbedding, Skip, Result, Abandon, vars
  <2>4. clock < request[k[1]].deadline
    <3>1. CASE call[k].pc = "clear"
      BY <2>2, <3>1 DEF CallOK
    <3>2. CASE call[k].pc = "pacing" /\ clock >= call[k].wake
      BY <2>2, <3>2 DEF CallOK
    <3> QED BY <2>3, <3>1, <3>2 DEF Attempt
  <2> QED BY <2>2, <2>4 DEF Left, Remaining
<1> QED BY <1>1, InvariantHolds, PTL DEF Spec, AttemptInBudget
=============================================================================
