--------------------------- MODULE WindowLimiter ---------------------------
(***************************************************************************)
(* What the inbound limiter of api/ratelimit_mw.py promises, without its   *)
(* data structure: a request of a client is admitted exactly when fewer    *)
(* than Limit requests of that client were admitted in the last Window.    *)
(* The whole history of admissions is kept.  A client is forgotten only    *)
(* when MaxClients others are known and a new one arrives.                 *)
(***************************************************************************)
EXTENDS Integers, Sequences, FiniteSets

CONSTANTS
  Clients,     \* client addresses
  Limit,       \* admissions allowed per window
  Window,      \* length of the window
  MaxClients   \* clients remembered at once

VARIABLES
  clock,
  log,         \* log[c]: the times of c's admissions since c was last forgotten
  verdict      \* the last decision: who asked, when, and the answer

vars == <<clock, log, verdict>>

Known == {c \in Clients : log[c] # <<>>}

\* c's admissions that are still in the window at the current time.
Recent(c) == {i \in DOMAIN log[c] : clock - log[c][i] <= Window}

Decide(c, ok) == verdict' = [client |-> c, at |-> clock, admitted |-> ok]

Init ==
  /\ clock = 0
  /\ log = [c \in Clients |-> <<>>]
  /\ verdict = [client |-> {}, at |-> 0, admitted |-> TRUE]

Tick ==
  /\ clock' > clock
  /\ UNCHANGED <<log, verdict>>

\* The histories after c is admitted and the clients in gone are forgotten.
Admitted(c, gone) ==
  [d \in Clients |-> CASE d = c                -> Append(log[d], clock)
                       [] d # c /\ d \in gone  -> <<>>
                       [] OTHER                -> log[d]]

AdmitKnown(c) ==
  /\ c \in Known \/ Cardinality(Known) < MaxClients
  /\ Cardinality(Recent(c)) < Limit
  /\ log' = Admitted(c, {})
  /\ Decide(c, TRUE)
  /\ UNCHANGED clock

AdmitForgetting(c) ==
  /\ c \notin Known
  /\ Cardinality(Known) >= MaxClients
  /\ \E d \in Known : log' = Admitted(c, {d})
  /\ Decide(c, TRUE)
  /\ UNCHANGED clock

Reject(c) ==
  /\ Cardinality(Recent(c)) >= Limit
  /\ Decide(c, FALSE)
  /\ UNCHANGED <<clock, log>>

Next ==
  \/ Tick
  \/ \E c \in Clients : AdmitKnown(c) \/ AdmitForgetting(c) \/ Reject(c)

Spec == Init /\ [][Next]_vars
=============================================================================
