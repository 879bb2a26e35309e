----------------------------- MODULE Idempotency -----------------------------
(***************************************************************************)
(* The idempotent execution wrapper of the API                             *)
(* (apps/api/src/lib/idempotency.service.ts), seen from one Redis key.     *)
(*                                                                         *)
(* Every caller that sends the key goes through runOnce: SET NX EX claims  *)
(* the key, the claimer runs fn and then stores its result (or deletes the *)
(* key when fn throws), everybody else polls the key.  Neither the SET nor *)
(* the DEL after fn checks that the claim still belongs to the caller, so  *)
(* everything hangs on how long fn runs compared with the claim's TTL.     *)
(*                                                                         *)
(* Time is counted in poll intervals (POLL_INTERVAL_MS): TTLs and running  *)
(* times are countdowns, so the model has no unbounded clock.              *)
(*                                                                         *)
(* The names of the specification carry the prefix Key, because its        *)
(* theorems are stated in one module with those of WarrantyClaims, whose   *)
(* public claims the wrapper guards.                                       *)
(***************************************************************************)
EXTENDS Naturals, FiniteSets

CONSTANTS
    Callers,            \* the requests in flight that carry the key
    LOCK_TTL,           \* life of the in-flight marker, in poll intervals
    RESULT_TTL,         \* life of a stored result, in poll intervals
    POLL_MAX_ATTEMPTS,  \* polls before a waiter gives up
    MaxRun,             \* bound: fn settles within this many intervals
    RedisMayFail,       \* TRUE: the SET or DEL after fn may be lost
    NoResult            \* what a caller without an answer holds

ASSUME TimesAssumption ==
    /\ LOCK_TTL \in Nat \ {0}
    /\ RESULT_TTL \in Nat \ {0}
    /\ POLL_MAX_ATTEMPTS \in Nat \ {0}
    /\ MaxRun \in Nat
    /\ RedisMayFail \in BOOLEAN

ASSUME NoResultAssumption == NoResult \notin Callers

VARIABLES
    pc,       \* per caller: "idle", "waiting", "running", "done", "failed"
    cell,     \* the Redis key: kind of value, the run it is the result of, TTL
    elapsed,  \* per caller: intervals fn has been running
    polls,    \* per caller: polls made so far
    due,      \* per caller: the timer of its next poll has fired
    answer,   \* per caller: the run whose result it returned, or NoResult
    fresh     \* history: intervals left of the last stored result's promise

keyVars == <<pc, cell, elapsed, polls, due, answer, fresh>>

Absent  == [kind |-> "absent", by |-> NoResult, ttl |-> 0]
Pending == [kind |-> "pending", by |-> NoResult, ttl |-> LOCK_TTL]
ResultOf(c) == [kind |-> "result", by |-> c, ttl |-> RESULT_TTL]

KeyInit ==
    /\ pc = [c \in Callers |-> "idle"]
    /\ cell = Absent
    /\ elapsed = [c \in Callers |-> 0]
    /\ polls = [c \in Callers |-> 0]
    /\ due = [c \in Callers |-> FALSE]
    /\ answer = [c \in Callers |-> NoResult]
    /\ fresh = 0

-----------------------------------------------------------------------------
\* Mutant of Acquire: GET and then SET, without NX.
AcquireWithoutNX(c) ==
    /\ pc[c] = "idle"
    /\ cell.kind # "result"
    /\ cell' = Pending
    /\ pc' = [pc EXCEPT ![c] = "running"]
    /\ elapsed' = [elapsed EXCEPT ![c] = 0]
    /\ UNCHANGED <<polls, due, answer, fresh>>

\* SET key __pending__ EX 30 NX answers OK: the caller runs fn.
Acquire(c) ==
    /\ pc[c] = "idle"
    /\ cell.kind = "absent"
    /\ cell' = Pending
    /\ pc' = [pc EXCEPT ![c] = "running"]
    /\ elapsed' = [elapsed EXCEPT ![c] = 0]
    /\ UNCHANGED <<polls, due, answer, fresh>>

\* The key exists, pending or with a result: the caller starts polling.
Join(c) ==
    /\ pc[c] = "idle"
    /\ cell.kind # "absent"
    /\ pc' = [pc EXCEPT ![c] = "waiting"]
    /\ polls' = [polls EXCEPT ![c] = 0]
    /\ due' = [due EXCEPT ![c] = FALSE]
    /\ UNCHANGED <<cell, elapsed, answer, fresh>>

\* Mutant of Poll: the polling loop has no last attempt.
PollForever(c) ==
    /\ pc[c] = "waiting"
    /\ due[c]
    /\ due' = [due EXCEPT ![c] = FALSE]
    /\ IF cell.kind = "result"
         THEN /\ pc' = [pc EXCEPT ![c] = "done"]
              /\ answer' = [answer EXCEPT ![c] = cell.by]
         ELSE UNCHANGED <<pc, answer>>
    /\ UNCHANGED <<cell, elapsed, polls, fresh>>

\* One GET of the polling loop.  A missing key is polled like a pending one;
\* after the last attempt the waiter throws ConflictException.
Poll(c) ==
    /\ pc[c] = "waiting"
    /\ due[c]
    /\ due' = [due EXCEPT ![c] = FALSE]
    /\ \/ /\ cell.kind = "result"
          /\ pc' = [pc EXCEPT ![c] = "done"]
          /\ answer' = [answer EXCEPT ![c] = cell.by]
          /\ UNCHANGED polls
       \/ /\ cell.kind # "result"
          /\ polls' = [polls EXCEPT ![c] = @ + 1]
          /\ pc' = [pc EXCEPT ![c] =
                      IF polls[c] + 1 = POLL_MAX_ATTEMPTS THEN "failed" ELSE @]
          /\ UNCHANGED answer
    /\ UNCHANGED <<cell, elapsed, fresh>>

\* Mutant of Succeed: the result keeps the short TTL of the lock.
SucceedWithLockTTL(c) ==
    /\ pc[c] = "running"
    /\ pc' = [pc EXCEPT ![c] = "done"]
    /\ answer' = [answer EXCEPT ![c] = c]
    /\ cell' = [ResultOf(c) EXCEPT !.ttl = LOCK_TTL]
    /\ fresh' = RESULT_TTL
    /\ UNCHANGED <<elapsed, polls, due>>

\* fn returns: its result overwrites whatever the key holds now.  A failed
\* SET is only logged.
Succeed(c) ==
    /\ pc[c] = "running"
    /\ pc' = [pc EXCEPT ![c] = "done"]
    /\ answer' = [answer EXCEPT ![c] = c]
    /\ \/ /\ cell' = ResultOf(c)
          /\ fresh' = RESULT_TTL
       \/ /\ RedisMayFail
          /\ UNCHANGED <<cell, fresh>>
    /\ UNCHANGED <<elapsed, polls, due>>

\* fn throws: the key is deleted, whoever wrote it.  A failed DEL is ignored.
Throw(c) ==
    /\ pc[c] = "running"
    /\ pc' = [pc EXCEPT ![c] = "failed"]
    /\ \/ cell' = Absent
       \/ RedisMayFail /\ UNCHANGED cell
    /\ UNCHANGED <<elapsed, polls, due, answer, fresh>>

\* The API process dies inside fn: the marker stays until its TTL.
Crash(c) ==
    /\ pc[c] = "running"
    /\ pc' = [pc EXCEPT ![c] = "failed"]
    /\ UNCHANGED <<cell, elapsed, polls, due, answer, fresh>>

\* The client sends the same key again (a double click, a network retry).
Retry(c) ==
    /\ pc[c] \in {"done", "failed"}
    /\ pc' = [pc EXCEPT ![c] = "idle"]
    /\ answer' = [answer EXCEPT ![c] = NoResult]
    /\ UNCHANGED <<cell, elapsed, polls, due, fresh>>

\* One poll interval passes: TTLs run down, running calls grow older and the
\* waiters' timers fire.  MaxRun is the assumption on how long fn may take.
Tick ==
    /\ \A c \in Callers : pc[c] = "running" => elapsed[c] < MaxRun
    /\ cell' = IF cell.ttl <= 1 THEN Absent ELSE [cell EXCEPT !.ttl = @ - 1]
    /\ elapsed' = [c \in Callers |->
                     IF pc[c] = "running" THEN elapsed[c] + 1 ELSE elapsed[c]]
    /\ due' = [c \in Callers |-> due[c] \/ pc[c] = "waiting"]
    /\ fresh' = IF fresh > 0 THEN fresh - 1 ELSE 0
    /\ UNCHANGED <<pc, polls, answer>>

KeyNext ==
    \/ \E c \in Callers :
          \/ Acquire(c) \/ Join(c) \/ Poll(c)
          \/ Succeed(c) \/ Throw(c) \/ Crash(c) \/ Retry(c)
    \/ Tick

KeySpec == KeyInit /\ [][KeyNext]_keyVars

\* Time passes, timers are served, a request that reached the handler claims
\* or joins, and fn settles.  Clients need not retry and nothing need crash.
KeyFairness ==
    /\ WF_keyVars(Tick)
    /\ \A c \in Callers :
          /\ WF_keyVars(Acquire(c) \/ Join(c))
          /\ WF_keyVars(Poll(c))
          /\ WF_keyVars(Succeed(c) \/ Throw(c))

KeyFairSpec == KeySpec /\ KeyFairness

-----------------------------------------------------------------------------
\* Every variable stays in its range.
KeyTypeOK ==
    /\ pc \in [Callers -> {"idle", "waiting", "running", "done", "failed"}]
    /\ cell \in [kind : {"absent", "pending", "result"},
                 by   : Callers \cup {NoResult},
                 ttl  : Nat]
    /\ elapsed \in [Callers -> Nat]
    /\ polls \in [Callers -> Nat]
    /\ due \in [Callers -> BOOLEAN]
    /\ answer \in [Callers -> Callers \cup {NoResult}]
    /\ fresh \in Nat

\* No two callers are ever inside fn together: the wrapped handler (the
\* public warranty claim) has exclusive use of its rows.
OneRunner ==
    \A c, d \in Callers : pc[c] = "running" /\ pc[d] = "running" => c = d

\* While a stored result is within its TTL nobody runs fn, and the key still
\* holds a result: a duplicate request cannot redo the work.
NoRerunWhileFresh ==
    fresh > 0 => /\ cell.kind = "result"
                 /\ \A c \in Callers : pc[c] # "running"

\* A duplicate request always ends: with a result, or with an error.
CallersEnd == \A c \in Callers :
    pc[c] = "waiting" ~> pc[c] \in {"done", "failed"}
=============================================================================
