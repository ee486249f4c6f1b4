---------------------------- MODULE TokenBucket ----------------------------
(***************************************************************************)
(* The pacing lock of the Scope Governor: class _TokenBucket of            *)
(* authdiff/safety/governor.py.  Every outbound request calls take() and   *)
(* goes on when take() returns.                                            *)
(*                                                                         *)
(* Time is discrete.  One token is earned every Period ticks and an amount *)
(* of tokens is counted in units of 1/Period token, so that one tick earns *)
(* one unit and one token is Period units: the code's floats become exact  *)
(* integers.  The code keeps the time _ts of the last refill; the model    *)
(* keeps age = now - _ts, which makes the state finite without a horizon.  *)
(***************************************************************************)
EXTENDS Integers, Sequences

CONSTANTS
  Callers,  \* the coroutines that call take()
  Period,   \* ticks to earn one token: 1 / max(rate_per_sec, 0.1)
  Burst     \* the burst parameter, of which the capacity is max(burst, 1)

ASSUME BucketAssumption ==
  /\ Period \in Nat \ {0}
  /\ Burst \in Int

VARIABLES
  level,    \* _tokens, in units
  age,      \* now - _ts, exact up to Cap and no longer counted above it
  queue,    \* the FIFO of _lock: its head holds the lock, the rest wait
  sleeping  \* the head is inside asyncio.sleep

bucketVars == <<level, age, queue, sleeping>>

LesserOf(a, b) == IF a <= b THEN a ELSE b

(* The capacity max(burst, 1), in units. *)
Cap == (IF Burst < 1 THEN 1 ELSE Burst) * Period

(* What a refill at this instant leaves in the bucket. *)
Refilled == LesserOf(Cap, level + age)

Init ==
  /\ level = Cap
  /\ age = 0
  /\ queue = <<>>
  /\ sleeping = FALSE

(* Mutant: the last to arrive is served first.                             *)
EnterFirst(c) ==
  /\ \A i \in 1..Len(queue) : queue[i] # c
  /\ queue' = <<c>> \o queue
  /\ UNCHANGED <<level, age, sleeping>>

(* A coroutine arrives at "async with self._lock". *)
Enter(c) ==
  /\ \A i \in 1..Len(queue) : queue[i] # c
  /\ queue' = Append(queue, c)
  /\ UNCHANGED <<level, age, sleeping>>

(* The holder c leaves the block: its take() returns and the lock is       *)
(* handed to the next waiter.                                              *)
Leave(c) ==
  /\ queue # <<>>
  /\ c = Head(queue)
  /\ queue' = Tail(queue)

(* Mutant: the fast path does not advance _ts.                             *)
TakeNowKeepsTime(c) ==
  /\ ~sleeping
  /\ Refilled >= Period
  /\ level' = Refilled - Period
  /\ UNCHANGED <<age, sleeping>>
  /\ Leave(c)

(* The holder refills, finds a whole token and takes it at once.           *)
TakeNow(c) ==
  /\ ~sleeping
  /\ Refilled >= Period
  /\ level' = Refilled - Period
  /\ age' = 0
  /\ UNCHANGED sleeping
  /\ Leave(c)

(* The holder refills, finds less than a token and sleeps, lock in hand.   *)
FallAsleep ==
  /\ queue # <<>>
  /\ ~sleeping
  /\ Refilled < Period
  /\ level' = Refilled
  /\ age' = 0
  /\ sleeping' = TRUE
  /\ UNCHANGED queue

(* Mutant: the sleeper does not pay.                                       *)
WakeUpUnpaid(c) ==
  /\ sleeping
  /\ level + age >= Period
  /\ sleeping' = FALSE
  /\ UNCHANGED <<level, age>>
  /\ Leave(c)

(* The sleep of (1 - _tokens) / _rate is over, on time or late.  _ts keeps *)
(* the instant at which the sleep began.                                   *)
WakeUp(c) ==
  /\ sleeping
  /\ level + age >= Period
  /\ level' = 0
  /\ sleeping' = FALSE
  /\ UNCHANGED age
  /\ Leave(c)

(* time.monotonic() advances.                                              *)
Tick ==
  /\ age' = LesserOf(Cap, age + 1)
  /\ UNCHANGED <<level, queue, sleeping>>

Next ==
  \/ \E c \in Callers : Enter(c) \/ TakeNow(c) \/ WakeUp(c)
  \/ FallAsleep
  \/ Tick

(* The event loop keeps running whoever can run, and time keeps passing.   *)
(* Nobody is obliged to call take() again.                                 *)
Fairness ==
  /\ WF_bucketVars(\E c \in Callers : TakeNow(c))
  /\ WF_bucketVars(FallAsleep)
  /\ WF_bucketVars(\E c \in Callers : WakeUp(c))
  /\ WF_bucketVars(Tick)

Spec == Init /\ [][Next]_bucketVars
FairSpec == Spec /\ Fairness

----------------------------------------------------------------------------

Waiting(c) == \E i \in 1..Len(queue) : queue[i] = c

(* Types of the variables (_TokenBucket.__init__, governor.py:38-43): the  *)
(* bucket never holds more than its capacity, and who sleeps in it holds   *)
(* the lock and is short of a token.                                       *)
TypeOK ==
  /\ level \in 0..Cap
  /\ age \in 0..Cap
  /\ queue \in Seq(Callers)
  /\ sleeping \in BOOLEAN
  /\ sleeping => level < Period /\ queue # <<>>

(* Every coroutine that waits for the bucket is let through: the FIFO      *)
(* admits no overtaking, and the lock is not lost by a sleeping holder     *)
(* (governor.py:46-54).                                                    *)
EveryCallerServed == \A c \in Callers : Waiting(c) ~> ~Waiting(c)

============================================================================
