----------------------------- MODULE BucketRate -----------------------------
(***************************************************************************)
(* How fast the token bucket lets calls through.  An observer may start a  *)
(* stop-watch at any instant; it counts the calls of take() that return    *)
(* while it runs.  The bucket itself is TokenBucket, unchanged.            *)
(***************************************************************************)
EXTENDS TokenBucket

CONSTANT MaxSpan   \* the longest window, in ticks

ASSUME SpanAssumption == MaxSpan \in Nat

VARIABLES
  watching, \* the watch is running
  span,     \* ticks since it was started
  since     \* calls of take() that returned since it was started

watchVars == <<watching, span, since>>
rateVars == <<bucketVars, watchVars>>

RateInit ==
  /\ Init
  /\ watching = FALSE
  /\ span = 0
  /\ since = 0

Grant(c) ==
  /\ TakeNow(c) \/ WakeUp(c)
  /\ since' = IF watching THEN since + 1 ELSE since
  /\ UNCHANGED <<watching, span>>

(* The watch stops after MaxSpan ticks.                                    *)
TimePasses ==
  /\ Tick
  /\ watching' = (watching /\ span < MaxSpan)
  /\ span' = IF watching /\ span < MaxSpan THEN span + 1 ELSE 0
  /\ since' = IF watching /\ span < MaxSpan THEN since ELSE 0

(* The window opens at this very instant.                                  *)
StartWatch ==
  /\ watching' = TRUE
  /\ span' = 0
  /\ since' = 0
  /\ UNCHANGED bucketVars

(* What the observer does not time.                                        *)
Unobserved ==
  /\ FallAsleep \/ \E c \in Callers : Enter(c)
  /\ UNCHANGED watchVars

RateNext ==
  \/ \E c \in Callers : Grant(c)
  \/ Unobserved
  \/ TimePasses
  \/ StartWatch

RateSpec == RateInit /\ [][RateNext]_rateVars

(* The observer stops nobody: the bucket is as fair as it is without.      *)
RateFairSpec == RateSpec /\ Fairness

----------------------------------------------------------------------------

(* Types of the variables of the observer and of the bucket                *)
(* (governor.py:38-43).                                                    *)
RateTypeOK ==
  /\ TypeOK
  /\ watching \in BOOLEAN
  /\ span \in 0..MaxSpan
  /\ since \in Nat

(* What take() guarantees (governor.py:45-54): in every window, wherever   *)
(* it starts, at most capacity + 1 calls return, plus two for every Period *)
(* ticks.  The two is the code's: a tick spent asleep pays for the token   *)
(* of the sleeper, and the next refill counts the same tick again because  *)
(* _ts was set before the sleep.                                           *)
GrantBound == watching => since * Period <= Cap + Period + 2 * span

(* What docs/configuration.md:11-12 says of the bucket, rate_per_sec being *)
(* its "refill rate" and burst its "capacity": a window hands out at most  *)
(* the capacity and the tokens earned meanwhile.  One more is granted, for *)
(* the sleeper that the opening window finds half paid.                    *)
DocumentedRate == watching => since * Period <= Cap + Period + span

(* The inductive core of GrantBound.  The left-hand side is what has been  *)
(* handed out plus what could be handed out at this very instant: a tick   *)
(* raises it by two at most, a grant turns the second part into the first. *)
Credit ==
  IF sleeping THEN LesserOf(Period, level + age) + LesserOf(Cap, age)
              ELSE Refilled

CreditBound == watching => since * Period + Credit <= Cap + Period + 2 * span

(* What is handed out and what could be is within the bound                *)
(* (governor.py:38-54).                                                    *)
RateInv == RateTypeOK /\ CreditBound

=============================================================================
