------------------------------- MODULE Egress -------------------------------
(***************************************************************************)
(* The way out: AsyncHttpClient.request of authdiff/network/client.py with *)
(* ScopeGovernor.guard of authdiff/safety/governor.py.  Requests are       *)
(* concurrent coroutines; each passes the gate (Governor), waits for a     *)
(* token (TokenBucket), waits for a permit of the semaphore, is sent, and  *)
(* on a 429 sleeps and starts again at the gate.                           *)
(*                                                                         *)
(* A step is what the event loop runs between two awaits that suspend.     *)
(***************************************************************************)
EXTENDS Integers, Sequences, FiniteSets

CONSTANTS
  Requests,        \* the concurrent calls of request()
  HostOf,          \* the host of each
  MethodOf,        \* the method of each
  MaxConcurrency,  \* max_concurrency
  MaxRetries,      \* max_retries
  Period, Burst,   \* of the token bucket
  Hosts, Addresses, NoAddress, AllowHosts, AllowNets, AllowWrites, PinDns,
  HasKillFile, KillEnv   \* of the governor

ASSUME EgressAssumption ==
  /\ IsFiniteSet(Requests)
  /\ HostOf \in [Requests -> Hosts]
  /\ MaxConcurrency \in Nat
  /\ MaxRetries \in Nat
  /\ Period \in Nat \ {0}
  /\ Burst \in Int
  /\ AllowHosts \subseteq Hosts
  /\ AllowNets \subseteq Addresses
  /\ AllowHosts # {} \/ AllowNets # {}  \* ScopeGovernor raises ValueError otherwise
  /\ NoAddress \notin Addresses
  /\ {AllowWrites, PinDns, HasKillFile, KillEnv} \subseteq BOOLEAN

VARIABLES
  level, age, queue, sleeping,              \* of the token bucket
  killed, killFile, pinned, dns,            \* of the governor
  pc,        \* where each request is
  attempt,   \* its local variable attempt
  permits,   \* the value of the semaphore _sem
  semQueue,  \* the requests that wait at "async with sem", in order
  sent,      \* history: how often the connection was asked to send it
  late       \* history: of these, the ones since the kill switch is engaged

Bucket == INSTANCE TokenBucket WITH
  Callers <- Requests
Gate == INSTANCE Governor

govVars == <<killed, killFile, pinned, dns>>
bucketVars == <<level, age, queue, sleeping>>
clientVars == <<pc, attempt, permits, semQueue, sent, late>>
vars == <<govVars, bucketVars, clientVars>>

Ended == {"done", "failed", "refused"}
InFlight == {r \in Requests : pc[r] = "inflight"}

Init ==
  /\ Bucket!Init
  /\ Gate!Init
  /\ pc = [r \in Requests |-> "new"]
  /\ attempt = [r \in Requests |-> 0]
  /\ permits = MaxConcurrency
  /\ semQueue = <<>>
  /\ sent = [r \in Requests |-> 0]
  /\ late = [r \in Requests |-> 0]

Goto(r, place) == pc' = [pc EXCEPT ![r] = place]

(* Mutant: a retry does not count.                                         *)
AtGuardUncounted(r) ==
  /\ pc[r] \in {"new", "backoff"}
  /\ UNCHANGED <<attempt, permits, semQueue, sent, late>>

(* The top of the loop of request(), reached at first and when a back-off  *)
(* is over: guard() asserts and, without a suspension in between, queues   *)
(* for a token.  The counter of attempts moves when the back-off ends.     *)
AtGuard(r) ==
  /\ pc[r] \in {"new", "backoff"}
  /\ attempt' = IF pc[r] = "backoff" THEN [attempt EXCEPT ![r] = @ + 1] ELSE attempt
  /\ UNCHANGED <<permits, semQueue, sent, late>>

(* Mutant: only the first attempt is checked.                              *)
PassGuardOnce(r) ==
  /\ AtGuard(r)
  /\ IF pc[r] = "new" THEN Gate!Allow(MethodOf[r], HostOf[r]) ELSE UNCHANGED govVars
  /\ Bucket!Enter(r)
  /\ Goto(r, "bucket")

PassGuard(r) ==
  /\ AtGuard(r)
  /\ Gate!Allow(MethodOf[r], HostOf[r])
  /\ Bucket!Enter(r)
  /\ Goto(r, "bucket")

RefusedByGuard(r) ==
  /\ AtGuard(r)
  /\ Gate!Refuse(MethodOf[r], HostOf[r])
  /\ Goto(r, "refused")
  /\ UNCHANGED bucketVars

(* take() returns, and with it guard(): on to the semaphore.               *)
GetToken(r) ==
  /\ Bucket!TakeNow(r) \/ Bucket!WakeUp(r)
  /\ Goto(r, "sem")
  /\ semQueue' = Append(semQueue, r)
  /\ UNCHANGED <<govVars, attempt, permits, sent, late>>

WaitForToken ==
  /\ Bucket!FallAsleep
  /\ UNCHANGED <<govVars, clientVars>>

(* Mutant: the semaphore is not looked at.                                 *)
SendOverCap(r) ==
  /\ semQueue # <<>>
  /\ r = Head(semQueue)
  /\ permits' = permits - 1
  /\ semQueue' = Tail(semQueue)
  /\ Goto(r, "inflight")
  /\ sent' = [sent EXCEPT ![r] = @ + 1]
  /\ late' = [late EXCEPT ![r] = IF Gate!KillEngaged THEN @ + 1 ELSE @]
  /\ UNCHANGED <<govVars, bucketVars, attempt>>

(* A permit is free for the request that waits longest, which is handed to *)
(* the connection pool.                                                    *)
Send(r) ==
  /\ semQueue # <<>>
  /\ r = Head(semQueue)
  /\ permits > 0
  /\ permits' = permits - 1
  /\ semQueue' = Tail(semQueue)
  /\ Goto(r, "inflight")
  /\ sent' = [sent EXCEPT ![r] = @ + 1]
  /\ late' = [late EXCEPT ![r] = IF Gate!KillEngaged THEN @ + 1 ELSE @]
  /\ UNCHANGED <<govVars, bucketVars, attempt>>

(* The response or the exception leaves "async with sem".                  *)
Leave(r, place) ==
  /\ pc[r] = "inflight"
  /\ permits' = permits + 1
  /\ Goto(r, place)
  /\ UNCHANGED <<govVars, bucketVars, attempt, semQueue, sent, late>>

(* Mutant: one retry too many.                                             *)
TooManyTooOften(r) ==
  /\ attempt[r] <= MaxRetries
  /\ Leave(r, "backoff")

(* A 429 while retries are left.  Whatever the delay, at most 30 seconds,  *)
(* the sleep ends sooner or later: the delay is not modelled.              *)
TooMany(r) ==
  /\ attempt[r] < MaxRetries
  /\ Leave(r, "backoff")

(* Any other response, and the 429 after the last retry, is returned.      *)
Respond(r) == Leave(r, "done")

(* Mutant: an exception skips the release.                                 *)
FailHolding(r) ==
  /\ pc[r] = "inflight"
  /\ Goto(r, "failed")
  /\ UNCHANGED <<govVars, bucketVars, attempt, permits, semQueue, sent, late>>

(* httpx raises: no route, no name, a timeout.                             *)
Fail(r) == Leave(r, "failed")

Tick ==
  /\ Bucket!Tick
  /\ UNCHANGED <<govVars, clientVars>>

(* The kill switch, the resolver.  The history starts again when the       *)
(* switch is released.                                                     *)
Environment ==
  /\ Gate!Environment
  /\ late' = IF Gate!KillEngaged' THEN late ELSE [r \in Requests |-> 0]
  /\ UNCHANGED <<bucketVars, pc, attempt, permits, semQueue, sent>>

Next ==
  \/ \E r \in Requests :
       \/ PassGuard(r) \/ RefusedByGuard(r) \/ GetToken(r) \/ Send(r)
       \/ TooMany(r) \/ Respond(r) \/ Fail(r)
  \/ WaitForToken
  \/ Tick
  \/ Environment

(* The event loop runs every coroutine that can run; time passes; httpx    *)
(* gives up on a server that falls silent, so each send has an outcome     *)
(* unless its answer trickles in without end.  Nothing else is assumed of  *)
(* the server, nothing of the resolver or the person at the kill switch.   *)
Fairness ==
  /\ \A r \in Requests :
       /\ WF_vars(PassGuard(r) \/ RefusedByGuard(r))
       /\ WF_vars(GetToken(r))
       /\ WF_vars(Send(r))
       /\ WF_vars(TooMany(r) \/ Respond(r) \/ Fail(r))
  /\ WF_vars(WaitForToken)
  /\ WF_vars(Tick)

Spec == Init /\ [][Next]_vars
FairSpec == Spec /\ Fairness

----------------------------------------------------------------------------

(* Types of the variables, those of the parts included; semQueue holds     *)
(* exactly the requests that wait for a permit (client.py:52-63).          *)
TypeOK ==
  /\ Bucket!TypeOK
  /\ Gate!GovTypeOK
  /\ pc \in [Requests -> {"new", "bucket", "sem", "inflight", "backoff"} \cup Ended]
  /\ attempt \in [Requests -> 0..MaxRetries]
  /\ permits \in 0..MaxConcurrency
  /\ semQueue \in Seq(Requests)
  /\ sent \in [Requests -> Nat]
  /\ late \in [Requests -> Nat]

(* A permit is never lost nor forged, on whichever path the block is left, *)
(* so that the cap on in-flight requests holds and stays usable            *)
(* (client.py:55-57).                                                      *)
PermitsConserved == permits + Cardinality(InFlight) = MaxConcurrency

(* The sends a request has had are those its attempts account for: none is *)
(* made twice for one pass of the gate (client.py:52-62).                  *)
OneSendPerAttempt ==
  \A r \in Requests :
    sent[r] = attempt[r] + (IF pc[r] \in {"inflight", "backoff", "done", "failed"}
                            THEN 1 ELSE 0)

(* Once the kill switch is engaged, and until it is released, each request *)
(* is sent at most once more: the send it had already been cleared for     *)
(* (governor.py:133-137, client.py:54-56).                                 *)
KillCostsOneSend == \A r \in Requests : late[r] <= 1

(* What a request was cleared for still holds at each later moment before  *)
(* its answer: its host is in scope although the resolver may have changed *)
(* its mind while it waited, and it is no write that the scan may not make *)
(* (governor.py:98-131).                                                   *)
ClearedWhileOnItsWay ==
  \A r \in Requests :
    pc[r] \in {"bucket", "sem", "inflight"} =>
      /\ Gate!InScope(HostOf[r])
      /\ MethodOf[r] \in Gate!WRITE_METHODS => AllowWrites

(* Every call of request() returns or raises, however the requests wait    *)
(* for one another (client.py:52-63).                                      *)
EveryRequestEnds == \A r \in Requests : <>(pc[r] \in Ended)

(* Each queue holds the requests that its place says, each of them once.   *)
Lines ==
  /\ \A i \in 1..Len(queue) : pc[queue[i]] = "bucket"
  /\ \A i \in 1..Len(semQueue) : pc[semQueue[i]] = "sem"
  /\ \A i, j \in 1..Len(queue) : queue[i] = queue[j] => i = j
  /\ \A i, j \in 1..Len(semQueue) : semQueue[i] = semQueue[j] => i = j

(* Only a request with a retry left is put off.                            *)
RetryLeft == \A r \in Requests : pc[r] = "backoff" => attempt[r] < MaxRetries

(* A request that was sent after the stop is past the gate for good.       *)
LateIsLast ==
  \A r \in Requests :
    /\ late[r] \in {0, 1}
    /\ late[r] = 1 => /\ Gate!KillEngaged
                      /\ pc[r] \in {"inflight", "backoff"} \cup Ended

(* The inductive invariant behind the theorems of EgressProofs: what one   *)
(* request may do next follows from where the others wait (client.py:52-   *)
(* 63, governor.py:133-137).                                               *)
EgressInv ==
  /\ TypeOK
  /\ Lines
  /\ RetryLeft
  /\ PermitsConserved
  /\ OneSendPerAttempt
  /\ LateIsLast

(* The phase that PoliteClient sees of a request.                          *)
Phase ==
  [r \in Requests |->
     CASE pc[r] \in {"new", "backoff"} -> "out"
       [] pc[r] \in {"bucket", "sem"} -> "admitted"
       [] pc[r] = "inflight" -> "inflight"
       [] OTHER -> "ended"]

Polite == INSTANCE PoliteClient WITH
  Cap <- MaxConcurrency,
  Sends <- MaxRetries + 1,
  phase <- Phase,
  sends <- sent,
  stopped <- Gate!KillEngaged

(* The traffic is that of PoliteClient: what one pass of the gate admits   *)
(* is one send (client.py:52-63 with governor.py:122-137).                 *)
ImplementsPoliteClient == Polite!Spec

=============================================================================
