---------------------------- MODULE EgressProofs ----------------------------
(***************************************************************************)
(* Proofs about Egress for every set of requests, every capacity of the    *)
(* bucket and of the semaphore, and every number of retries.               *)
(***************************************************************************)
EXTENDS Egress, SequenceTheorems, FiniteSetTheorems, TLAPS

(* The theorems about the bucket, which nobody times here.                 *)
BucketFacts == INSTANCE BucketProofs WITH
  Callers <- Requests, MaxSpan <- 0, watching <- FALSE, span <- 0, since <- 0

(* The two instances of the bucket define the same formulas, so that what  *)
(* BucketProofs proves of a step of the bucket holds of Bucket.            *)
LEMMA BucketKeepsTypes ==
  /\ Bucket!Init => Bucket!TypeOK
  /\ Bucket!TypeOK /\ [Bucket!Next]_(Bucket!bucketVars) => Bucket!TypeOK'
<1>1. Period \in Nat \ {0} /\ Burst \in Int
  BY EgressAssumption
<1>2. Bucket!TypeOK <=> BucketFacts!TypeOK
  BY DEF BucketFacts!TypeOK, Bucket!TypeOK, BucketFacts!Cap, Bucket!Cap
<1>3. Bucket!TypeOK' <=> BucketFacts!TypeOK'
  BY DEF BucketFacts!TypeOK, Bucket!TypeOK, BucketFacts!Cap, Bucket!Cap
<1>4. Bucket!Init <=> BucketFacts!Init
  BY DEF BucketFacts!Init, Bucket!Init, BucketFacts!Cap, Bucket!Cap
<1>5. [Bucket!Next]_(Bucket!bucketVars) => [BucketFacts!Next]_(BucketFacts!bucketVars)
  BY DEF Bucket!Next, BucketFacts!Next, Bucket!bucketVars, BucketFacts!bucketVars,
         Bucket!Enter, BucketFacts!Enter, Bucket!Leave, BucketFacts!Leave,
         Bucket!TakeNow, BucketFacts!TakeNow, Bucket!WakeUp, BucketFacts!WakeUp,
         Bucket!FallAsleep, BucketFacts!FallAsleep, Bucket!Tick, BucketFacts!Tick,
         Bucket!Refilled, BucketFacts!Refilled, Bucket!Cap, BucketFacts!Cap,
         Bucket!LesserOf, BucketFacts!LesserOf
<1> QED
  BY <1>1, <1>2, <1>3, <1>4, <1>5, BucketFacts!BucketInit, BucketFacts!BucketStep

(* What each step of the client does to the bucket is a step of the bucket *)
(* or none at all.                                                         *)
LEMMA StepOfBucket == [Next]_vars => [Bucket!Next]_(Bucket!bucketVars)
<1> SUFFICES ASSUME [Next]_vars PROVE Bucket!Next \/ UNCHANGED Bucket!bucketVars
  OBVIOUS
<1> USE DEF Bucket!bucketVars
<1>1. ASSUME NEW r \in Requests, PassGuard(r) PROVE Bucket!Next
  BY <1>1 DEF PassGuard, Bucket!Next
<1>2. ASSUME NEW r \in Requests, GetToken(r) PROVE Bucket!Next
  BY <1>2 DEF GetToken, Bucket!Next
<1>3. ASSUME NEW r \in Requests, RefusedByGuard(r) \/ Send(r) PROVE UNCHANGED bucketVars
  BY <1>3 DEF RefusedByGuard, Send
<1>4. ASSUME NEW r \in Requests, TooMany(r) \/ Respond(r) \/ Fail(r)
      PROVE  UNCHANGED bucketVars
  BY <1>4 DEF TooMany, Respond, Fail, Leave
<1>5. CASE WaitForToken
  BY <1>5 DEF WaitForToken, Bucket!Next
<1>6. CASE Tick
  BY <1>6 DEF Tick, Bucket!Next
<1>7. CASE Environment \/ UNCHANGED vars
  BY <1>7 DEF Environment, vars, bucketVars
<1> QED
  BY <1>1, <1>2, <1>3, <1>4, <1>5, <1>6, <1>7 DEF Next, bucketVars

(* Likewise for the gate: its variables change as assert_allowed, or its   *)
(* surroundings, would change them.                                        *)
LEMMA StepOfGate ==
  [Next]_vars => \/ \E h \in Hosts : Gate!LookUp(h)
                 \/ Gate!Environment
                 \/ UNCHANGED govVars
<1> SUFFICES ASSUME [Next]_vars
             PROVE  \/ \E h \in Hosts : Gate!LookUp(h)
                    \/ Gate!Environment
                    \/ UNCHANGED govVars
  OBVIOUS
<1>1. ASSUME NEW r \in Requests, PassGuard(r) PROVE Gate!LookUp(HostOf[r])
  BY <1>1 DEF PassGuard, Gate!Allow
<1>2. ASSUME NEW r \in Requests, RefusedByGuard(r)
      PROVE  Gate!LookUp(HostOf[r]) \/ UNCHANGED govVars
  BY <1>2 DEF RefusedByGuard, Gate!Refuse, Gate!RaiseKillSwitch,
              Gate!RaiseOutOfScope, Gate!RaiseNonDestructive, Gate!govVars, govVars
<1>3. ASSUME NEW r \in Requests, GetToken(r) \/ Send(r) PROVE UNCHANGED govVars
  BY <1>3 DEF GetToken, Send
<1>4. ASSUME NEW r \in Requests, TooMany(r) \/ Respond(r) \/ Fail(r)
      PROVE  UNCHANGED govVars
  BY <1>4 DEF TooMany, Respond, Fail, Leave
<1>5. CASE WaitForToken \/ Tick
  BY <1>5 DEF WaitForToken, Tick
<1>6. CASE Environment
  BY <1>6 DEF Environment
<1>7. CASE UNCHANGED vars
  BY <1>7 DEF vars
<1>8. \A r \in Requests : HostOf[r] \in Hosts
  BY EgressAssumption
<1> QED
  BY <1>1, <1>2, <1>3, <1>4, <1>5, <1>6, <1>7, <1>8 DEF Next

(* The governor keeps its types through every step of the client.          *)
LEMMA GateKeepsTypes ==
  /\ Gate!Init => Gate!GovTypeOK
  /\ Gate!GovTypeOK /\ [Next]_vars => Gate!GovTypeOK'
<1> USE DEF Gate!GovTypeOK
<1>1. ASSUME Gate!Init PROVE Gate!GovTypeOK
  BY <1>1, EgressAssumption DEF Gate!Init
<1>2. ASSUME Gate!GovTypeOK, NEW h \in Hosts, Gate!LookUp(h) PROVE Gate!GovTypeOK'
  <2>1. Gate!Resolved(h) \in Addresses \cup {NoAddress}
    BY <1>2 DEF Gate!Resolved
  <2>2. pinned' \in [Hosts -> Addresses \cup {NoAddress}]
    BY <1>2, <2>1 DEF Gate!LookUp
  <2> QED
    BY <1>2, <2>2 DEF Gate!LookUp
<1>3. ASSUME Gate!GovTypeOK, Gate!Environment PROVE Gate!GovTypeOK'
  BY <1>3 DEF Gate!Environment, Gate!Kill, Gate!ToggleKillFile, Gate!DnsChange
<1>4. ASSUME Gate!GovTypeOK, UNCHANGED govVars PROVE Gate!GovTypeOK'
  BY <1>4 DEF govVars
<1> QED
  BY <1>1, <1>2, <1>3, <1>4, StepOfGate

(* Where the head of a line stands: the request that the bucket, or the    *)
(* semaphore, lets through is one that waits there.                        *)
LEMMA HeadWaits ==
  ASSUME TypeOK, Lines
  PROVE  /\ queue # <<>> => pc[Head(queue)] = "bucket" /\ Head(queue) \in Requests
         /\ semQueue # <<>> => pc[Head(semQueue)] = "sem" /\ Head(semQueue) \in Requests
<1>1. queue \in Seq(Requests) /\ semQueue \in Seq(Requests)
  BY DEF TypeOK, Bucket!TypeOK
<1> QED
  BY <1>1 DEF Lines

(* GetToken takes the head of the bucket's line.                           *)
LEMMA GetTokenFacts ==
  ASSUME NEW r \in Requests, GetToken(r), TypeOK, Lines
  PROVE  /\ queue # <<>> /\ r = Head(queue) /\ queue' = Tail(queue)
         /\ pc[r] = "bucket"
         /\ pc' = [pc EXCEPT ![r] = "sem"]
         /\ semQueue' = Append(semQueue, r)
         /\ UNCHANGED <<govVars, attempt, permits, sent, late>>
BY HeadWaits DEF GetToken, Bucket!TakeNow, Bucket!WakeUp, Bucket!Leave, Goto

(* Every other action leaves the lines alone, or appends to the bucket's   *)
(* line, or takes the head of the semaphore's.                             *)
LEMMA LinesStep == TypeOK /\ Lines /\ [Next]_vars => Lines'
<1> SUFFICES ASSUME TypeOK, Lines, [Next]_vars PROVE Lines'
  OBVIOUS
<1>1. queue \in Seq(Requests) /\ semQueue \in Seq(Requests)
  BY DEF TypeOK, Bucket!TypeOK
<1>2. DOMAIN pc = Requests
  BY DEF TypeOK
<1>3. ASSUME NEW r \in Requests, PassGuard(r) PROVE Lines'
  <2>1. /\ pc[r] \in {"new", "backoff"} /\ pc' = [pc EXCEPT ![r] = "bucket"]
        /\ queue' = Append(queue, r) /\ semQueue' = semQueue
        /\ \A i \in 1..Len(queue) : queue[i] # r
    BY <1>3 DEF PassGuard, AtGuard, Goto, Bucket!Enter
  <2>2. /\ Len(queue') = Len(queue) + 1 /\ queue'[Len(queue) + 1] = r
        /\ \A i \in 1..Len(queue) : queue'[i] = queue[i]
    BY <1>1, <2>1, AppendProperties
  <2> QED
    BY <1>1, <1>2, <2>1, <2>2 DEF Lines
<1>4. ASSUME NEW r \in Requests, GetToken(r) PROVE Lines'
  <2>1. /\ queue # <<>> /\ r = Head(queue) /\ queue' = Tail(queue)
        /\ pc[r] = "bucket" /\ pc' = [pc EXCEPT ![r] = "sem"]
        /\ semQueue' = Append(semQueue, r)
    BY <1>4, GetTokenFacts
  <2>2. /\ Len(semQueue') = Len(semQueue) + 1 /\ semQueue'[Len(semQueue) + 1] = r
        /\ \A i \in 1..Len(semQueue) : semQueue'[i] = semQueue[i]
    BY <1>1, <2>1, AppendProperties
  <2>3. /\ Len(queue') = Len(queue) - 1 /\ r = queue[1]
        /\ \A i \in 1..Len(queue') : queue'[i] = queue[i + 1] /\ queue[i + 1] # r
    BY <1>1, <2>1, HeadTailProperties DEF Lines
  <2> QED
    BY <1>1, <1>2, <2>1, <2>2, <2>3 DEF Lines
<1>5. ASSUME NEW r \in Requests, Send(r) PROVE Lines'
  <2>1. /\ semQueue # <<>> /\ r = Head(semQueue) /\ semQueue' = Tail(semQueue)
        /\ pc[r] = "sem" /\ pc' = [pc EXCEPT ![r] = "inflight"] /\ queue' = queue
    BY <1>5, HeadWaits DEF Send, Goto, bucketVars
  <2>2. /\ Len(semQueue') = Len(semQueue) - 1 /\ r = semQueue[1]
        /\ \A i \in 1..Len(semQueue') : semQueue'[i] = semQueue[i + 1] /\ semQueue[i + 1] # r
    BY <1>1, <2>1, HeadTailProperties DEF Lines
  <2> QED
    BY <1>1, <1>2, <2>1, <2>2 DEF Lines
<1>6. ASSUME NEW r \in Requests, RefusedByGuard(r) \/ TooMany(r) \/ Respond(r) \/ Fail(r)
      PROVE  Lines'
  <2>1. pc[r] \in {"new", "backoff", "inflight"} /\ UNCHANGED <<queue, semQueue>>
        /\ \E place \in {"refused", "backoff", "done", "failed"} :
             pc' = [pc EXCEPT ![r] = place]
    BY <1>6 DEF RefusedByGuard, AtGuard, TooMany, Respond, Fail, Leave, Goto, bucketVars
  <2> QED
    BY <1>1, <1>2, <2>1 DEF Lines
<1>7. CASE WaitForToken \/ Tick \/ Environment \/ UNCHANGED vars
  <2>1. UNCHANGED <<queue, semQueue, pc>>
    BY <1>7 DEF WaitForToken, Tick, Environment, vars, bucketVars, clientVars,
                Bucket!FallAsleep, Bucket!Tick
  <2> QED
    BY <2>1 DEF Lines
<1> QED
  BY <1>3, <1>4, <1>5, <1>6, <1>7 DEF Next

(* How many requests are in flight before and after a request moves.       *)
LEMMA InFlightCount ==
  ASSUME TypeOK, NEW r \in Requests, NEW place, pc' = [pc EXCEPT ![r] = place]
  PROVE  /\ IsFiniteSet(InFlight) /\ Cardinality(InFlight) \in Nat
         /\ pc[r] # "inflight" /\ place = "inflight"
              => Cardinality(InFlight') = Cardinality(InFlight) + 1
         /\ pc[r] = "inflight" /\ place # "inflight"
              => Cardinality(InFlight') = Cardinality(InFlight) - 1
         /\ pc[r] # "inflight" /\ place # "inflight" => InFlight' = InFlight
<1>1. DOMAIN pc = Requests
  BY DEF TypeOK
<1>2. IsFiniteSet(InFlight)
  BY EgressAssumption, FS_Subset DEF InFlight
<1>3. Cardinality(InFlight) \in Nat
  BY <1>2, FS_CardinalityType
<1>4. ASSUME pc[r] # "inflight", place = "inflight"
      PROVE  Cardinality(InFlight') = Cardinality(InFlight) + 1
  <2>1. InFlight' = InFlight \cup {r} /\ r \notin InFlight
    BY <1>1, <1>4 DEF InFlight
  <2> QED
    BY <1>2, <2>1, FS_AddElement
<1>5. ASSUME pc[r] = "inflight", place # "inflight"
      PROVE  Cardinality(InFlight') = Cardinality(InFlight) - 1
  <2>1. InFlight' = InFlight \ {r} /\ r \in InFlight
    BY <1>1, <1>5 DEF InFlight
  <2> QED
    BY <1>2, <2>1, FS_RemoveElement
<1>6. ASSUME pc[r] # "inflight", place # "inflight" PROVE InFlight' = InFlight
  BY <1>1, <1>6 DEF InFlight
<1> QED
  BY <1>2, <1>3, <1>4, <1>5, <1>6

(* The permits and the requests in flight change together.                 *)
LEMMA PermitsStep ==
  TypeOK /\ Lines /\ PermitsConserved /\ [Next]_vars
    => PermitsConserved' /\ permits' \in 0..MaxConcurrency
<1> SUFFICES ASSUME TypeOK, Lines, PermitsConserved, [Next]_vars
             PROVE  PermitsConserved' /\ permits' \in 0..MaxConcurrency
  OBVIOUS
<1> DEFINE flying == Cardinality(InFlight)
<1>1. permits \in 0..MaxConcurrency /\ MaxConcurrency \in Nat
  BY EgressAssumption DEF TypeOK
<1>2. ASSUME permits' = permits, InFlight' = InFlight
      PROVE  PermitsConserved' /\ permits' \in 0..MaxConcurrency
  BY <1>1, <1>2 DEF PermitsConserved
<1>3. ASSUME NEW r \in Requests, PassGuard(r) \/ RefusedByGuard(r) \/ GetToken(r)
      PROVE  PermitsConserved' /\ permits' \in 0..MaxConcurrency
  <2>1. pc[r] \in {"new", "backoff", "bucket"} /\ permits' = permits
        /\ \E place \in {"bucket", "refused", "sem"} : pc' = [pc EXCEPT ![r] = place]
    BY <1>3, GetTokenFacts DEF PassGuard, RefusedByGuard, AtGuard, Goto
  <2> QED
    BY <1>2, <2>1, InFlightCount
<1>4. ASSUME NEW r \in Requests, Send(r)
      PROVE  PermitsConserved' /\ permits' \in 0..MaxConcurrency
  <2>1. pc[r] = "sem" /\ pc' = [pc EXCEPT ![r] = "inflight"]
        /\ permits > 0 /\ permits' = permits - 1
    BY <1>4, HeadWaits DEF Send, Goto
  <2>2. Cardinality(InFlight') = flying + 1 /\ flying \in Nat
    BY <2>1, InFlightCount
  <2> QED
    BY <1>1, <2>1, <2>2 DEF PermitsConserved
<1>5. ASSUME NEW r \in Requests, TooMany(r) \/ Respond(r) \/ Fail(r)
      PROVE  PermitsConserved' /\ permits' \in 0..MaxConcurrency
  <2>1. PICK place \in {"backoff", "done", "failed"} :
          pc[r] = "inflight" /\ pc' = [pc EXCEPT ![r] = place] /\ permits' = permits + 1
    BY <1>5 DEF TooMany, Respond, Fail, Leave, Goto
  <2>2. Cardinality(InFlight') = flying - 1 /\ flying \in Nat
    BY <2>1, InFlightCount
  <2>3. r \in InFlight /\ IsFiniteSet(InFlight)
    BY <2>1, InFlightCount DEF InFlight
  <2>4. flying >= 1
    BY <2>2, <2>3, FS_EmptySet
  <2> QED
    BY <1>1, <2>1, <2>2, <2>4 DEF PermitsConserved
<1>6. CASE WaitForToken \/ Tick \/ Environment \/ UNCHANGED vars
  <2>1. UNCHANGED <<permits, pc>>
    BY <1>6 DEF WaitForToken, Tick, Environment, vars, clientVars
  <2> QED
    BY <1>2, <2>1 DEF InFlight
<1> QED
  BY <1>3, <1>4, <1>5, <1>6 DEF Next

(* Attempts, sends and late sends, request by request.                     *)
LEMMA CountsStep ==
  EgressInv /\ [Next]_vars =>
    /\ pc' \in [Requests -> {"new", "bucket", "sem", "inflight", "backoff"} \cup Ended]
    /\ attempt' \in [Requests -> 0..MaxRetries]
    /\ semQueue' \in Seq(Requests)
    /\ sent' \in [Requests -> Nat]
    /\ late' \in [Requests -> Nat]
    /\ RetryLeft'
    /\ OneSendPerAttempt'
    /\ LateIsLast'
<1> DEFINE Places == {"new", "bucket", "sem", "inflight", "backoff"} \cup Ended
           Goal == /\ pc' \in [Requests -> Places]
                   /\ attempt' \in [Requests -> 0..MaxRetries]
                   /\ semQueue' \in Seq(Requests)
                   /\ sent' \in [Requests -> Nat]
                   /\ late' \in [Requests -> Nat]
                   /\ RetryLeft'
                   /\ OneSendPerAttempt'
                   /\ LateIsLast'
<1> SUFFICES ASSUME EgressInv, [Next]_vars PROVE Goal
  OBVIOUS
<1> USE DEF Ended
<1>1. TypeOK /\ Lines /\ RetryLeft /\ OneSendPerAttempt /\ LateIsLast
  BY DEF EgressInv
<1>2. /\ pc \in [Requests -> Places] /\ attempt \in [Requests -> 0..MaxRetries]
      /\ semQueue \in Seq(Requests) /\ sent \in [Requests -> Nat]
      /\ late \in [Requests -> Nat] /\ MaxRetries \in Nat
  BY <1>1, EgressAssumption DEF TypeOK
<1>3. ASSUME NEW r \in Requests, PassGuard(r) PROVE Goal
  <2>1. /\ pc[r] \in {"new", "backoff"} /\ pc' = [pc EXCEPT ![r] = "bucket"]
        /\ attempt' = IF pc[r] = "backoff" THEN [attempt EXCEPT ![r] = @ + 1] ELSE attempt
        /\ UNCHANGED <<semQueue, sent, late>>
        /\ ~Gate!KillEngaged
    BY <1>3 DEF PassGuard, AtGuard, Goto, Gate!Allow, Gate!LookUp
  <2>2. late'[r] = 0 /\ \A s \in Requests : late'[s] = 0
    BY <1>1, <1>2, <2>1 DEF LateIsLast
  <2>3. attempt' \in [Requests -> 0..MaxRetries]
    BY <1>1, <1>2, <2>1 DEF RetryLeft
  <2>4. OneSendPerAttempt'
    BY <1>1, <1>2, <2>1, SMTT(30) DEF OneSendPerAttempt
  <2>5. LateIsLast'
    BY <2>2 DEF LateIsLast
  <2> QED
    BY <1>1, <1>2, <2>1, <2>3, <2>4, <2>5 DEF RetryLeft
<1>4. ASSUME NEW r \in Requests, RefusedByGuard(r) PROVE Goal
  <2>1. /\ pc[r] \in {"new", "backoff"} /\ pc' = [pc EXCEPT ![r] = "refused"]
        /\ attempt' = IF pc[r] = "backoff" THEN [attempt EXCEPT ![r] = @ + 1] ELSE attempt
        /\ UNCHANGED <<semQueue, sent, late>>
    BY <1>4 DEF RefusedByGuard, AtGuard, Goto
  <2>2. UNCHANGED <<killed, killFile>>
    BY <1>4 DEF RefusedByGuard, Gate!Refuse, Gate!RaiseKillSwitch, Gate!govVars,
                Gate!RaiseOutOfScope, Gate!RaiseNonDestructive, Gate!LookUp
  <2>3. attempt' \in [Requests -> 0..MaxRetries]
    BY <1>1, <1>2, <2>1 DEF RetryLeft
  <2>4. OneSendPerAttempt'
    BY <1>1, <1>2, <2>1, SMTT(30) DEF OneSendPerAttempt
  <2>5. LateIsLast'
    BY <1>1, <1>2, <2>1, <2>2 DEF LateIsLast, Gate!KillEngaged
  <2> QED
    BY <1>1, <1>2, <2>1, <2>3, <2>4, <2>5 DEF RetryLeft
<1>5. ASSUME NEW r \in Requests, GetToken(r) PROVE Goal
  <2>1. /\ pc[r] = "bucket" /\ pc' = [pc EXCEPT ![r] = "sem"]
        /\ semQueue' = Append(semQueue, r)
        /\ UNCHANGED <<attempt, sent, late, killed, killFile>>
    BY <1>1, <1>5, GetTokenFacts DEF govVars
  <2>2. semQueue' \in Seq(Requests)
    BY <1>2, <2>1, AppendProperties
  <2>3. LateIsLast'
    BY <1>1, <1>2, <2>1 DEF LateIsLast, Gate!KillEngaged
  <2> QED
    BY <1>1, <1>2, <2>1, <2>2, <2>3 DEF RetryLeft, OneSendPerAttempt
<1>6. ASSUME NEW r \in Requests, Send(r) PROVE Goal
  <2>1. /\ pc[r] = "sem" /\ pc' = [pc EXCEPT ![r] = "inflight"]
        /\ semQueue # <<>> /\ semQueue' = Tail(semQueue)
        /\ sent' = [sent EXCEPT ![r] = @ + 1]
        /\ late' = [late EXCEPT ![r] = IF Gate!KillEngaged THEN @ + 1 ELSE @]
        /\ UNCHANGED <<attempt, killed, killFile>>
    BY <1>1, <1>6, HeadWaits DEF Send, Goto, govVars
  <2>2. semQueue' \in Seq(Requests)
    BY <1>2, <2>1, HeadTailProperties
  <2>3. late[r] = 0
    BY <1>1, <2>1 DEF LateIsLast
  <2>4. LateIsLast'
    <3>1. Gate!KillEngaged' <=> Gate!KillEngaged
      BY <2>1 DEF Gate!KillEngaged
    <3>2. \A s \in Requests \ {r} : late'[s] = late[s] /\ pc'[s] = pc[s]
      BY <1>2, <2>1
    <3>3. late'[r] = (IF Gate!KillEngaged THEN 1 ELSE 0) /\ pc'[r] = "inflight"
      BY <1>2, <2>1, <2>3
    <3>4. \A s \in Requests \ {r} :
            /\ late'[s] \in {0, 1}
            /\ late'[s] = 1 => /\ Gate!KillEngaged'
                              /\ pc'[s] \in {"inflight", "backoff"} \cup Ended
      BY <1>1, <3>1, <3>2 DEF LateIsLast
    <3>5. late'[r] \in {0, 1} /\ (late'[r] = 1 => Gate!KillEngaged' /\ pc'[r] = "inflight")
      BY <3>1, <3>3
    <3> QED
      <4> SUFFICES ASSUME NEW s \in Requests
                   PROVE  /\ late'[s] \in {0, 1}
                          /\ late'[s] = 1 => /\ Gate!KillEngaged'
                                            /\ pc'[s] \in {"inflight", "backoff"} \cup Ended
        BY DEF LateIsLast, Ended
      <4> QED  BY <3>4, <3>5
  <2>5. late' \in [Requests -> Nat] /\ sent' \in [Requests -> Nat]
    <3>1. late[r] \in Nat /\ sent[r] \in Nat
      BY <1>2
    <3>2. late' \in [Requests -> Nat]
      BY <1>2, <2>1, <3>1
    <3>3. sent' \in [Requests -> Nat]
      BY <1>2, <2>1, <3>1
    <3> QED  BY <3>2, <3>3
  <2>6. OneSendPerAttempt'
    <3>1. /\ pc[r] = "sem" /\ pc' = [pc EXCEPT ![r] = "inflight"]
          /\ sent' = [sent EXCEPT ![r] = sent[r] + 1] /\ attempt' = attempt
      BY <2>1
    <3>2. sent[r] = attempt[r]
      <4>1. sent[r] = attempt[r] + 0
        BY <1>1, <3>1 DEF OneSendPerAttempt
      <4>2. attempt[r] \in Int
        BY <1>2
      <4> QED
        BY <4>1, <4>2
    <3> QED
      BY <1>1, <1>2, <3>1, <3>2, SMTT(30) DEF OneSendPerAttempt
  <2> QED
    BY <1>1, <1>2, <2>1, <2>2, <2>4, <2>5, <2>6 DEF RetryLeft
<1>7. ASSUME NEW r \in Requests, TooMany(r) \/ Respond(r) \/ Fail(r) PROVE Goal
  <2>1. /\ pc[r] = "inflight"
        /\ \E place \in {"backoff", "done", "failed"} :
             /\ pc' = [pc EXCEPT ![r] = place]
             /\ place = "backoff" => attempt[r] < MaxRetries
        /\ UNCHANGED <<attempt, semQueue, sent, late, killed, killFile>>
    BY <1>7 DEF TooMany, Respond, Fail, Leave, Goto, govVars
  <2>2. RetryLeft'
    BY <1>1, <1>2, <2>1 DEF RetryLeft
  <2>3. OneSendPerAttempt'
    BY <1>1, <1>2, <2>1, SMTT(30) DEF OneSendPerAttempt
  <2>4. LateIsLast'
    BY <1>1, <1>2, <2>1 DEF LateIsLast, Gate!KillEngaged
  <2> QED
    BY <1>2, <2>1, <2>2, <2>3, <2>4
<1>8. CASE WaitForToken \/ Tick \/ UNCHANGED vars
  <2>1. UNCHANGED <<clientVars, killed, killFile>>
    BY <1>8 DEF WaitForToken, Tick, vars, govVars
  <2> QED
    BY <1>1, <1>2, <2>1
       DEF clientVars, RetryLeft, OneSendPerAttempt, LateIsLast, Gate!KillEngaged
<1>9. CASE Environment
  <2>1. /\ late' = IF Gate!KillEngaged' THEN late ELSE [r \in Requests |-> 0]
        /\ UNCHANGED <<pc, attempt, permits, semQueue, sent>>
    BY <1>9 DEF Environment
  <2>2. late' \in [Requests -> Nat]
    BY <1>2, <2>1
  <2>3. LateIsLast'
    BY <1>1, <2>1 DEF LateIsLast
  <2> QED
    BY <1>1, <1>2, <2>1, <2>2, <2>3 DEF RetryLeft, OneSendPerAttempt
<1> QED
  BY <1>3, <1>4, <1>5, <1>6, <1>7, <1>8, <1>9 DEF Next

(* The invariant holds when no request has begun.                          *)
LEMMA EgressInit == Init => EgressInv
<1> SUFFICES ASSUME Init PROVE EgressInv
  OBVIOUS
<1>1. Bucket!TypeOK /\ Gate!GovTypeOK
  BY BucketKeepsTypes, GateKeepsTypes DEF Init
<1>2. queue = <<>> /\ semQueue = <<>> /\ semQueue \in Seq(Requests)
  BY EmptySeq DEF Init, Bucket!Init
<1>3. /\ pc = [r \in Requests |-> "new"] /\ attempt = [r \in Requests |-> 0]
      /\ sent = [r \in Requests |-> 0] /\ late = [r \in Requests |-> 0]
      /\ permits = MaxConcurrency
  BY DEF Init
<1>4. TypeOK
  BY <1>1, <1>2, <1>3, EgressAssumption DEF TypeOK
<1>5. Lines
  BY <1>2, EmptySeq DEF Lines
<1>6. PermitsConserved
  <2>1. InFlight = {}
    BY <1>3 DEF InFlight
  <2> QED
    BY <1>3, <2>1, FS_EmptySet, EgressAssumption DEF PermitsConserved
<1>7. RetryLeft /\ OneSendPerAttempt /\ LateIsLast
  BY <1>3 DEF RetryLeft, OneSendPerAttempt, LateIsLast
<1> QED
  BY <1>4, <1>5, <1>6, <1>7 DEF EgressInv

(* Every step of the client preserves the invariant.                       *)
LEMMA EgressStep == EgressInv /\ [Next]_vars => EgressInv'
<1> SUFFICES ASSUME EgressInv, [Next]_vars PROVE EgressInv'
  OBVIOUS
<1>1. TypeOK /\ Lines /\ PermitsConserved
  BY DEF EgressInv
<1>2. Bucket!TypeOK'
  BY <1>1, BucketKeepsTypes, StepOfBucket DEF TypeOK
<1>3. Gate!GovTypeOK'
  BY <1>1, GateKeepsTypes DEF TypeOK
<1>4. TypeOK'
  BY <1>1, <1>2, <1>3, PermitsStep, CountsStep DEF TypeOK
<1> QED
  BY <1>1, <1>4, LinesStep, PermitsStep, CountsStep DEF EgressInv

(* The inductive invariant holds of every run (client.py:52-63,            *)
(* governor.py:133-137).                                                   *)
THEOREM EgressInvariant == Spec => []EgressInv
BY EgressInit, EgressStep, PTL DEF Spec

(* Every variable keeps its type: in particular no queue ever holds        *)
(* anything but requests, and no retry is counted beyond max_retries       *)
(* (client.py:52-63).                                                      *)
THEOREM TypeCorrect == Spec => []TypeOK
<1>1. EgressInv => TypeOK
  BY DEF EgressInv
<1> QED
  BY <1>1, EgressInvariant, PTL

(* The semaphore neither leaks nor forges permits, for every cap and every *)
(* number of requests (client.py:55-57).                                   *)
THEOREM PermitsAreConserved == Spec => []PermitsConserved
<1>1. EgressInv => PermitsConserved
  BY DEF EgressInv
<1> QED
  BY <1>1, EgressInvariant, PTL

(* However many requests queue for tokens and permits when the kill switch *)
(* is engaged, each costs one more send at most (governor.py:133-137).     *)
THEOREM KillIsPrompt == Spec => []KillCostsOneSend
<1>1. EgressInv => KillCostsOneSend
  BY DEF EgressInv, LateIsLast, KillCostsOneSend
<1> QED
  BY <1>1, EgressInvariant, PTL

----------------------------------------------------------------------------

(* A cleared request has a host admitted by its name or by a pinned        *)
(* address, and a method that the scan may use.                            *)
PinnedInScope ==
  \A r \in Requests :
    pc[r] \in {"bucket", "sem", "inflight"} =>
      /\ HostOf[r] \in AllowHosts \/ pinned[HostOf[r]] \in AllowNets
      /\ MethodOf[r] \in Gate!WRITE_METHODS => AllowWrites

(* A pin is never replaced.                                                *)
LEMMA PinsStay ==
  Gate!GovTypeOK /\ [Next]_vars =>
    \A h \in Hosts : pinned[h] # NoAddress => pinned'[h] = pinned[h]
<1> SUFFICES ASSUME Gate!GovTypeOK, [Next]_vars, NEW h \in Hosts, pinned[h] # NoAddress
             PROVE  pinned'[h] = pinned[h]
  OBVIOUS
<1>1. ASSUME NEW g \in Hosts, Gate!LookUp(g) PROVE pinned'[h] = pinned[h]
  BY <1>1 DEF Gate!LookUp, Gate!Resolved, Gate!GovTypeOK
<1>2. ASSUME Gate!Environment PROVE pinned'[h] = pinned[h]
  BY <1>2 DEF Gate!Environment, Gate!Kill, Gate!ToggleKillFile, Gate!DnsChange
<1>3. ASSUME UNCHANGED govVars PROVE pinned'[h] = pinned[h]
  BY <1>3 DEF govVars
<1> QED
  BY <1>1, <1>2, <1>3, StepOfGate

(* With pinning on, what waits or is in flight remains in scope.           *)
LEMMA ScopeStep ==
  PinDns /\ TypeOK /\ Lines /\ PinnedInScope /\ [Next]_vars => PinnedInScope'
<1> SUFFICES ASSUME PinDns, TypeOK, Lines, PinnedInScope, [Next]_vars,
                    NEW s \in Requests, pc'[s] \in {"bucket", "sem", "inflight"}
             PROVE  /\ HostOf[s] \in AllowHosts \/ pinned'[HostOf[s]] \in AllowNets
                    /\ MethodOf[s] \in Gate!WRITE_METHODS => AllowWrites
  BY DEF PinnedInScope
<1>1. HostOf[s] \in Hosts /\ NoAddress \notin AllowNets
  BY EgressAssumption
<1>2. DOMAIN pc = Requests /\ Gate!GovTypeOK
  BY DEF TypeOK
<1>3. ASSUME pc[s] \in {"bucket", "sem", "inflight"}
      PROVE  /\ HostOf[s] \in AllowHosts \/ pinned'[HostOf[s]] \in AllowNets
             /\ MethodOf[s] \in Gate!WRITE_METHODS => AllowWrites
  <2>1. pinned[HostOf[s]] \in AllowNets => pinned'[HostOf[s]] = pinned[HostOf[s]]
    BY <1>1, <1>2, PinsStay
  <2> QED
    BY <1>3, <2>1 DEF PinnedInScope
<1>4. ASSUME NEW r \in Requests, PassGuard(r), r = s
      PROVE  /\ HostOf[s] \in AllowHosts \/ pinned'[HostOf[s]] \in AllowNets
             /\ MethodOf[s] \in Gate!WRITE_METHODS => AllowWrites
  <2>1. /\ Gate!InScope(HostOf[s]) /\ Gate!LookUp(HostOf[s])
        /\ MethodOf[s] \in Gate!WRITE_METHODS => AllowWrites
    BY <1>4 DEF PassGuard, Gate!Allow
  <2>2. HostOf[s] \notin AllowHosts => pinned'[HostOf[s]] \in AllowNets
    BY <1>1, <1>2, <2>1 DEF Gate!InScope, Gate!LookUp, Gate!GovTypeOK
  <2> QED
    BY <2>1, <2>2
<1>5. pc[s] \in {"bucket", "sem", "inflight"} \/ PassGuard(s)
  <2>1. ASSUME NEW r \in Requests, PassGuard(r) \/ RefusedByGuard(r)
        PROVE  pc[s] \in {"bucket", "sem", "inflight"} \/ PassGuard(s)
    BY <1>2, <2>1 DEF PassGuard, RefusedByGuard, Goto
  <2>2. ASSUME NEW r \in Requests, GetToken(r) \/ Send(r)
        PROVE  pc[s] \in {"bucket", "sem", "inflight"}
    BY <1>2, <2>2, GetTokenFacts, HeadWaits DEF Send, Goto
  <2>3. ASSUME NEW r \in Requests, TooMany(r) \/ Respond(r) \/ Fail(r)
        PROVE  pc[s] \in {"bucket", "sem", "inflight"}
    BY <1>2, <2>3 DEF TooMany, Respond, Fail, Leave, Goto
  <2>4. CASE WaitForToken \/ Tick \/ Environment \/ UNCHANGED vars
    BY <2>4 DEF WaitForToken, Tick, Environment, vars, clientVars
  <2> QED
    BY <2>1, <2>2, <2>3, <2>4 DEF Next
<1> QED
  BY <1>3, <1>4, <1>5

(* With pinning on, as the CLI always has it, what the gate found of a     *)
(* request still holds when it is sent and answered, whatever the resolver *)
(* has answered since (governor.py:98-131).                                *)
THEOREM ClearanceLasts == PinDns => (Spec => []ClearedWhileOnItsWay)
<1> SUFFICES ASSUME PinDns PROVE Spec => []ClearedWhileOnItsWay
  OBVIOUS
<1>1. Init => PinnedInScope
  BY DEF Init, PinnedInScope
<1>2. EgressInv /\ PinnedInScope /\ [Next]_vars => PinnedInScope'
  BY ScopeStep DEF EgressInv
<1>3. EgressInv /\ PinnedInScope => ClearedWhileOnItsWay
  <2> SUFFICES ASSUME PinnedInScope, NEW r \in Requests,
                      pc[r] \in {"bucket", "sem", "inflight"}
               PROVE  /\ Gate!InScope(HostOf[r])
                      /\ MethodOf[r] \in Gate!WRITE_METHODS => AllowWrites
    BY DEF ClearedWhileOnItsWay
  <2> QED
    BY EgressAssumption DEF PinnedInScope, Gate!InScope, Gate!Resolved
<1> QED
  BY <1>1, <1>2, <1>3, EgressInvariant, PTL DEF Spec

----------------------------------------------------------------------------

(* The phase of a request at a given place.                                *)
PhaseAt(place) ==
  CASE place \in {"new", "backoff"} -> "out"
    [] place \in {"bucket", "sem"} -> "admitted"
    [] place = "inflight" -> "inflight"
    [] OTHER -> "ended"

(* A move of pc is the corresponding move of the phase, and no other.      *)
LEMMA PhaseMoves ==
  ASSUME TypeOK, NEW r \in Requests, NEW place, pc' = [pc EXCEPT ![r] = place]
  PROVE  Phase' = [Phase EXCEPT ![r] = PhaseAt(place)] /\ Phase[r] = PhaseAt(pc[r])
<1>1. DOMAIN pc = Requests
  BY DEF TypeOK
<1>2. \A s \in Requests : pc'[s] = IF s = r THEN place ELSE pc[s]
  BY <1>1
<1>3. \A s \in Requests : Phase'[s] = PhaseAt(pc'[s]) /\ Phase[s] = PhaseAt(pc[s])
  BY DEF Phase, PhaseAt
<1>4. Phase = [s \in Requests |-> Phase[s]] /\ Phase' = [s \in Requests |-> Phase'[s]]
  BY DEF Phase
<1>5. \A s \in Requests : Phase'[s] = IF s = r THEN PhaseAt(place) ELSE Phase[s]
  BY <1>2, <1>3
<1> QED
  BY <1>3, <1>4, <1>5

(* Every step of the client is a step of PoliteClient or a stutter.        *)
LEMMA PoliteStep == EgressInv /\ [Next]_vars => [Polite!Next]_(Polite!politeVars)
<1> SUFFICES ASSUME EgressInv, [Next]_vars
             PROVE  Polite!Next \/ UNCHANGED <<Phase, sent, Gate!KillEngaged>>
  BY DEF Polite!politeVars
<1>1. TypeOK /\ Lines /\ RetryLeft /\ PermitsConserved /\ OneSendPerAttempt
  BY DEF EgressInv
<1>2. \A r \in Requests : attempt[r] \in 0..MaxRetries /\ MaxRetries \in Nat
  BY <1>1, EgressAssumption DEF TypeOK
<1>3. Polite!InFlight = InFlight
  BY DEF Polite!InFlight, InFlight, Phase
<1>4. ASSUME NEW r \in Requests, PassGuard(r) PROVE Polite!Next
  <2>1. /\ pc[r] \in {"new", "backoff"} /\ pc' = [pc EXCEPT ![r] = "bucket"]
        /\ UNCHANGED sent /\ ~Gate!KillEngaged /\ UNCHANGED <<killed, killFile>>
    BY <1>4 DEF PassGuard, AtGuard, Goto, Gate!Allow, Gate!LookUp
  <2>2. Phase[r] = "out" /\ Phase' = [Phase EXCEPT ![r] = "admitted"]
    BY <1>1, <2>1, PhaseMoves DEF PhaseAt
  <2>3. sent[r] < MaxRetries + 1
    BY <1>1, <1>2, <2>1, SMTT(30) DEF OneSendPerAttempt, RetryLeft
  <2>4. UNCHANGED Gate!KillEngaged
    BY <2>1 DEF Gate!KillEngaged
  <2>5. Polite!Admit(r)
    BY <2>1, <2>2, <2>3, <2>4 DEF Polite!Admit
  <2> QED
    BY <2>5 DEF Polite!Next
<1>5. ASSUME NEW r \in Requests, RefusedByGuard(r) PROVE Polite!Next
  <2>1. /\ pc[r] \in {"new", "backoff"} /\ pc' = [pc EXCEPT ![r] = "refused"]
        /\ UNCHANGED <<sent, killed, killFile>>
    BY <1>5 DEF RefusedByGuard, AtGuard, Goto, Gate!Refuse, Gate!RaiseKillSwitch,
                Gate!govVars, Gate!RaiseOutOfScope, Gate!RaiseNonDestructive, Gate!LookUp
  <2>2. Phase[r] = "out" /\ Phase' = [Phase EXCEPT ![r] = "ended"]
    <3>1. PhaseAt(pc[r]) = "out" /\ PhaseAt("refused") = "ended"
      BY <2>1 DEF PhaseAt
    <3>2. pc' = [pc EXCEPT ![r] = "refused"]
      BY <2>1
    <3> QED
      BY <1>1, <3>1, <3>2, PhaseMoves
  <2>3. UNCHANGED Gate!KillEngaged
    BY <2>1 DEF Gate!KillEngaged
  <2>4. Polite!End(r)
    BY <2>1, <2>2, <2>3 DEF Polite!End
  <2> QED
    BY <2>4 DEF Polite!Next
<1>6. ASSUME NEW r \in Requests, GetToken(r)
      PROVE  UNCHANGED <<Phase, sent, Gate!KillEngaged>>
  <2>1. /\ pc[r] = "bucket" /\ pc' = [pc EXCEPT ![r] = "sem"]
        /\ UNCHANGED <<sent, killed, killFile>>
    BY <1>1, <1>6, GetTokenFacts DEF govVars
  <2>2. Phase[r] = "admitted" /\ Phase' = [Phase EXCEPT ![r] = "admitted"]
    BY <1>1, <2>1, PhaseMoves DEF PhaseAt
  <2>3. Phase' = Phase
    BY <2>2 DEF Phase
  <2> QED
    BY <2>1, <2>3 DEF Gate!KillEngaged
<1>7. ASSUME NEW r \in Requests, Send(r) PROVE Polite!Next
  <2>1. /\ pc[r] = "sem" /\ pc' = [pc EXCEPT ![r] = "inflight"]
        /\ permits > 0 /\ sent' = [sent EXCEPT ![r] = @ + 1]
        /\ UNCHANGED <<killed, killFile>>
    BY <1>1, <1>7, HeadWaits DEF Send, Goto, govVars
  <2>2. Phase[r] = "admitted" /\ Phase' = [Phase EXCEPT ![r] = "inflight"]
    BY <1>1, <2>1, PhaseMoves DEF PhaseAt
  <2>3. Polite!Cardinality(Polite!InFlight) < MaxConcurrency
    <3>1. Cardinality(InFlight) \in Nat
      BY <1>1, <2>1, InFlightCount
    <3>2. Cardinality(InFlight) < MaxConcurrency
      BY <1>1, <2>1, <3>1, EgressAssumption DEF PermitsConserved, TypeOK
    <3>3. Polite!Cardinality(InFlight) = Cardinality(InFlight)
      BY DEF Cardinality, Polite!Cardinality, IsFiniteSet, Polite!IsFiniteSet
    <3> QED
      BY <1>3, <3>2, <3>3
  <2>4. UNCHANGED Gate!KillEngaged
    BY <2>1 DEF Gate!KillEngaged
  <2>5. sent' = [sent EXCEPT ![r] = sent[r] + 1]
    BY <2>1
  <2>6. Polite!Send(r)
    BY <2>2, <2>3, <2>4, <2>5 DEF Polite!Send
  <2> QED
    BY <2>6 DEF Polite!Next
<1>8. ASSUME NEW r \in Requests, TooMany(r) PROVE Polite!Next
  <2>1. /\ pc[r] = "inflight" /\ pc' = [pc EXCEPT ![r] = "backoff"]
        /\ attempt[r] < MaxRetries /\ UNCHANGED <<sent, killed, killFile>>
    BY <1>8 DEF TooMany, Leave, Goto, govVars
  <2>2. Phase[r] = "inflight" /\ Phase' = [Phase EXCEPT ![r] = "out"]
    BY <1>1, <2>1, PhaseMoves DEF PhaseAt
  <2>3. sent[r] < MaxRetries + 1
    BY <1>1, <1>2, <2>1, SMTT(30) DEF OneSendPerAttempt
  <2>4. UNCHANGED Gate!KillEngaged
    BY <2>1 DEF Gate!KillEngaged
  <2>5. Polite!PutOff(r)
    BY <2>1, <2>2, <2>3, <2>4 DEF Polite!PutOff
  <2> QED
    BY <2>5 DEF Polite!Next
<1>9. ASSUME NEW r \in Requests, Respond(r) \/ Fail(r) PROVE Polite!Next
  <2>1. PICK place \in {"done", "failed"} :
           /\ pc[r] = "inflight" /\ pc' = [pc EXCEPT ![r] = place]
           /\ UNCHANGED <<sent, killed, killFile>>
    BY <1>9 DEF Respond, Fail, Leave, Goto, govVars
  <2>2. Phase[r] = "inflight" /\ Phase' = [Phase EXCEPT ![r] = "ended"]
    BY <1>1, <2>1, PhaseMoves DEF PhaseAt
  <2>3. UNCHANGED Gate!KillEngaged
    BY <2>1 DEF Gate!KillEngaged
  <2>4. Polite!End(r)
    BY <2>1, <2>2, <2>3 DEF Polite!End
  <2> QED
    BY <2>4 DEF Polite!Next
<1>10. CASE WaitForToken \/ Tick \/ UNCHANGED vars
  BY <1>10 DEF WaitForToken, Tick, vars, clientVars, govVars, Phase, Gate!KillEngaged
<1>11. CASE Environment
  <2>1. UNCHANGED <<Phase, sent>>
    BY <1>11 DEF Environment, Phase
  <2>2. Gate!KillEngaged \in BOOLEAN /\ Gate!KillEngaged' \in BOOLEAN
    BY DEF Gate!KillEngaged
  <2>3. Gate!KillEngaged' = Gate!KillEngaged \/ Gate!KillEngaged' = ~Gate!KillEngaged
    BY <2>2
  <2>4. CASE Gate!KillEngaged' = ~Gate!KillEngaged
    BY <2>1, <2>4 DEF Polite!Next, Polite!StopOrResume
  <2> QED
    BY <2>1, <2>3, <2>4
<1> QED
  BY <1>4, <1>5, <1>6, <1>7, <1>8, <1>9, <1>10, <1>11 DEF Next

(* The client with its governor is a PoliteClient, whatever the number of  *)
(* requests, the rate, the caps and the retries: each send spends its own  *)
(* admission, and none is given after a stop (client.py:52-63,             *)
(* governor.py:122-137).                                                   *)
THEOREM ClientIsPolite == Spec => ImplementsPoliteClient
<1>1. Init => Polite!Init
  <2> SUFFICES ASSUME Init PROVE Polite!Init
    OBVIOUS
  <2>1. Phase = [r \in Requests |-> "out"]
    BY DEF Init, Phase
  <2>2. Gate!KillEngaged \in BOOLEAN
    BY DEF Gate!KillEngaged
  <2> QED
    BY <2>1, <2>2 DEF Init, Polite!Init
<1> QED
  BY <1>1, EgressInvariant, PoliteStep, PTL DEF Spec, ImplementsPoliteClient, Polite!Spec

=============================================================================
