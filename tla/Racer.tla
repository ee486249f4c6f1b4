------------------------------- MODULE Racer -------------------------------
(***************************************************************************)
(* The race command: SinglePacketRacer of authdiff/network/racer.py opens  *)
(* a stream per request, holds back the last byte of each, sends all last  *)
(* bytes together and collects one status per stream until it has them     *)
(* all, the connection closes, or 30 seconds have passed;                  *)
(* RaceInvariantOracle of authdiff/core/oracles.py counts the successes.   *)
(*                                                                         *)
(* The server is the coupon of testlab/app.py, a check and an act with     *)
(* nothing to keep them together, or one that does both at once.  It may   *)
(* start on a stream as soon as its headers are there, fail or reset it,   *)
(* before or after it acted, and close the connection.                     *)
(***************************************************************************)
EXTENDS Integers, Sequences, FiniteSets

CONSTANTS
  Streams,   \* the streams, n of them
  Capacity   \* COUPON["remaining"] at first, and seeded_capacity

ASSUME RaceAssumption == IsFiniteSet(Streams) /\ Capacity \in Nat

VARIABLES
  phase,     \* "connect", "held", "reading", "done", or "raised"
  statuses,  \* the dict: a function on the streams answered
  wire,      \* what the server sent and the client has not read
  closed,    \* the server closed the connection
  handler,   \* of each stream: how far the server is with it
  remaining, \* COUPON["remaining"]
  loaded,    \* of each stream: the value that -= has read
  atomic     \* the server checks and acts at once

clientVars == <<phase, statuses>>
serverVars == <<wire, closed, handler, remaining, loaded, atomic>>
vars == <<clientVars, serverVars>>

Init ==
  /\ phase = "connect"
  /\ statuses = <<>>
  /\ wire = <<>>
  /\ closed = FALSE
  /\ handler = [s \in Streams |-> "none"]
  /\ remaining = Capacity
  /\ loaded = [s \in Streams |-> 0]
  /\ atomic \in BOOLEAN

Answered == DOMAIN statuses

(* Mutant: the loop ends one answer early.                                 *)
CollectingButOne == Cardinality(Answered) < Cardinality(Streams) - 1

(* while len(statuses) < n                                                 *)
Collecting == Cardinality(Answered) < Cardinality(Streams)

----------------------------------------------------------------------------

(* Every stream gets its headers and its body up to the last byte.         *)
SendPrelude ==
  /\ phase = "connect"
  /\ phase' = "held"
  /\ UNCHANGED <<statuses, serverVars>>

(* The last bytes go out together.                                         *)
SendLastBytes ==
  /\ phase = "held"
  /\ ~closed
  /\ phase' = "reading"
  /\ UNCHANGED <<statuses, serverVars>>

Event(s, kind, status) == [stream |-> s, kind |-> kind, status |-> status]

In(chunk, s, kind) == \E e \in chunk : e.stream = s /\ e.kind = kind

(* Mutant: the end of a stream overwrites its status.                      *)
StatusOverwritten(chunk, s) ==
  IF In(chunk, s, "ended") THEN -1
  ELSE IF In(chunk, s, "response")
       THEN (CHOOSE e \in chunk : e.stream = s /\ e.kind = "response").status
       ELSE statuses[s]

(* Mutant: the end of a stream clears it.                                  *)
StatusCleared(chunk, s) ==
  IF In(chunk, s, "ended") THEN 0
  ELSE IF In(chunk, s, "response")
       THEN (CHOOSE e \in chunk : e.stream = s /\ e.kind = "response").status
       ELSE statuses[s]

(* A response sets the status of its stream, the end of a stream sets it   *)
(* to -1 if it has none; a reset is passed over.                           *)
Status(chunk, s) ==
  IF In(chunk, s, "response")
  THEN (CHOOSE e \in chunk : e.stream = s /\ e.kind = "response").status
  ELSE IF s \in Answered THEN statuses[s] ELSE -1

Heard(chunk) == {s \in Streams : In(chunk, s, "response") \/ In(chunk, s, "ended")}

(* One chunk is read, with as many events as it holds.                     *)
Read(length) ==
  /\ phase = "reading"
  /\ Collecting
  /\ length \in 1..Len(wire)
  /\ LET chunk == {wire[n] : n \in 1..length}
     IN  statuses' = [s \in Answered \cup Heard(chunk) |->
                        IF s \in Heard(chunk) THEN Status(chunk, s) ELSE statuses[s]]
  /\ wire' = SubSeq(wire, length + 1, Len(wire))
  /\ UNCHANGED <<phase, closed, handler, remaining, loaded, atomic>>

(* All streams have a status, or the connection has ended.                 *)
Return ==
  /\ phase = "reading"
  /\ ~Collecting \/ (closed /\ wire = <<>>)
  /\ phase' = "done"
  /\ UNCHANGED <<statuses, serverVars>>

(* wait_for gives up, or the connection cannot be made or written to.      *)
Raise ==
  /\ phase \in {"connect", "held", "reading"}
  /\ phase' = "raised"
  /\ UNCHANGED <<statuses, serverVars>>

----------------------------------------------------------------------------

(* The server can work on stream s.                                        *)
Handling(s, place) ==
  /\ phase # "connect"
  /\ ~closed
  /\ handler[s] = place

Reply(s, status, place) ==
  /\ handler' = [handler EXCEPT ![s] = place]
  /\ wire' = wire \o <<Event(s, "response", status), Event(s, "ended", status)>>

(* The handler raises, for which there is a 500, or the stream is reset.   *)
Fails(s, place) ==
  \/ Reply(s, 500, place)
  \/ /\ handler' = [handler EXCEPT ![s] = place]
     /\ wire' = Append(wire, Event(s, "reset", 0))

(* redeem: the check, 409 if nothing is left.                              *)
Check(s) ==
  /\ ~atomic
  /\ Handling(s, "none")
  /\ IF remaining > 0
     THEN handler' = [handler EXCEPT ![s] = "checked"] /\ UNCHANGED wire
     ELSE Reply(s, 409, "refused")
  /\ UNCHANGED <<clientVars, closed, remaining, loaded, atomic>>

(* redeem: -= reads ...                                                    *)
Load(s) ==
  /\ Handling(s, "checked")
  /\ handler' = [handler EXCEPT ![s] = "loaded"]
  /\ loaded' = [loaded EXCEPT ![s] = remaining]
  /\ UNCHANGED <<clientVars, wire, closed, remaining, atomic>>

(* ... and writes, and the answer says so, or fails.                       *)
Store(s) ==
  /\ Handling(s, "loaded")
  /\ remaining' = loaded[s] - 1
  /\ Reply(s, 200, "granted") \/ Fails(s, "botched")
  /\ UNCHANGED <<clientVars, closed, loaded, atomic>>

(* A server that checks and acts at once.                                  *)
Redeem(s) ==
  /\ atomic
  /\ Handling(s, "none")
  /\ IF remaining > 0
     THEN /\ remaining' = remaining - 1
          /\ Reply(s, 200, "granted") \/ Fails(s, "botched")
     ELSE Reply(s, 409, "refused") /\ UNCHANGED remaining
  /\ UNCHANGED <<clientVars, closed, loaded, atomic>>

(* A server that fails before it acts, or takes no more streams.           *)
Fault(s) ==
  /\ \E place \in {"none", "checked", "loaded"} : Handling(s, place)
  /\ Fails(s, "refused")
  /\ UNCHANGED <<clientVars, closed, remaining, loaded, atomic>>

Close ==
  /\ phase # "connect"
  /\ ~closed
  /\ closed' = TRUE
  /\ UNCHANGED <<clientVars, wire, handler, remaining, loaded, atomic>>

Client ==
  \/ SendPrelude
  \/ SendLastBytes
  \/ \E length \in 1..Len(wire) : Read(length)
  \/ Return
  \/ Raise

Server ==
  \/ \E s \in Streams :
       Check(s) \/ Load(s) \/ Store(s) \/ Redeem(s) \/ Fault(s)
  \/ Close

Next == Client \/ Server

Spec == Init /\ [][Next]_vars

----------------------------------------------------------------------------

(* Mutant: whatever was not refused counts as a success.                   *)
SuccessesUnrefused == {s \in Answered : statuses[s] # 409}

(* RaceInvariantOracle: a 2xx is a success, and more of them than the      *)
(* seeded capacity are a finding.                                          *)
Successes == {s \in Answered : statuses[s] = 200}
Reported == phase = "done" /\ Cardinality(Successes) > Capacity

(* What the server granted, and what it also confirmed.                    *)
Granted == {s \in Streams : handler[s] \in {"granted", "botched"}}
Confirmed == {s \in Streams : handler[s] = "granted"}

(* The handler of a stream is done.                                        *)
Over == {"granted", "botched", "refused"}

Events == [stream : Streams, kind : {"response", "ended", "reset"}, status : {0, 200, 409, 500}]

(* Types of the variables (racer.py:62-84, app.py:21).                     *)
TypeOK ==
  /\ phase \in {"connect", "held", "reading", "done", "raised"}
  /\ Answered \subseteq Streams
  /\ \A s \in Answered : statuses[s] \in {200, 409, 500, -1}
  /\ wire \in Seq(Events)
  /\ closed \in BOOLEAN
  /\ handler \in [Streams -> {"none", "checked", "loaded"} \cup Over]
  /\ remaining \in Int
  /\ loaded \in [Streams -> Int]
  /\ atomic \in BOOLEAN

(* What the server sent tells how its handler ended.  The response of a    *)
(* stream is the first that the client hears of it, and comes once; the    *)
(* end of a stream comes after its response.                               *)
OnTheWire(n) ==
  LET e == wire[n]
  IN  /\ handler[e.stream] \in Over
      /\ e.kind = "response" =>
           /\ e.status # 0
           /\ e.status = 200 <=> handler[e.stream] = "granted"
           /\ e.stream \notin Answered
           /\ \A m \in 1..(n - 1) : wire[m].stream # e.stream
      /\ e.kind = "ended" =>
           \/ e.stream \in Answered
           \/ \E m \in 1..(n - 1) : wire[m].stream = e.stream /\ wire[m].kind = "response"

(* An atomic server gives away what it has.                                *)
Conserved ==
  atomic => /\ remaining \in Nat
            /\ Cardinality(Granted) + remaining = Capacity
            /\ \A s \in Streams : handler[s] \notin {"checked", "loaded"}

(* The inductive invariant behind the theorems of RacerProofs              *)
(* (racer.py:84-106, app.py:50-56).                                        *)
RaceInv ==
  /\ TypeOK
  /\ \A n \in 1..Len(wire) : OnTheWire(n)
  /\ \A s \in Answered : /\ handler[s] \in Over
                         /\ statuses[s] = 200 <=> handler[s] = "granted"
  /\ Conserved
  /\ phase = "done" => closed \/ Answered = Streams

(* What is reported as proven has happened: the server did grant more than *)
(* the capacity, which one that checks and acts at once never does,        *)
(* however its answers were cut into chunks (oracles.py:133-143,           *)
(* racer.py:84-106).                                                       *)
ReportedWasGranted ==
  Reported => Cardinality(Granted) > Capacity /\ ~atomic

(* A race that comes to its end over an open connection misses nothing: if *)
(* the server granted too much, and said so, it is reported (racer.py:84-  *)
(* 106).                                                                   *)
GrantedIsReported ==
  phase = "done" /\ ~closed /\ Cardinality(Confirmed) > Capacity => Reported

(* A stream keeps the status of its response (racer.py:91, 95).            *)
StatusIsFinal ==
  [][\A s \in Answered : s \in DOMAIN statuses' /\ statuses'[s] = statuses[s]]_vars

=============================================================================
