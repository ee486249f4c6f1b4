---------------------------- MODULE PoliteClient ----------------------------
(***************************************************************************)
(* What the governor and the HTTP client together promise of the traffic   *)
(* of a run, whatever the order of the coroutines: every send spends an    *)
(* admission, an admission is only given while the run is not stopped and  *)
(* is good for one send, at most Cap sends are in flight, and a request is *)
(* sent at most Sends times.  A stop therefore costs each request at most  *)
(* the one send it was admitted for.                                       *)
(***************************************************************************)
EXTENDS Integers, FiniteSets

CONSTANTS
  Requests,
  Cap,      \* sends in flight at once
  Sends     \* sends of one request

VARIABLES
  phase,    \* "out", "admitted", "inflight" or "ended"
  sends,    \* sends so far
  stopped   \* the kill switch is engaged

politeVars == <<phase, sends, stopped>>

InFlight == {r \in Requests : phase[r] = "inflight"}

Init ==
  /\ phase = [r \in Requests |-> "out"]
  /\ sends = [r \in Requests |-> 0]
  /\ stopped \in BOOLEAN

Admit(r) ==
  /\ phase[r] = "out"
  /\ ~stopped
  /\ sends[r] < Sends
  /\ phase' = [phase EXCEPT ![r] = "admitted"]
  /\ UNCHANGED <<sends, stopped>>

Send(r) ==
  /\ phase[r] = "admitted"
  /\ Cardinality(InFlight) < Cap
  /\ phase' = [phase EXCEPT ![r] = "inflight"]
  /\ sends' = [sends EXCEPT ![r] = @ + 1]
  /\ UNCHANGED stopped

(* The server asks for patience, and a send is left.                       *)
PutOff(r) ==
  /\ phase[r] = "inflight"
  /\ sends[r] < Sends
  /\ phase' = [phase EXCEPT ![r] = "out"]
  /\ UNCHANGED <<sends, stopped>>

(* An answer, a failure, or a refusal to admit.                            *)
End(r) ==
  /\ phase[r] \in {"out", "inflight"}
  /\ phase' = [phase EXCEPT ![r] = "ended"]
  /\ UNCHANGED <<sends, stopped>>

StopOrResume ==
  /\ stopped' = ~stopped
  /\ UNCHANGED <<phase, sends>>

Next ==
  \/ \E r \in Requests : Admit(r) \/ Send(r) \/ PutOff(r) \/ End(r)
  \/ StopOrResume

Spec == Init /\ [][Next]_politeVars

=============================================================================
