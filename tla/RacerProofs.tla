---------------------------- MODULE RacerProofs ----------------------------
(***************************************************************************)
(* Theorems about the race, for any number of streams, any capacity, any   *)
(* order of the handlers and any way of cutting the answers into chunks.   *)
(***************************************************************************)
EXTENDS Racer, SequenceTheorems, FiniteSetTheorems, TLAPS

(* The handlers are none, or done with, as long as nothing was answered.   *)
LEMMA InitEstablishes == Init => RaceInv
<1> SUFFICES ASSUME Init PROVE RaceInv
  OBVIOUS
<1> USE RaceAssumption DEF Init
<1>1. wire \in Seq(Events) /\ Len(wire) = 0
  BY EmptySeq
<1>2. Answered = {}
  BY DEF Answered
<1>3. closed \in BOOLEAN /\ atomic \in BOOLEAN
  OBVIOUS
<1>4. TypeOK
  BY <1>1, <1>2, <1>3 DEF TypeOK
<1>5. Granted = {}
  BY DEF Granted
<1>6. Conserved
  BY <1>5, FS_EmptySet DEF Conserved
<1> QED
  BY <1>1, <1>2, <1>4, <1>6 DEF RaceInv

(* What is on the wire, and what is known of it.                           *)
LEMMA WireTypes ==
  ASSUME TypeOK
  PROVE  /\ Len(wire) \in Nat
         /\ \A n \in 1..Len(wire) :
              /\ wire[n] \in Events
              /\ wire[n].stream \in Streams
              /\ wire[n].kind \in {"response", "ended", "reset"}
              /\ wire[n].status \in {0, 200, 409, 500}
<1>1. \A n \in 1..Len(wire) : wire[n] \in Events
  BY ElementOfSeq DEF TypeOK
<1>2. Len(wire) \in Nat
  BY LenProperties DEF TypeOK
<1> QED
  BY <1>1, <1>2 DEF Events

(* The server goes on with a stream it has not answered: what it said of   *)
(* the others stays true.                                                  *)
LEMMA OthersStay ==
  ASSUME RaceInv, NEW s \in Streams, handler[s] \notin Over,
         \A t \in Streams \ {s} : handler'[t] = handler[t], UNCHANGED statuses
  PROVE  /\ s \notin Answered
         /\ \A t \in Answered : handler'[t] = handler[t]
         /\ \A n \in 1..Len(wire) :
              /\ wire[n].stream # s
              /\ handler'[wire[n].stream] = handler[wire[n].stream]
         /\ Answered' = Answered
<1>1. s \notin Answered
  BY DEF RaceInv
<1>5. Answered' = Answered
  BY DEF Answered
<1>2. \A n \in 1..Len(wire) : wire[n].stream # s
  BY DEF RaceInv, OnTheWire
<1>4. \A t \in Answered : handler'[t] = handler[t]
  BY <1>1 DEF RaceInv, TypeOK
<1> QED
  BY <1>1, <1>2, <1>4, <1>5, WireTypes DEF RaceInv

(* An event that stays where it is on the wire, with the handler of its    *)
(* stream, stays true.                                                     *)
LEMMA EventStays ==
  ASSUME NEW n, OnTheWire(n), wire'[n] = wire[n],
         \A m \in 1..(n - 1) : wire'[m] = wire[m],
         handler'[wire[n].stream] = handler[wire[n].stream], Answered' = Answered
  PROVE  OnTheWire(n)'
<1> DEFINE e == wire[n]
<1>1. e.kind = "response" =>
        /\ e.status # 0
        /\ e.status = 200 <=> handler'[e.stream] = "granted"
        /\ e.stream \notin Answered'
        /\ \A m \in 1..(n - 1) : wire'[m].stream # e.stream
  BY DEF OnTheWire
<1>2. e.kind = "ended" =>
        \/ e.stream \in Answered'
        \/ \E m \in 1..(n - 1) : wire'[m].stream = e.stream /\ wire'[m].kind = "response"
  BY DEF OnTheWire
<1>3. handler'[e.stream] \in Over
  BY DEF OnTheWire
<1> QED
  BY <1>1, <1>2, <1>3 DEF OnTheWire

(* An answer is put on the wire behind all others.                         *)
LEMMA ReplyKeepsWire ==
  ASSUME RaceInv, NEW s \in Streams, handler[s] \notin Over,
         NEW status \in {200, 409, 500}, NEW place \in Over,
         status = 200 <=> place = "granted",
         Reply(s, status, place), UNCHANGED statuses
  PROVE  /\ wire' \in Seq(Events)
         /\ \A n \in 1..Len(wire') : OnTheWire(n)'
<1> DEFINE r == Event(s, "response", status)
           e == Event(s, "ended", status)
<1>1. r \in Events /\ e \in Events
  BY DEF Event, Events
<1>2. <<r, e>> \in Seq(Events) /\ Len(<<r, e>>) = 2 /\ <<r, e>>[1] = r /\ <<r, e>>[2] = e
  BY <1>1
<1>3. wire \in Seq(Events) /\ Len(wire) \in Nat
  BY WireTypes DEF RaceInv, TypeOK
<1>4. /\ wire' = wire \o <<r, e>>
      /\ handler'[s] = place
      /\ \A t \in Streams \ {s} : handler'[t] = handler[t]
  BY DEF Reply, RaceInv, TypeOK
<1> HIDE DEF r, e
<1>5. /\ wire' \in Seq(Events)
      /\ Len(wire') = Len(wire) + 2
      /\ \A n \in 1..Len(wire) : wire'[n] = wire[n]
      /\ wire'[Len(wire) + 1] = r
      /\ wire'[Len(wire) + 2] = e
  BY <1>2, <1>3, <1>4, ConcatProperties
<1>6. /\ s \notin Answered /\ Answered' = Answered
      /\ \A n \in 1..Len(wire) : /\ wire[n].stream # s
                                 /\ handler'[wire[n].stream] = handler[wire[n].stream]
  BY <1>4, OthersStay
<1>7. ASSUME NEW n \in 1..Len(wire') PROVE OnTheWire(n)'
  <2>1. CASE n \in 1..Len(wire)
    <3>1. OnTheWire(n) /\ wire'[n] = wire[n] /\ \A m \in 1..(n - 1) : wire'[m] = wire[m]
      BY <1>3, <1>5, <2>1 DEF RaceInv
    <3> QED  BY <1>6, <2>1, <3>1, EventStays
  <2>2. CASE n = Len(wire) + 1
    <3>1. wire'[n] = r /\ \A m \in 1..(n - 1) : wire'[m].stream # s
      BY <1>3, <1>5, <1>6, <2>2
    <3>2. wire'[n].kind = "response" /\ wire'[n].stream = s /\ wire'[n].status = status
      BY <3>1 DEF Event, r
    <3>3. s \notin Answered' /\ handler'[s] = place
      BY <1>4, <1>6
    <3> QED  BY <3>1, <3>2, <3>3 DEF OnTheWire
  <2>3. CASE n = Len(wire) + 2
    <3>1. wire'[n] = e /\ wire'[n - 1] = r /\ n - 1 \in 1..(n - 1)
      BY <1>3, <1>5, <2>3
    <3>2. /\ wire'[n].kind = "ended" /\ wire'[n].stream = s
          /\ wire'[n - 1].kind = "response" /\ wire'[n - 1].stream = s
      BY <3>1 DEF Event, r, e
    <3>3. handler'[s] = place
      BY <1>4
    <3> QED  BY <3>1, <3>2, <3>3 DEF OnTheWire
  <2> QED  BY <1>3, <1>5, <1>7, <2>1, <2>2, <2>3
<1> QED
  BY <1>5, <1>7

(* What the server counts when the handler of s ends or goes on.           *)
LEMMA GrantedNext ==
  ASSUME NEW s \in Streams, handler[s] \notin Over,
         \A t \in Streams \ {s} : handler'[t] = handler[t]
  PROVE  /\ Cardinality(Granted) \in Nat
         /\ handler'[s] \notin {"granted", "botched"} => Granted' = Granted
         /\ handler'[s] \in {"granted", "botched"} =>
              Cardinality(Granted') = Cardinality(Granted) + 1
<1>1. IsFiniteSet(Granted)
  BY RaceAssumption, FS_Subset DEF Granted
<1>2. Cardinality(Granted) \in Nat
  BY <1>1, FS_CardinalityType
<1>3. handler'[s] \notin {"granted", "botched"} => Granted' = Granted
  BY DEF Granted, Over
<1>4. handler'[s] \in {"granted", "botched"} => Granted' = Granted \cup {s} /\ s \notin Granted
  BY DEF Granted, Over
<1> QED
  BY <1>1, <1>2, <1>3, <1>4, FS_AddElement

(* A handler goes on without an answer.                                    *)
LEMMA HandlerGoesOn ==
  ASSUME RaceInv, NEW s \in Streams, NEW place \in {"checked", "loaded"}, ~atomic,
         handler[s] \notin Over,
         handler' = [handler EXCEPT ![s] = place], loaded' \in [Streams -> Int],
         UNCHANGED <<clientVars, wire, closed, remaining, atomic>>
  PROVE  RaceInv'
<1> USE DEF clientVars
<1>1. handler'[s] = place /\ \A t \in Streams \ {s} : handler'[t] = handler[t]
  BY DEF RaceInv, TypeOK
<1>2. /\ Answered' = Answered
      /\ \A t \in Answered : handler'[t] = handler[t]
      /\ \A n \in 1..Len(wire) : handler'[wire[n].stream] = handler[wire[n].stream]
  BY <1>1, OthersStay
<1>3. TypeOK'
  <2>1. handler' \in [Streams -> {"none", "checked", "loaded"} \cup Over]
    BY DEF RaceInv, TypeOK
  <2>2. Answered' \subseteq Streams /\ \A t \in Answered' : statuses'[t] \in {200, 409, 500, -1}
    BY <1>2 DEF RaceInv, TypeOK
  <2> QED  BY <2>1, <2>2 DEF RaceInv, TypeOK
<1>4. \A n \in 1..Len(wire) : OnTheWire(n)'
  BY <1>2, EventStays DEF RaceInv
<1> QED
  BY <1>2, <1>3, <1>4 DEF RaceInv, Conserved

(* A reset is put on the wire behind all others.                           *)
LEMMA ResetKeepsWire ==
  ASSUME RaceInv, NEW s \in Streams, handler[s] \notin Over, NEW place \in Over,
         handler' = [handler EXCEPT ![s] = place],
         wire' = Append(wire, Event(s, "reset", 0)), UNCHANGED statuses
  PROVE  /\ wire' \in Seq(Events)
         /\ \A n \in 1..Len(wire') : OnTheWire(n)'
<1> DEFINE e == Event(s, "reset", 0)
<1>1. handler'[s] = place /\ \A t \in Streams \ {s} : handler'[t] = handler[t]
  BY DEF RaceInv, TypeOK
<1>2. /\ Answered' = Answered
      /\ \A n \in 1..Len(wire) : handler'[wire[n].stream] = handler[wire[n].stream]
  BY <1>1, OthersStay
<1>3. e \in Events /\ e.kind = "reset" /\ e.stream = s
  BY DEF Event, Events
<1> HIDE DEF e
<1>4. /\ wire' \in Seq(Events) /\ Len(wire) \in Nat /\ Len(wire') = Len(wire) + 1
      /\ \A n \in 1..Len(wire) : wire'[n] = wire[n]
      /\ wire'[Len(wire) + 1] = e
  BY <1>3, AppendProperties, WireTypes DEF RaceInv, TypeOK, e
<1>5. ASSUME NEW n \in 1..Len(wire') PROVE OnTheWire(n)'
  <2>1. CASE n \in 1..Len(wire)
    <3>1. OnTheWire(n) /\ wire'[n] = wire[n] /\ \A m \in 1..(n - 1) : wire'[m] = wire[m]
      BY <1>4, <2>1 DEF RaceInv
    <3> QED  BY <1>2, <2>1, <3>1, EventStays
  <2>2. CASE n = Len(wire) + 1
    BY <1>1, <1>3, <1>4, <2>2 DEF OnTheWire
  <2> QED  BY <1>4, <1>5, <2>1, <2>2
<1> QED
  BY <1>4, <1>5

(* A handler is done.  An atomic server has one thing less to give if it   *)
(* granted; the other one is not held to any count.                        *)
LEMMA HandlerEnds ==
  ASSUME RaceInv, NEW s \in Streams, handler[s] \notin Over, NEW place \in Over,
         handler' = [handler EXCEPT ![s] = place],
         wire' \in Seq(Events), \A n \in 1..Len(wire') : OnTheWire(n)', remaining' \in Int,
         atomic => remaining' = IF place = "refused" THEN remaining ELSE remaining - 1,
         atomic /\ place # "refused" => remaining > 0,
         UNCHANGED <<clientVars, closed, loaded, atomic>>
  PROVE  RaceInv'
<1> USE DEF clientVars
<1>1. handler'[s] = place /\ \A t \in Streams \ {s} : handler'[t] = handler[t]
  BY DEF RaceInv, TypeOK
<1>2. Answered' = Answered /\ \A t \in Answered : handler'[t] = handler[t]
  BY <1>1, OthersStay
<1>3. TypeOK'
  <2>1. handler' \in [Streams -> {"none", "checked", "loaded"} \cup Over]
    BY DEF RaceInv, TypeOK
  <2>2. Answered' \subseteq Streams /\ \A t \in Answered' : statuses'[t] \in {200, 409, 500, -1}
    BY <1>2 DEF RaceInv, TypeOK
  <2> QED  BY <2>1, <2>2 DEF RaceInv, TypeOK
<1>4. Conserved'
  <2> SUFFICES ASSUME atomic
               PROVE  /\ remaining' \in Nat
                      /\ Cardinality(Granted') + remaining' = Capacity
                      /\ \A t \in Streams : handler'[t] \notin {"checked", "loaded"}
    BY DEF Conserved
  <2>1. /\ remaining \in Nat
        /\ Cardinality(Granted) + remaining = Capacity
        /\ \A t \in Streams : handler[t] \notin {"checked", "loaded"}
    BY DEF RaceInv, Conserved
  <2>2. /\ Cardinality(Granted) \in Nat
        /\ place = "refused" => Granted' = Granted
        /\ place # "refused" => Cardinality(Granted') = Cardinality(Granted) + 1
    BY <1>1, GrantedNext DEF Over
  <2>3. \A t \in Streams : handler'[t] \notin {"checked", "loaded"}
    BY <1>1, <2>1 DEF Over
  <2>4. CASE place # "refused"
    BY <2>1, <2>2, <2>3, <2>4
  <2>5. CASE place = "refused"
    BY <2>1, <2>2, <2>3, <2>5
  <2> QED  BY <2>4, <2>5
<1> QED
  BY <1>2, <1>3, <1>4 DEF RaceInv

(* A handler answers.                                                      *)
LEMMA HandlerAnswers ==
  ASSUME RaceInv, NEW s \in Streams, handler[s] \notin Over,
         NEW status \in {200, 409, 500}, NEW place \in Over,
         status = 200 <=> place = "granted",
         Reply(s, status, place), remaining' \in Int,
         atomic => remaining' = IF place = "refused" THEN remaining ELSE remaining - 1,
         atomic /\ place # "refused" => remaining > 0,
         UNCHANGED <<clientVars, closed, loaded, atomic>>
  PROVE  RaceInv'
<1>1. UNCHANGED statuses /\ handler' = [handler EXCEPT ![s] = place]
  BY DEF clientVars, Reply
<1>2. wire' \in Seq(Events) /\ \A n \in 1..Len(wire') : OnTheWire(n)'
  BY <1>1, ReplyKeepsWire
<1> QED
  BY <1>1, <1>2, HandlerEnds

(* A handler fails, before or after it granted.                            *)
LEMMA HandlerFails ==
  ASSUME RaceInv, NEW s \in Streams, handler[s] \notin Over,
         NEW place \in {"botched", "refused"}, Fails(s, place), remaining' \in Int,
         atomic => remaining' = IF place = "refused" THEN remaining ELSE remaining - 1,
         atomic /\ place # "refused" => remaining > 0,
         UNCHANGED <<clientVars, closed, loaded, atomic>>
  PROVE  RaceInv'
<1>1. place \in Over /\ place # "granted"
  BY DEF Over
<1>2. CASE Reply(s, 500, place)
  BY <1>1, <1>2, HandlerAnswers
<1>3. CASE /\ handler' = [handler EXCEPT ![s] = place]
           /\ wire' = Append(wire, Event(s, "reset", 0))
  <2>1. wire' \in Seq(Events) /\ \A n \in 1..Len(wire') : OnTheWire(n)'
    BY <1>1, <1>3, ResetKeepsWire DEF clientVars
  <2> QED  BY <1>1, <1>3, <2>1, HandlerEnds
<1> QED
  BY <1>2, <1>3 DEF Fails

(* Every step of the server, one by one.                                   *)
LEMMA ServerKeeps ==
  ASSUME RaceInv, Server
  PROVE  RaceInv'
<1>1. ASSUME NEW s \in Streams, Check(s) PROVE RaceInv'
  <2>1. /\ ~atomic /\ handler[s] \notin Over /\ "refused" \in Over
        /\ remaining \in Int /\ loaded \in [Streams -> Int]
        /\ UNCHANGED <<clientVars, closed, remaining, loaded, atomic>>
    BY <1>1 DEF Check, Handling, RaceInv, TypeOK, Over
  <2>2. CASE remaining > 0
    <3>1. handler' = [handler EXCEPT ![s] = "checked"] /\ UNCHANGED wire
      BY <1>1, <2>2 DEF Check
    <3>2. UNCHANGED <<clientVars, wire, closed, remaining, atomic>> /\ loaded' \in [Streams -> Int]
      BY <2>1, <3>1
    <3> QED  BY <2>1, <3>1, <3>2, HandlerGoesOn
  <2>3. CASE ~(remaining > 0)
    <3>1. Reply(s, 409, "refused")
      BY <1>1, <2>3 DEF Check
    <3> QED  BY <2>1, <3>1, HandlerAnswers
  <2> QED  BY <2>2, <2>3
<1>2. ASSUME NEW s \in Streams, Load(s) PROVE RaceInv'
  <2>1. /\ handler[s] = "checked"
        /\ handler' = [handler EXCEPT ![s] = "loaded"]
        /\ loaded' = [loaded EXCEPT ![s] = remaining]
        /\ UNCHANGED <<clientVars, wire, closed, remaining, atomic>>
    BY <1>2 DEF Load, Handling
  <2>2. ~atomic /\ loaded' \in [Streams -> Int] /\ handler[s] \notin Over
    BY <2>1 DEF RaceInv, Conserved, TypeOK, Over
  <2> QED  BY <2>1, <2>2, HandlerGoesOn
<1>3. ASSUME NEW s \in Streams, Store(s) PROVE RaceInv'
  <2>1. /\ handler[s] = "loaded" /\ remaining' = loaded[s] - 1
        /\ Reply(s, 200, "granted") \/ Fails(s, "botched")
        /\ UNCHANGED <<clientVars, closed, loaded, atomic>>
    BY <1>3 DEF Store, Handling
  <2>2. ~atomic /\ remaining' \in Int /\ handler[s] \notin Over /\ "granted" \in Over
    BY <2>1 DEF RaceInv, Conserved, TypeOK, Over
  <2>3. CASE Reply(s, 200, "granted")
    BY <2>1, <2>2, <2>3, HandlerAnswers
  <2>4. CASE Fails(s, "botched")
    BY <2>1, <2>2, <2>4, HandlerFails
  <2> QED  BY <2>1, <2>3, <2>4
<1>4. ASSUME NEW s \in Streams, Redeem(s) PROVE RaceInv'
  <2>1. /\ handler[s] \notin Over /\ {"granted", "refused"} \subseteq Over /\ remaining \in Int
        /\ UNCHANGED <<clientVars, closed, loaded, atomic>>
    BY <1>4 DEF Redeem, Handling, RaceInv, TypeOK, Over
  <2>2. CASE remaining > 0
    <3>1. /\ remaining' = remaining - 1 /\ remaining' \in Int
          /\ Reply(s, 200, "granted") \/ Fails(s, "botched")
      BY <1>4, <2>1, <2>2 DEF Redeem
    <3>2. CASE Reply(s, 200, "granted")
      BY <2>1, <2>2, <3>1, <3>2, HandlerAnswers
    <3>3. CASE Fails(s, "botched")
      BY <2>1, <2>2, <3>1, <3>3, HandlerFails
    <3> QED  BY <3>1, <3>2, <3>3
  <2>3. CASE ~(remaining > 0)
    <3>1. remaining' = remaining /\ remaining' \in Int /\ Reply(s, 409, "refused")
      BY <1>4, <2>1, <2>3 DEF Redeem
    <3> QED  BY <2>1, <3>1, HandlerAnswers
  <2> QED  BY <2>2, <2>3
<1>5. ASSUME NEW s \in Streams, Fault(s) PROVE RaceInv'
  <2>1. /\ handler[s] \notin Over /\ remaining' = remaining /\ remaining' \in Int
        /\ Fails(s, "refused")
        /\ UNCHANGED <<clientVars, closed, loaded, atomic>>
    BY <1>5 DEF Fault, Handling, RaceInv, TypeOK, Over
  <2> QED  BY <2>1, HandlerFails
<1>6. CASE Close
  <2>1. /\ closed' \in BOOLEAN /\ closed'
        /\ UNCHANGED <<phase, statuses, wire, handler, remaining, loaded, atomic>>
    BY <1>6 DEF Close, clientVars
  <2>2. Answered' = Answered /\ Granted' = Granted
    BY <2>1 DEF Answered, Granted
  <2>3. \A n \in 1..Len(wire) : OnTheWire(n)'
    BY <2>1, <2>2, EventStays DEF RaceInv
  <2>4. TypeOK'
    BY <2>1, <2>2 DEF RaceInv, TypeOK
  <2> QED  BY <2>1, <2>2, <2>3, <2>4 DEF RaceInv, Conserved
<1> QED
  BY <1>1, <1>2, <1>3, <1>4, <1>5, <1>6 DEF Server

(* What a chunk tells of a stream: of one that was answered nothing new;   *)
(* of another one its response, since no end comes without one.            *)
LEMMA ChunkTells ==
  ASSUME RaceInv, NEW length \in 1..Len(wire), NEW s \in Streams,
         NEW chunk, chunk = {wire[n] : n \in 1..length}, s \in Heard(chunk)
  PROVE  /\ s \in Answered => Status(chunk, s) = statuses[s]
         /\ Status(chunk, s) \in {200, 409, 500, -1}
         /\ Status(chunk, s) = 200 <=> handler[s] = "granted"
         /\ handler[s] \in Over
         /\ s \notin Answered =>
              \E n \in 1..length : wire[n].stream = s /\ wire[n].kind = "response"
<1>1. Len(wire) \in Nat /\ 1..length \subseteq 1..Len(wire)
  BY WireTypes DEF RaceInv
<1>2. \A n \in 1..length : OnTheWire(n) /\ wire[n].status \in {0, 200, 409, 500}
  BY <1>1, WireTypes DEF RaceInv
<1>3. PICK n \in 1..length : wire[n].stream = s /\ wire[n].kind \in {"response", "ended"}
  BY DEF Heard, In
<1>4. handler[s] \in Over
  BY <1>2, <1>3 DEF OnTheWire
<1>5. CASE In(chunk, s, "response")
  <2> DEFINE e == CHOOSE e \in chunk : e.stream = s /\ e.kind = "response"
  <2>1. e \in chunk /\ e.stream = s /\ e.kind = "response" /\ Status(chunk, s) = e.status
    BY <1>5 DEF In, Status
  <2> HIDE DEF e
  <2>2. PICK m \in 1..length : e = wire[m]
    BY <2>1
  <2>3. /\ s \notin Answered /\ e.status # 0
        /\ e.status = 200 <=> handler[s] = "granted"
    BY <1>2, <2>1, <2>2 DEF OnTheWire
  <2>4. e.status \in {0, 200, 409, 500}
    BY <1>2, <2>2
  <2> QED  BY <1>4, <2>1, <2>2, <2>3, <2>4
<1>6. CASE ~In(chunk, s, "response")
  <2>1. \A m \in 1..length : ~(wire[m].stream = s /\ wire[m].kind = "response")
    BY <1>6 DEF In
  <2>2. 1..(n - 1) \subseteq 1..length /\ wire[n].kind = "ended"
    BY <1>1, <1>3, <2>1
  <2>3. s \in Answered
    BY <1>2, <1>3, <2>1, <2>2 DEF OnTheWire
  <2>4. Status(chunk, s) = statuses[s]
    BY <1>6, <2>3 DEF Status
  <2> QED  BY <1>4, <2>3, <2>4 DEF RaceInv, TypeOK
<1> QED
  BY <1>5, <1>6

(* A chunk is read: the streams heard of have their statuses, and what is  *)
(* left on the wire moves up.                                              *)
LEMMA ReadKeeps ==
  ASSUME RaceInv, NEW length \in 1..Len(wire), Read(length)
  PROVE  /\ RaceInv'
         /\ \A s \in Answered : s \in Answered' /\ statuses'[s] = statuses[s]
<1> DEFINE chunk == {wire[n] : n \in 1..length}
<1>1. /\ statuses' = [s \in Answered \cup Heard(chunk) |->
                       IF s \in Heard(chunk) THEN Status(chunk, s) ELSE statuses[s]]
      /\ wire' = SubSeq(wire, length + 1, Len(wire))
      /\ phase = "reading"
      /\ UNCHANGED <<phase, closed, handler, remaining, loaded, atomic>>
  BY DEF Read
<1>2. /\ Len(wire) \in Nat /\ length \in Nat /\ length >= 1 /\ length <= Len(wire)
      /\ \A n \in 1..Len(wire) : wire[n] \in Events
  BY WireTypes DEF RaceInv
<1>3. /\ wire' \in Seq(Events)
      /\ Len(wire') = Len(wire) - length
      /\ \A n \in 1..Len(wire') : wire'[n] = wire[length + n]
  <2>1. /\ length + 1 \in Int /\ Len(wire) \in Int
        /\ \A n \in (length + 1)..Len(wire) : wire[n] \in Events
    BY <1>2
  <2>2. /\ wire' \in Seq(Events)
        /\ Len(wire') = IF length + 1 <= Len(wire) THEN Len(wire) - (length + 1) + 1 ELSE 0
        /\ \A n \in 1..(Len(wire) - (length + 1) + 1) : wire'[n] = wire[(length + 1) + n - 1]
    BY <1>1, <2>1, SubSeqProperties
  <2>3. Len(wire') = Len(wire) - length
    BY <1>2, <2>2
  <2>4. \A n \in 1..Len(wire') : wire'[n] = wire[length + n]
    BY <1>2, <2>2, <2>3
  <2> QED  BY <2>2, <2>3, <2>4
<1>4. Heard(chunk) \subseteq Streams
  BY DEF Heard
<1>5. Answered \subseteq Streams
  BY DEF RaceInv, TypeOK
<1>6. \A s \in Heard(chunk) :
        /\ s \in Answered => Status(chunk, s) = statuses[s]
        /\ Status(chunk, s) \in {200, 409, 500, -1}
        /\ Status(chunk, s) = 200 <=> handler[s] = "granted"
        /\ handler[s] \in Over
        /\ s \notin Answered =>
             \E n \in 1..length : wire[n].stream = s /\ wire[n].kind = "response"
  BY <1>4, ChunkTells
<1>7. Answered' = Answered \cup Heard(chunk)
  BY <1>1 DEF Answered
<1>8. \A s \in 1..length : wire[s].kind = "response" => wire[s].stream \in Heard(chunk)
  BY <1>2 DEF Heard, In, Events
<1> HIDE DEF chunk
<1>9. \A s \in Answered : s \in Answered' /\ statuses'[s] = statuses[s]
  BY <1>1, <1>6, <1>7
<1>10. \A s \in Answered' : /\ statuses'[s] \in {200, 409, 500, -1}
                            /\ handler[s] \in Over
                            /\ statuses'[s] = 200 <=> handler[s] = "granted"
  BY <1>1, <1>6, <1>7 DEF RaceInv, TypeOK
<1>11. ASSUME NEW n \in 1..Len(wire') PROVE OnTheWire(n)'
  <2> DEFINE k == length + n
             e == wire[k]
  <2>1. /\ k \in 1..Len(wire) /\ k > length
        /\ \A m \in 1..(n - 1) : /\ length + m \in 1..(k - 1)
                                 /\ wire'[m] = wire[length + m]
        /\ wire'[n] = e
    BY <1>2, <1>3
  <2>2. OnTheWire(k)
    BY <2>1 DEF RaceInv
  <2> HIDE DEF k
  <2>3. \A l \in 1..length : l \in 1..(k - 1)
    BY <1>2, <2>1
  <2>4. e.kind = "response" => /\ e.stream \notin Answered'
                               /\ \A m \in 1..(n - 1) : wire'[m].stream # e.stream
    <3> SUFFICES ASSUME e.kind = "response"
                 PROVE  /\ e.stream \notin Answered'
                        /\ \A m \in 1..(n - 1) : wire'[m].stream # e.stream
      OBVIOUS
    <3>1. e.stream \notin Answered /\ \A m \in 1..(k - 1) : wire[m].stream # e.stream
      BY <2>2 DEF OnTheWire
    <3>2. e.stream \notin Heard(chunk)
      BY <1>6, <2>3, <3>1
    <3>3. ASSUME NEW m \in 1..(n - 1) PROVE wire'[m].stream # e.stream
      BY <2>1, <3>1
    <3> QED  BY <1>7, <3>1, <3>2, <3>3
  <2>5. e.kind = "ended" =>
          \/ e.stream \in Answered'
          \/ \E m \in 1..(n - 1) : wire'[m].stream = e.stream /\ wire'[m].kind = "response"
    <3> SUFFICES ASSUME e.kind = "ended", e.stream \notin Answered'
                 PROVE  \E m \in 1..(n - 1) : wire'[m].stream = e.stream /\ wire'[m].kind = "response"
      OBVIOUS
    <3>1. PICK l \in 1..(k - 1) : wire[l].stream = e.stream /\ wire[l].kind = "response"
      BY <1>7, <2>2 DEF OnTheWire
    <3>2. l \notin 1..length
      <4>1. l \in 1..length => e.stream \in Answered'
        BY <1>7, <1>8, <3>1
      <4> QED  BY <4>1
    <3>3. l - length \in 1..(n - 1) /\ length + (l - length) = l
      BY <1>2, <2>1, <3>2 DEF k
    <3> QED  BY <2>1, <3>1, <3>3
  <2>6. /\ handler'[e.stream] \in Over
        /\ e.kind = "response" => /\ e.status # 0
                                  /\ e.status = 200 <=> handler'[e.stream] = "granted"
    BY <1>1, <2>2 DEF OnTheWire
  <2> HIDE DEF e
  <2> QED  BY <2>1, <2>4, <2>5, <2>6 DEF OnTheWire
<1>12. TypeOK'
  <2>1. Answered' \subseteq Streams /\ \A s \in Answered' : statuses'[s] \in {200, 409, 500, -1}
    BY <1>4, <1>5, <1>7, <1>10
  <2> QED  BY <1>1, <1>3, <2>1 DEF RaceInv, TypeOK
<1>13. Conserved'
  <2>1. Granted' = Granted
    BY <1>1 DEF Granted
  <2> QED  BY <1>1, <2>1 DEF RaceInv, Conserved
<1> QED
  <2>1. \A n \in 1..Len(wire') : OnTheWire(n)'
    BY <1>11
  <2>2. phase' # "done" /\ handler' = handler
    BY <1>1
  <2>3. RaceInv'
    BY <1>10, <1>12, <1>13, <2>1, <2>2 DEF RaceInv
  <2> QED  BY <1>9, <2>3

(* The rest of the client: the statuses stay as they are, and only Return  *)
(* ends the race, over all streams or over a closed connection.            *)
LEMMA RestOfClientKeeps ==
  ASSUME RaceInv, SendPrelude \/ SendLastBytes \/ Return \/ Raise
  PROVE  RaceInv' /\ UNCHANGED statuses
<1>1. UNCHANGED <<statuses, wire, closed, handler, remaining, loaded, atomic>>
  BY DEF SendPrelude, SendLastBytes, Return, Raise, serverVars
<1>2. phase' \in {"held", "reading", "done", "raised"}
  BY DEF SendPrelude, SendLastBytes, Return, Raise
<1>3. Answered' = Answered /\ Granted' = Granted
  BY <1>1 DEF Answered, Granted
<1>4. \A n \in 1..Len(wire) : OnTheWire(n)'
  BY <1>1, <1>3, EventStays DEF RaceInv
<1>5. TypeOK'
  BY <1>1, <1>2, <1>3 DEF RaceInv, TypeOK
<1>6. phase' = "done" => closed \/ Answered = Streams
  <2> SUFFICES ASSUME phase' = "done", ~closed PROVE Answered = Streams
    OBVIOUS
  <2>1. ~Collecting
    BY DEF SendPrelude, SendLastBytes, Return, Raise
  <2>2. Answered \subseteq Streams
    BY DEF RaceInv, TypeOK
  <2>3. /\ Cardinality(Answered) \in Nat /\ Cardinality(Streams) \in Nat
        /\ Cardinality(Answered) = Cardinality(Streams) => Answered = Streams
        /\ Cardinality(Answered) <= Cardinality(Streams)
    BY <2>2, RaceAssumption, FS_Subset, FS_CardinalityType
  <2> QED  BY <2>1, <2>3 DEF Collecting
<1> QED
  BY <1>1, <1>3, <1>4, <1>5, <1>6 DEF RaceInv, Conserved

(* No step of the server touches what the client has seen.                 *)
LEMMA ServerAsks == Server => UNCHANGED clientVars
BY DEF Server, Check, Load, Store, Redeem, Fault, Close

(* Every step keeps the invariant, and the statuses that are there.        *)
LEMMA StepKeeps ==
  ASSUME RaceInv, [Next]_vars
  PROVE  /\ RaceInv'
         /\ \A s \in Answered : s \in DOMAIN statuses' /\ statuses'[s] = statuses[s]
<1>1. ASSUME NEW length \in 1..Len(wire), Read(length)
      PROVE  /\ RaceInv'
             /\ \A s \in Answered : s \in DOMAIN statuses' /\ statuses'[s] = statuses[s]
  BY <1>1, ReadKeeps DEF Answered
<1>2. ASSUME SendPrelude \/ SendLastBytes \/ Return \/ Raise
      PROVE  RaceInv' /\ UNCHANGED statuses
  BY <1>2, RestOfClientKeeps
<1>3. CASE Server
  <2>1. RaceInv' /\ UNCHANGED statuses
    BY <1>3, ServerKeeps, ServerAsks DEF clientVars
  <2> QED  BY <2>1 DEF Answered
<1>4. CASE UNCHANGED vars
  <2>1. /\ UNCHANGED <<phase, statuses, wire, closed, handler, remaining, loaded, atomic>>
        /\ Answered' = Answered /\ Granted' = Granted
    BY <1>4 DEF vars, clientVars, serverVars, Answered, Granted
  <2>2. \A n \in 1..Len(wire) : OnTheWire(n)'
    BY <2>1, EventStays DEF RaceInv
  <2>3. TypeOK'
    BY <2>1 DEF RaceInv, TypeOK
  <2> QED  BY <2>1, <2>2, <2>3 DEF RaceInv, Conserved, Answered
<1> QED
  <2>1. CASE SendPrelude \/ SendLastBytes \/ Return \/ Raise
    <3>1. RaceInv' /\ UNCHANGED statuses
      BY <1>2, <2>1
    <3> QED  BY <3>1 DEF Answered
  <2>2. CASE Client \/ Server \/ UNCHANGED vars
    BY <1>1, <1>3, <1>4, <2>1, <2>2 DEF Client
  <2> QED  BY <2>2 DEF Next

(* The invariant of the race: what is on the wire and in the dict is what  *)
(* the server did, and a race over an open connection ends with a status   *)
(* for every stream (racer.py:84-106, app.py:50-56).                       *)
THEOREM RaceInvariant == Spec => []RaceInv
<1>1. RaceInv /\ [Next]_vars => RaceInv'
  BY StepKeeps
<1> QED
  BY <1>1, InitEstablishes, PTL DEF Spec

(* The variables keep their types (racer.py:62-84, app.py:21).             *)
THEOREM TypeCorrect == Spec => []TypeOK
<1>1. RaceInv => TypeOK
  BY DEF RaceInv
<1> QED
  BY <1>1, RaceInvariant, PTL

(* A stream keeps the status of its response, whatever comes after it      *)
(* (racer.py:91, 95).                                                      *)
THEOREM FirstStatusIsFinal == Spec => StatusIsFinal
<1>1. RaceInv /\ [Next]_vars
        => [\A s \in Answered : s \in DOMAIN statuses' /\ statuses'[s] = statuses[s]]_vars
  BY StepKeeps
<1> QED
  BY <1>1, RaceInvariant, PTL DEF Spec, StatusIsFinal

(* What the client counts as successes are streams the server granted, and *)
(* after a race over an open connection they are all that it confirmed.    *)
LEMMA SuccessesAreGranted ==
  ASSUME RaceInv
  PROVE  /\ Cardinality(Successes) \in Nat /\ Cardinality(Granted) \in Nat
         /\ Cardinality(Successes) <= Cardinality(Granted)
         /\ phase = "done" /\ ~closed => Successes = Confirmed
<1>1. IsFiniteSet(Granted)
  BY RaceAssumption, FS_Subset DEF Granted
<1>2. Successes \subseteq Granted
  BY DEF RaceInv, TypeOK, Successes, Granted
<1>3. phase = "done" /\ ~closed => Successes = Confirmed
  BY DEF RaceInv, Successes, Confirmed
<1> QED
  BY <1>1, <1>2, <1>3, FS_Subset, FS_CardinalityType

(* What is reported as proven has happened: more was granted than there    *)
(* was, and the server does not check and act at once (oracles.py:133-143, *)
(* racer.py:84-106).                                                       *)
THEOREM ReportsAreTrue == Spec => []ReportedWasGranted
<1>1. ASSUME RaceInv PROVE ReportedWasGranted
  <2> SUFFICES ASSUME Reported PROVE Cardinality(Granted) > Capacity /\ ~atomic
    BY DEF ReportedWasGranted
  <2>1. Cardinality(Granted) > Capacity /\ Cardinality(Granted) \in Nat
    BY <1>1, RaceAssumption, SuccessesAreGranted DEF Reported
  <2> QED  BY <1>1, <2>1, RaceAssumption DEF RaceInv, Conserved
<1> QED
  BY <1>1, RaceInvariant, PTL

(* A race that comes to its end over an open connection misses nothing     *)
(* that the server granted too much and confirmed (racer.py:84-106).       *)
THEOREM NothingIsMissed == Spec => []GrantedIsReported
<1>1. RaceInv => GrantedIsReported
  BY SuccessesAreGranted DEF GrantedIsReported, Reported
<1> QED
  BY <1>1, RaceInvariant, PTL

=============================================================================
