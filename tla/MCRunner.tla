------------------------------ MODULE MCRunner ------------------------------
(* Instances of Runner for TLC: two identities, an endpoint "me" that      *)
(* serves each user his own data, and starts a session for bob, and an     *)
(* endpoint "item" that serves anybody's to anybody.                       *)
EXTENDS Runner

CONSTANTS alice, bob, me, item, MaxObserved

TwoIdentities == <<alice, bob>>
People == {alice, bob}

Captured(creds, targets) ==
  [owner : People, target : targets, query : {NoQuery}, creds : {creds}]
WithSession == Captured({"authorization", "cookie"}, {me, item})
ShortCaptures == UNION {[1..n -> Observable] : n \in 0..MaxObserved}

(* The data of alice and of bob hold their canaries; a copy has none.      *)
Own(u) == IF u = alice THEN "of alice" ELSE "of bob"
Seeded == [t \in {"of alice", "of bob", "of both", "", "shared"} |->
             CASE t = "of alice" -> {alice}
               [] t = "of bob" -> {bob}
               [] t = "of both" -> {alice, bob}
               [] OTHER -> {}]

Denial == [status |-> "refused", text |-> "", session |-> Anonymous]
SuccessIn(text, u) == [status |-> "success", text |-> text, session |-> u]
Success(text) == SuccessIn(text, Anonymous)

MixedServer ==
  [t \in {me, item}, u \in People \cup {Anonymous} |->
     CASE u = Anonymous /\ t = me -> {Denial}
       [] u = Anonymous /\ t = item -> {Denial, Success("of both")}
       [] u = alice /\ t = me -> {Success(Own(u))}
       [] u = bob /\ t = me -> {SuccessIn(Own(u), u)}
       [] u # Anonymous /\ t = item -> {Success("of both"), Success("shared")}]

(* A plugin, registered last, returns what has the id of a proof of the    *)
(* built-in oracles, on any task.                                          *)
WithPlugin == <<"BFLA", "BOLA", "MASS_ASSIGNMENT", "PLUGIN">>
RunOracles == <<"BOLA", "MASS_ASSIGNMENT">>
Forgery ==
  {[kind |-> "BOLA", confidence |-> "heuristic", actor |-> bob, victim |-> alice,
    target |-> item, query |-> NoQuery]}

SessionHeader == [u \in People |-> {"authorization"}]

=============================================================================
