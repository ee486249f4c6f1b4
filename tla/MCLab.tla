------------------------------- MODULE MCLab -------------------------------
(* Instances of Lab for TLC: alice and bob, who have captured reads of     *)
(* both profiles and of none, and writes with and without their canaries.  *)
EXTENDS Lab

CONSTANTS alice, bob, nobody, getAlice, getBob, getNobody, put, MaxObserved

TwoIdentities == <<alice, bob>>
People == {alice, bob}
Subjects ==
  [t \in {getAlice, getBob, getNobody} |->
     CASE t = getAlice -> alice [] t = getBob -> bob [] t = getNobody -> nobody]

Captured(owners, targets, bodies) ==
  [owner : owners, target : targets, query : {NoQuery},
   creds : {{"authorization"}}, body : bodies]

ShortCaptures == UNION {[1..n -> Observable] : n \in 0..MaxObserved}
LabTraffic ==
  Captured(People, {getAlice, getBob}, {Nothing})
    \cup Captured({alice}, {getNobody}, {Nothing})
    \cup UNION {Captured({u}, {put}, {u, Plain}) : u \in People}
    \cup Captured({bob}, {put}, {Nothing})

RunOracles == <<"BOLA", "MASS_ASSIGNMENT">>

TokenHeader == [u \in People |-> {"authorization"}]

ASSUME LabConstants

=============================================================================
