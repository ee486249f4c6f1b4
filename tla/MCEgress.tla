------------------------------ MODULE MCEgress ------------------------------
(* Instances of Egress for TLC.  The host "named" is admitted by its name, *)
(* the host "numbered" by its address only; one request is a write.        *)
EXTENDS Egress

CONSTANTS r1, r2, r3, named, numbered, inside, outside

OneNamed == [r \in Requests |-> IF r = r1 THEN named ELSE numbered]
OneWrite == [r \in Requests |-> IF r = r3 THEN "PUT" ELSE "GET"]

=============================================================================
