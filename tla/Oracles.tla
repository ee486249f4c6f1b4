------------------------------ MODULE Oracles ------------------------------
(***************************************************************************)
(* The oracles of authdiff/core/oracles.py: what each concludes from the   *)
(* answer to one replay.  A text is the body of an answer; Marks gives the *)
(* owners of the valid canaries found in it (attribute_detailed of         *)
(* core/canary.py).  A status is one of the ranges the oracles tell apart: *)
(* "success" is 2xx, "redirect" 3xx, "refused" anything else.              *)
(*                                                                         *)
(* An evaluation yields the set of its findings, empty or a singleton.     *)
(***************************************************************************)
CONSTANTS
  Marks,      \* [Texts -> SUBSET owners]
  NoText,     \* the empty body
  NoBaseline  \* the baseline None

(* A finding, of which kind, actor, victim, target and query make the id.  *)
Found(kind, confidence, victim, obs) ==
  [kind |-> kind, confidence |-> confidence, actor |-> obs.actor,
   victim |-> victim, target |-> obs.target, query |-> obs.query]

(* Mutant: the id does not name the actor.                                 *)
IdOfVictim(f) == <<f.kind, f.victim, f.target, f.query>>

Id(f) == <<f.kind, f.actor, f.victim, f.target, f.query>>

Foreign(obs) == Marks[obs.text] \ {obs.actor}

SameAsBaseline(obs) ==
  /\ obs.baseline # NoBaseline
  /\ obs.status = "success"
  /\ obs.text # NoText
  /\ obs.text = obs.baseline

(* sorted(...)[0] is a fixed choice among the owners leaked.               *)
Bola(obs) ==
  IF Foreign(obs) # {}
  THEN {Found("BOLA", "proven", CHOOSE o \in Foreign(obs) : TRUE, obs)}
  ELSE {f \in {Found("BOLA", "heuristic", obs.owner, obs)} : SameAsBaseline(obs)}

Bfla(obs) ==
  {f \in {Found("BFLA", "heuristic", obs.owner, obs)} :
     obs.status \in {"success", "redirect"}}

MassAssignment(obs) ==
  {f \in {Found("MASS_ASSIGNMENT", "proven", obs.actor, obs)} :
     obs.actor \in Marks[obs.text]}

(* An oracle of a third party returns any finding that it likes, of any    *)
(* kind and about anybody, or none, or raises: its verdict.                *)
NoFinding == [kind |-> "no finding"]
Raised == [kind |-> "raised"]
Plugin(verdict) == {verdict} \ {NoFinding, Raised}

=============================================================================
