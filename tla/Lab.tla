-------------------------------- MODULE Lab --------------------------------
(***************************************************************************)
(* Seeding and running against the profiles of testlab/app.py: the command *)
(* seed of authdiff/cli/main.py writes into each identity's profile a      *)
(* canary of his own, then DifferentialRunner (Runner) replays what was    *)
(* captured, each call with its effect on the profiles.  Replayed writes   *)
(* take effect in between replayed reads.                                  *)
(*                                                                         *)
(* The lab does not check who reads a profile; the same lab with that      *)
(* check stands for an application without the flaw.  A profile is what    *)
(* its bio holds: the canary of an identity, by which it is named, or      *)
(* Plain.  A captured request has, besides what Runner reads of it, its    *)
(* body: a bio, or Nothing.  The lab sets no cookie.                       *)
(***************************************************************************)
EXTENDS Runner

CONSTANTS
  Members,      \* the users of TOKENS, named like the identities
  Plain,        \* a bio without a canary
  Nothing,      \* the body of a request without fields
  SubjectOf,    \* whose profile is read: [read targets -> users]
  WriteTarget,  \* PUT /api/profile
  Open          \* the values that unchecked may have

Bios == Members \cup {Plain}

(* The bodies of its answers.  A user is a member, or Anonymous for any    *)
(* request whose token is not in TOKENS.                                   *)
Profile(u, b) == <<u, b>>
Unauthenticated == <<"unauthenticated">>
NotFound == <<"not found">>
Forbidden == <<"forbidden">>
Failures == {Unauthenticated, NotFound, Forbidden}

Error(text) == [status |-> "refused", text |-> text, session |-> Anonymous]
Success(u, b) ==
  [status |-> "success", text |-> Profile(u, b), session |-> Anonymous]

(* Of which owners each body has a valid canary, and what the lab may      *)
(* answer: the constants Marks and Answers of Runner.                      *)
LabMarks ==
  [t \in (Members \X Bios) \cup Failures \cup {NoText} |->
     IF t \in Members \X Bios THEN {t[2]} \cap Members ELSE {}]
LabAnswers ==
  [call \in Targets \X Users |->
     {Success(v, b) : v \in Members, b \in Bios} \cup {Error(f) : f \in Failures}]

(* What the lab takes its constants to be: a condition of the theorems     *)
(* about it, and not of those about every run.                             *)
LabConstants ==
  /\ Plain \notin Members
  /\ Anonymous \notin Members
  /\ Nothing \notin Members \cup {Plain}
  /\ \A n \in DOMAIN Identities : Identities[n] \in Members
  /\ Targets \ {WriteTarget} \subseteq DOMAIN SubjectOf
  /\ \A r \in Observable : r.body \in Members \cup {Plain, Nothing}
  /\ Open \subseteq BOOLEAN
  /\ Trusted = "authorization"
  /\ Plugins = {}
  /\ Marks = LabMarks
  /\ Answers = LabAnswers

VARIABLES
  unchecked,  \* the lab leaves out the ownership check, as testlab/app.py does
  writes,     \* --allow-writes, or allow_writes of the scope
  bio,        \* PROFILES
  seeded,     \* how many identities seed has written a canary for
  stage       \* "seed", then "run"

labVars == <<unchecked, writes, bio, seeded, stage>>
allVars == <<vars, labVars>>

LabInit ==
  /\ Init
  /\ unchecked \in Open
  /\ writes \in BOOLEAN
  /\ bio = [u \in Members |-> Plain]
  /\ seeded = 0
  /\ stage = "seed"

----------------------------------------------------------------------------
(* The application.                                                        *)

(* Mutant: a body without fields replaces the bio.                         *)
UpdatedByNothing(r, u) == [bio EXCEPT ![u] = r.body]

(* PROFILES[me].update(...)                                                *)
Updated(r, u) == IF r.body = Nothing THEN bio ELSE [bio EXCEPT ![u] = r.body]

(* What a request does to the profiles.                                    *)
Effect(r, u) ==
  IF r.target = WriteTarget /\ u \in Members THEN Updated(r, u) ELSE bio

get_profile(r, u) ==
  LET v == SubjectOf[r.target]
  IN  CASE u \notin Members -> Error(Unauthenticated)
        [] u \in Members /\ v \notin Members -> Error(NotFound)
        [] u \in Members /\ v \in Members /\ v # u /\ ~unchecked -> Error(Forbidden)
        [] OTHER -> Success(v, bio[v])

put_profile(r, u) ==
  IF u \notin Members THEN Error(Unauthenticated) ELSE Success(u, Effect(r, u)[u])

Handle(r, u) == IF r.target = WriteTarget THEN put_profile(r, u) ELSE get_profile(r, u)

----------------------------------------------------------------------------

(* Mutant: seed sends the requests without the headers of the identity.    *)
SeederAnonymous(id) == Anonymous

Seeder(id) == IF Trusted \in HeaderCreds[id] THEN id ELSE Anonymous

SeedRequest(id) == [target |-> WriteTarget, body |-> id]
NextSeed == Identities[seeded + 1]
SeedEffect == Effect(SeedRequest(NextSeed), Seeder(NextSeed))

AtSeed == stage = "seed" /\ seeded < Len(Identities)

(* seed writes the canary of its next identity; the status is not read.    *)
SeedNext ==
  /\ AtSeed
  /\ bio' = SeedEffect
  /\ seeded' = seeded + 1
  /\ UNCHANGED <<vars, unchecked, writes, stage>>

(* The call raises, before or after it took effect, and ends seed.         *)
SeedRaises ==
  /\ AtSeed
  /\ bio' \in {bio, SeedEffect}
  /\ stage' = "run"
  /\ UNCHANGED <<vars, unchecked, writes, seeded>>

(* The command run starts.                                                 *)
StartRun ==
  /\ stage = "seed"
  /\ seeded = Len(Identities)
  /\ stage' = "run"
  /\ UNCHANGED <<vars, unchecked, writes, bio, seeded>>

----------------------------------------------------------------------------
(* The steps of Runner, with what its calls do to the profiles.            *)

(* The governor lets the request pass.                                     *)
Allowed(r) == r.target = WriteTarget => writes

BaselineRequest(k) == LastRequest(FingerprintOf(k))

(* A request that fails may have reached the lab, if it was allowed.       *)
PerhapsDone(r, u) == bio' = bio \/ (Allowed(r) /\ bio' = Effect(r, u))

LabBaseline(k) ==
  \E u \in BaselineUsers(FingerprintOf(k)) :
    \/ /\ Allowed(BaselineRequest(k))
       /\ FetchBaseline(k, Handle(BaselineRequest(k), u))
       /\ bio' = Effect(BaselineRequest(k), u)
    \/ BaselineFails(k) /\ PerhapsDone(BaselineRequest(k), u)

LabReplay(k) ==
  \E u \in ReplayUsers(k) :
    \/ /\ Allowed(tasks[k].request)
       /\ \E verdict \in Verdicts : Answered(k, Handle(tasks[k].request, u), verdict)
       /\ bio' = Effect(tasks[k].request, u)
    \/ Failed(k) /\ PerhapsDone(tasks[k].request, u)

Calls == \E k \in Tasks : LabBaseline(k) \/ LabReplay(k)
Quiet == (Build \/ StartBaselines \/ StartReplays \/ Finish) /\ bio' = bio

RunStep ==
  /\ stage = "run"
  /\ Calls \/ Quiet
  /\ UNCHANGED <<unchecked, writes, seeded, stage>>

LabNext == SeedNext \/ SeedRaises \/ StartRun \/ RunStep

LabSpec == LabInit /\ [][LabNext]_allVars

----------------------------------------------------------------------------

(* Types of the variables; what the lab answers is what Runner expects of  *)
(* it (app.py:25-47).                                                      *)
LabTypeOK ==
  /\ TypeOK
  /\ bio \in [Members -> Bios]
  /\ seeded \in 0..Len(Identities)
  /\ stage \in {"seed", "run"}
  /\ {unchecked, writes} \subseteq BOOLEAN

(* Each identity is configured with its token, as in lab.config.yaml.      *)
HeadersCarryToken == \A n \in DOMAIN Identities : Trusted \in HeaderCreds[Identities[n]]

Written(u) == \E n \in 1..seeded : Identities[n] = u

(* What the lab is there to show, app.py:3-4: a profile that anyone may    *)
(* read is a proven BOLA.  Each answer to another identity's read of a     *)
(* profile that seed has written to is reported with the canary as proof,  *)
(* whatever else failed, as long as no replay may write (main.py:206-224,  *)
(* app.py:31-36, runner.py:57-78).                                         *)
LeakProven ==
  phase = "done" /\ unchecked /\ ~writes /\ BolaRegistered =>
    \A k \in Tasks :
      LET v == SubjectOf[tasks[k].request.target]
      IN  /\ outcome[k] = "answered"
          /\ tasks[k].actor \in Members \ {v}
          /\ Written(v)
          => \E f \in report : /\ f.kind = "BOLA"
                               /\ f.confidence = "proven"
                               /\ f.actor = tasks[k].actor
                               /\ f.victim = v
                               /\ f.target = tasks[k].request.target

(* The owners of the canaries that captured writes carry, if a replay may  *)
(* write.                                                                  *)
Carried ==
  IF writes THEN {observed[n].body : n \in 1..Len(observed)} \cap Members ELSE {}

(* The finding f, if it is a proven BOLA, says truly who could read whom.  *)
ProofIsTrue(f) ==
  f.kind = "BOLA" /\ f.confidence = "proven" =>
    /\ unchecked
    /\ f.actor \in Members
    /\ f.target # WriteTarget
    /\ f.victim = SubjectOf[f.target]
    /\ f.victim # f.actor

(* docs/faq.md:3-6: a proven BOLA is a flaw of the application.  It says   *)
(* truly that the lab lets a member read the profile of another: no write  *)
(* in between, no order of the replays and no credential left over makes   *)
(* one up.  The one exception is the victim whose own canary a captured    *)
(* write carries: replayed by another, that write plants it in a profile   *)
(* which is not the victim's (oracles.py:56-64, runner.py:41-53).          *)
ProofsAreTrue == \A f \in report : ProofIsTrue(f) \/ f.victim \in Carried

(* What seed has written stands until a replay may write.                  *)
SeedStands ==
  HeadersCarryToken /\ (stage = "seed" \/ ~writes) =>
    \A n \in 1..seeded : bio[Identities[n]] = Identities[n]

(* An answer to a read of a profile that seed has written to holds it.     *)
LeakReplied ==
  HeadersCarryToken /\ unchecked /\ ~writes /\ phase # "build" =>
    \A k \in Tasks :
      LET v == SubjectOf[tasks[k].request.target]
      IN  /\ outcome[k] = "answered"
          /\ tasks[k].actor \in Members \ {v}
          /\ Written(v)
          => replied[k] = Profile(v, v)

(* No profile holds the canary of another, and no worker returned a proof  *)
(* that is not true, but for the canaries that captured writes carry.      *)
NothingMadeUp ==
  /\ \A u \in Members : bio[u] \in {u, Plain} \cup Carried
  /\ phase # "build" =>
       \A k \in Tasks, i \in DOMAIN Registry : \A f \in batch[k][i] :
         ProofIsTrue(f) \/ f.victim \in Carried
  /\ \A f \in report : ProofIsTrue(f) \/ f.victim \in Carried

(* The inductive invariant behind the theorems about the lab (main.py:     *)
(* 206-224, app.py:31-48, runner.py:57-105): types, that of the run, and   *)
(* what bios, answers and findings have to do with each other.             *)
LabInv ==
  /\ LabTypeOK
  /\ RunInv
  /\ stage = "seed" => phase = "build"
  /\ SeedStands
  /\ LeakReplied
  /\ NothingMadeUp

(* What README.md:32 says of the method, "0% false positives by            *)
(* construction", docs/architecture.md:27 of a finding, that a canary      *)
(* "breaks an invariant", and oracles.py:102-104 of mass assignment, that  *)
(* it is judged on a re-read after a write attempt: a run that may not     *)
(* write proves nothing against a lab that checks who reads (main.py:128). *)
NothingProvenOfChecked ==
  ~unchecked /\ ~writes => \A f \in report : f.confidence # "proven"

=============================================================================
