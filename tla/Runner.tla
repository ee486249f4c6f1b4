------------------------------- MODULE Runner -------------------------------
(***************************************************************************)
(* The differential run: DifferentialRunner.run of                         *)
(* authdiff/engine/runner.py.  It builds the matrix, fetches one baseline  *)
(* per fingerprint, one after the other, then replays all tasks            *)
(* concurrently, lets the oracles judge each answer and merges what they   *)
(* found by id.                                                            *)
(*                                                                         *)
(* A call of the client is one step here, with its outcome: an answer of   *)
(* the server, or an exception, of the governor or of the network (Egress  *)
(* has its inside).  The server tells users apart by one carrier of        *)
(* credentials and may give any of its Answers to who it takes the client  *)
(* for.  An answer may set a session cookie: httpx keeps it in the jar of  *)
(* its one client and sends it with the requests after it, whoever they    *)
(* are made for.                                                           *)
(***************************************************************************)
EXTENDS Matrix, Oracles, FiniteSets

CONSTANTS
  HeaderCreds,   \* the configured headers of an identity that carry credentials
  CookieUsers,   \* the identities with configured cookies
  Trusted,       \* the carrier by which the server tells users apart
  Answers,       \* what it may answer: [Targets \X Users -> SUBSET answers]
  Registry,      \* the oracles in the order of their registration
  PluginFindings \* the findings that oracles of third parties may return

(* The headers with credentials: the two that _auth knows, in lower case,  *)
(* and an API key, as a client may spell it and as a configuration may.    *)
HeaderNames == {"authorization", "cookie", "x-api-key", "X-Api-Key"}
Carriers == {"authorization", "cookie", "x-api-key"}
Carrier(name) == IF name = "X-Api-Key" THEN "x-api-key" ELSE name

Texts == DOMAIN Marks
Targets == {r.target : r \in Observable}
Users == Actors \cup {r.owner : r \in Observable} \cup {Anonymous}

BuiltInKinds == {"BOLA", "BFLA", "MASS_ASSIGNMENT"}
Plugins == {i \in DOMAIN Registry : Registry[i] = "PLUGIN"}
BuiltIns == DOMAIN Registry \ Plugins

ASSUME RunnerAssumption ==
  /\ \A r \in Observable : r.creds \subseteq HeaderNames
  /\ HeaderCreds \in [Users \ {Anonymous} -> SUBSET HeaderNames]
  /\ CookieUsers \subseteq Users \ {Anonymous}
  /\ Trusted \in Carriers
  /\ \A t \in Targets, u \in Users : \A a \in Answers[<<t, u>>] :
       a.text \in Texts /\ a.session \in Users
  /\ NoBaseline \notin Texts
  /\ NoText \in Texts
  /\ Marks[NoText] = {}
  /\ Registry \in Seq(BuiltInKinds \cup {"PLUGIN"})
  /\ \A i, j \in BuiltIns : Registry[i] = Registry[j] => i = j
  /\ {NoFinding, Raised} \cap PluginFindings = {}

VARIABLES
  phase,     \* "build", "baseline", "replay" or "done"
  baseline,  \* baselines: a text or NoBaseline; its domain grows
  outcome,   \* of each task: "pending", "answered" or "failed"
  batch,     \* what the worker of each task returned, by oracle
  jars,      \* the sessions the cookie jar has, or had since the replays began
  errors,    \* result.errors
  report,    \* result.findings
  replied    \* history: the text each task got

runVars == <<phase, baseline, outcome, batch, jars, errors, report, replied>>
vars == <<matrixVars, runVars>>

Tasks == 1..Len(tasks)

Init ==
  /\ MatrixInit
  /\ phase = "build"
  /\ baseline = <<>>
  /\ outcome = <<>>
  /\ batch = <<>>
  /\ jars = {Anonymous}
  /\ errors = 0
  /\ report = {}
  /\ replied = <<>>

----------------------------------------------------------------------------

(* Mutant: all the captured headers go out with every replay.              *)
KeptWhole(r) == r.creds

(* What _auth keeps of the captured headers.                               *)
Kept(r) == r.creds \ {"authorization", "cookie"}

(* A header sent is its name and whose credential it holds.  {**headers,   *)
(* **actor.headers}: a configured header replaces one of the same spelling.*)
ReplayHeaders(r, a) ==
  LET own == IF a = Anonymous THEN {} ELSE HeaderCreds[a]
  IN  {<<name, r.owner>> : name \in Kept(r) \ own} \cup {<<name, a>> : name \in own}

BaselineHeaders(r) == {<<name, r.owner>> : name \in r.creds}

(* Whose credentials the server finds in a request with these headers, the *)
(* cookies of user u and a jar.  A Cookie header is sent alone; without    *)
(* one, httpx sends the cookies of the call and of the jar.                *)
Presented(headers, u, jar) ==
  LET read == {h \in headers : Carrier(h[1]) = Trusted}
  IN  IF Trusted = "cookie" /\ read = {}
      THEN {jar} \cup ({u} \cap CookieUsers)
      ELSE {h[2] : h \in read}

(* The server takes it for one of those, if it finds any.                  *)
Taken(presented) ==
  IF presented \subseteq {Anonymous} THEN {Anonymous} ELSE presented \ {Anonymous}

(* Who the server may take a request for.  All replays start together, so  *)
(* that one may be sent with any session that the jar has had since.       *)
TakenFor(headers, u) == UNION {Taken(Presented(headers, u, jar)) : jar \in jars}

(* The dict comprehension over the matrix: a fingerprint keeps the place   *)
(* of its first task and the request of its last.                          *)
FingerprintOf(k) == Fingerprint(tasks[k].request)
FirstWith(k) == \A l \in 1..(k - 1) : FingerprintOf(l) # FingerprintOf(k)
LastRequest(fp) ==
  LET last == CHOOSE k \in Tasks :
                /\ FingerprintOf(k) = fp
                /\ \A l \in (k + 1)..Len(tasks) : FingerprintOf(l) # fp
  IN  tasks[last].request

(* The next baseline to fetch is that of task k.                           *)
NextBaseline(k) ==
  /\ FirstWith(k)
  /\ FingerprintOf(k) \notin DOMAIN baseline
  /\ \A l \in 1..(k - 1) : FingerprintOf(l) \in DOMAIN baseline

(* baselines.get(fingerprint)                                              *)
BaselineOf(k) ==
  IF FingerprintOf(k) \in DOMAIN baseline THEN baseline[FingerprintOf(k)] ELSE NoBaseline

Observation(k, answer) ==
  LET r == tasks[k].request
  IN  [actor |-> tasks[k].actor, owner |-> r.owner, target |-> r.target,
       query |-> r.query, status |-> answer.status, text |-> answer.text,
       baseline |-> BaselineOf(k)]

BaselineUsers(fp) == TakenFor(BaselineHeaders(LastRequest(fp)), LastRequest(fp).owner)
ReplayUsers(k) ==
  TakenFor(ReplayHeaders(tasks[k].request, tasks[k].actor), tasks[k].actor)

(* The answers that a baseline and a replay may get.                       *)
ToBaseline(fp) == UNION {Answers[<<fp, u>>] : u \in BaselineUsers(fp)}
ToReplay(k) == UNION {Answers[<<FingerprintOf(k), u>>] : u \in ReplayUsers(k)}

(* Set-Cookie: an answer without one is for the session of Anonymous.      *)
Replaced(answer) == IF answer.session = Anonymous THEN jars ELSE {answer.session}
Added(answer) == jars \cup ({answer.session} \ {Anonymous})

(* What the plugins conclude, or do, on one answer.                        *)
Verdicts == [Plugins -> PluginFindings \cup {NoFinding, Raised}]

Evaluate(i, obs, verdict) ==
  CASE Registry[i] = "BOLA" -> Bola(obs)
    [] Registry[i] = "BFLA" -> Bfla(obs)
    [] Registry[i] = "MASS_ASSIGNMENT" -> MassAssignment(obs)
    [] Registry[i] = "PLUGIN" -> Plugin(verdict[i])

(* The loop over the oracles: one that raises is passed over.              *)
Judge(obs, verdict) == [i \in DOMAIN Registry |-> Evaluate(i, obs, verdict)]

(* Where a finding stands in the list of all: by task, then by oracle.     *)
Places == Tasks \X DOMAIN Registry
At(p) == batch[p[1]][p[2]]
Before(p, q) == p[1] < q[1] \/ (p[1] = q[1] /\ p[2] < q[2])

(* The dict {f.id: f}: of the findings with one id the last one stays.     *)
Merged ==
  UNION {{f \in At(p) : \A q \in Places : Before(p, q) => \A g \in At(q) : Id(g) # Id(f)} :
           p \in Places}

----------------------------------------------------------------------------

(* build_matrix.                                                           *)
Build ==
  /\ phase = "build"
  /\ MatrixNext
  /\ UNCHANGED runVars

StartBaselines ==
  /\ phase = "build"
  /\ ~Building
  /\ phase' = "baseline"
  /\ outcome' = [k \in Tasks |-> "pending"]
  /\ batch' = [k \in Tasks |-> [i \in DOMAIN Registry |-> {}]]
  /\ replied' = [k \in Tasks |-> NoText]
  /\ UNCHANGED <<matrixVars, baseline, jars, errors, report>>

(* The dict grows by one key.                                              *)
Put(dict, key, value) ==
  [t \in DOMAIN dict \cup {key} |-> IF t = key THEN value ELSE dict[t]]

FetchBaseline(k, answer) ==
  /\ phase = "baseline"
  /\ NextBaseline(k)
  /\ answer \in ToBaseline(FingerprintOf(k))
  /\ baseline' = Put(baseline, FingerprintOf(k), answer.text)
  /\ jars' = Replaced(answer)
  /\ UNCHANGED <<matrixVars, phase, outcome, batch, errors, report, replied>>

(* Mutant: the message of the exception is taken for the body.             *)
BaselineIsError(k) ==
  /\ phase = "baseline"
  /\ NextBaseline(k)
  /\ baseline' = Put(baseline, FingerprintOf(k), "message of the exception")
  /\ UNCHANGED <<matrixVars, phase, outcome, batch, jars, errors, report, replied>>

(* The request for a baseline raises: the baseline is None.  There may     *)
(* have been an answer, a 429 or one cut off, and its cookie is kept.      *)
BaselineFails(k) ==
  /\ phase = "baseline"
  /\ NextBaseline(k)
  /\ baseline' = Put(baseline, FingerprintOf(k), NoBaseline)
  /\ jars' \in {jars} \cup {Replaced(a) : a \in ToBaseline(FingerprintOf(k))}
  /\ UNCHANGED <<matrixVars, phase, outcome, batch, errors, report, replied>>

(* Mutant: the replays wait until no baseline is None.                     *)
StartReplaysComplete ==
  /\ phase = "baseline"
  /\ \A k \in Tasks : FingerprintOf(k) \in DOMAIN baseline /\ BaselineOf(k) # NoBaseline
  /\ phase' = "replay"
  /\ UNCHANGED <<matrixVars, baseline, outcome, batch, jars, errors, report, replied>>

StartReplays ==
  /\ phase = "baseline"
  /\ \A k \in Tasks : FingerprintOf(k) \in DOMAIN baseline
  /\ phase' = "replay"
  /\ UNCHANGED <<matrixVars, baseline, outcome, batch, jars, errors, report, replied>>

(* The worker of task k gets an answer and has it judged.                  *)
Answered(k, answer, verdict) ==
  /\ phase = "replay"
  /\ outcome[k] = "pending"
  /\ answer \in ToReplay(k)
  /\ outcome' = [outcome EXCEPT ![k] = "answered"]
  /\ batch' = [batch EXCEPT ![k] = Judge(Observation(k, answer), verdict)]
  /\ jars' = Added(answer)
  /\ replied' = [replied EXCEPT ![k] = answer.text]
  /\ UNCHANGED <<matrixVars, phase, baseline, errors, report>>

(* Mutant: a failure without an identity is not counted.                   *)
FailedUncounted(k) ==
  /\ phase = "replay"
  /\ outcome[k] = "pending"
  /\ outcome' = [outcome EXCEPT ![k] = "failed"]
  /\ errors' = IF tasks[k].actor = Anonymous THEN errors ELSE errors + 1
  /\ UNCHANGED <<matrixVars, phase, baseline, batch, jars, report, replied>>

(* The call raises, whatever it raises: an error is counted, [] returned.  *)
(* There may have been an answer, whose cookie is kept.                    *)
Failed(k) ==
  /\ phase = "replay"
  /\ outcome[k] = "pending"
  /\ outcome' = [outcome EXCEPT ![k] = "failed"]
  /\ errors' = errors + 1
  /\ jars' \in {jars} \cup {Added(a) : a \in ToReplay(k)}
  /\ UNCHANGED <<matrixVars, phase, baseline, batch, report, replied>>

(* gather returns, in the order of the matrix; findings merge by id.       *)
Finish ==
  /\ phase = "replay"
  /\ \A k \in Tasks : outcome[k] # "pending"
  /\ phase' = "done"
  /\ report' = Merged
  /\ UNCHANGED <<matrixVars, baseline, outcome, batch, jars, errors, replied>>

AllAnswers == UNION {Answers[<<t, u>>] : t \in Targets, u \in Users}

Baselines ==
  \E k \in Tasks :
    \/ \E answer \in AllAnswers : FetchBaseline(k, answer)
    \/ BaselineFails(k)

Replay(k) ==
  \/ \E answer \in AllAnswers, verdict \in Verdicts : Answered(k, answer, verdict)
  \/ Failed(k)

Next ==
  \/ Build
  \/ StartBaselines
  \/ Baselines
  \/ StartReplays
  \/ \E k \in Tasks : Replay(k)
  \/ Finish

(* The event loop runs whoever can run, and each call of the client has an *)
(* outcome (EveryRequestEnds of Egress).                                   *)
Fairness ==
  /\ WF_vars(Build)
  /\ WF_vars(StartBaselines)
  /\ WF_vars(Baselines)
  /\ WF_vars(StartReplays)
  /\ WF_vars(\E k \in Tasks : Replay(k))
  /\ WF_vars(Finish)

Spec == Init /\ [][Next]_vars
FairSpec == Spec /\ Fairness

----------------------------------------------------------------------------

Owners == Users \cup UNION {Marks[t] : t \in Texts}
Findings ==
  [kind : BuiltInKinds, confidence : {"proven", "heuristic"}, actor : Actors,
   victim : Owners, target : Targets, query : {r.query : r \in Observable}]

(* A batch holds what the built-in oracles find, and what a plugin gives.  *)
Batches ==
  {b \in [DOMAIN Registry -> SUBSET (Findings \cup PluginFindings)] :
     \A i \in BuiltIns : b[i] \subseteq Findings}

(* Types of the variables (runner.py:20-24, 84-92).                        *)
TypeOK ==
  /\ MatrixTypeOK
  /\ phase \in {"build", "baseline", "replay", "done"}
  /\ DOMAIN baseline \subseteq Targets
  /\ \A fp \in DOMAIN baseline : baseline[fp] \in Texts \cup {NoBaseline}
  /\ phase # "build" => /\ ~Building
                        /\ outcome \in [Tasks -> {"pending", "answered", "failed"}]
                        /\ DOMAIN batch = Tasks
                        /\ \A k \in Tasks : batch[k] \in Batches
                        /\ replied \in [Tasks -> Texts]
  /\ jars \subseteq Users
  /\ errors \in Nat
  /\ report \subseteq Findings \cup PluginFindings

(* The summary adds up: each task of tasks_run was judged or is counted as *)
(* an error, whatever its call raised (runner.py:84, 92-101).              *)
EveryTaskAccounted ==
  phase = "done" =>
    errors + Cardinality({k \in Tasks : outcome[k] = "answered"}) = Len(tasks)

FromPlugin(f) == \E p \in Places : p[2] \in Plugins /\ f \in At(p)

(* The report has f, or in its place what a plugin returned under its id.  *)
Reported(f) == f \in report \/ \E g \in report : Id(g) = Id(f) /\ FromPlugin(g)

(* Merging by id drops nothing that a built-in oracle found, of any task,  *)
(* unless a plugin used its id: the matrix has one task per fingerprint    *)
(* and actor, and two of them never report under one id.  An id is never   *)
(* lost (runner.py:100-105, models.py:103-106, matrix.py:36-38).           *)
MergeLosesNothing ==
  phase = "done" =>
    \A p \in Places : p[2] \in BuiltIns => \A f \in At(p) : Reported(f)

(* What the built-in oracles return of a task speaks of that task.         *)
BatchOfTask(k) ==
  \A i \in BuiltIns : \A f \in batch[k][i] :
    /\ f.kind = Registry[i]
    /\ f.actor = tasks[k].actor
    /\ f.target = tasks[k].request.target
    /\ \A g \in batch[k][i] : g = f

(* The finding f proves what the task k got that it should not have.       *)
Proof(f, k) ==
  /\ f.kind = "BOLA"
  /\ f.confidence = "proven"
  /\ f.actor = tasks[k].actor
  /\ f.victim \in Marks[replied[k]] \ {f.actor}
  /\ f.target = tasks[k].request.target
  /\ f.query = tasks[k].request.query

BolaRegistered == \E i \in BuiltIns : Registry[i] = "BOLA"

LeakInBatch(k) ==
  Marks[replied[k]] \ {tasks[k].actor} # {} =>
    \E i \in BuiltIns : \E f \in batch[k][i] : Proof(f, k)

(* Every answer that held the canary of another identity is in the report, *)
(* under the actor who got it: neither an oracle that raises, nor a failed *)
(* task or baseline, nor the merge hides it.  Only a plugin that returns a *)
(* finding of the same kind about the same request can put its own in the  *)
(* place of the proof (runner.py:70-78, 92-105, models.py:103-106).        *)
LeaksReported ==
  phase = "done" /\ BolaRegistered =>
    \A k \in Tasks :
      Marks[replied[k]] \ {tasks[k].actor} # {} =>
        \E i \in BuiltIns : \E f \in batch[k][i] : Proof(f, k) /\ Reported(f)

(* The inductive invariant behind the theorems of RunnerProofs (runner.py: *)
(* 57-105).                                                                *)
RunInv ==
  /\ MatrixInv
  /\ phase \in {"build", "baseline", "replay", "done"}
  /\ phase # "build" =>
       /\ outcome \in [Tasks -> {"pending", "answered", "failed"}]
       /\ DOMAIN batch = Tasks
       /\ DOMAIN replied = Tasks
       /\ \A k \in Tasks : BatchOfTask(k)
       /\ BolaRegistered => \A k \in Tasks : LeakInBatch(k)
       /\ errors = Cardinality({k \in Tasks : outcome[k] = "failed"})
  /\ phase = "build" => errors = 0
  /\ phase = "done" => /\ report = Merged
                       /\ \A k \in Tasks : outcome[k] # "pending"

(* The body may be given to the user u by the application itself.          *)
Disclosed(owner, target, u) ==
  \E a \in Answers[<<target, u>>] : owner \in Marks[a.text]

(* Who a replay as actor a may have been for the server: the actor or      *)
(* nobody, and, if it reads the cookie, those whose sessions it set itself.*)
Reach(a) == {a, Anonymous} \cup (IF Trusted = "cookie" THEN jars ELSE {})

(* What docs/faq.md:3-6 says of proven findings, "if identity B's response *)
(* contains identity A's canary, the app leaked A's data": the application *)
(* discloses the victim's canary to the actor, or to anyone, and not only  *)
(* to the victim, whose captured credentials went out before.  This is so  *)
(* of an application that sets no cookie; of one that does, it may be the  *)
(* user of a session which the shared client has kept (runner.py:41-46,    *)
(* 61-63, 88, client.py:37).                                               *)
ProvenMeansDisclosed ==
  phase # "build" =>
    \A k \in Tasks, i \in BuiltIns : \A f \in batch[k][i] :
      f.kind = "BOLA" /\ f.confidence = "proven" =>
        \E u \in Reach(f.actor) : Disclosed(f.victim, f.target, u)

(* A run comes to its end whatever the server and the governor do          *)
(* (runner.py:80-107).                                                     *)
RunEnds == <>(phase = "done")

(* What oracles.py:45 says of the heuristic, "byte-identical to the        *)
(* owner's baseline": a body that is found identical is one the            *)
(* application gives to the victim.                                        *)
HeuristicMeansOwners ==
  phase = "done" =>
    \A k \in Tasks, i \in BuiltIns : \A f \in batch[k][i] :
      f.kind = "BOLA" /\ f.confidence = "heuristic" =>
        \E a \in Answers[<<f.target, f.victim>>] : a.text = replied[k]

=============================================================================
