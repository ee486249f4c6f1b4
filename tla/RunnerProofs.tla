---------------------------- MODULE RunnerProofs ----------------------------
(***************************************************************************)
(* Theorems about the differential run, for every capture, every server,   *)
(* every registry of oracles, every finding a plugin may return and every  *)
(* outcome of the calls.  They rest on the matrix: since it has one task   *)
(* per fingerprint and actor, what the built-in oracles find never shares  *)
(* an id, and the merge drops of it only what a plugin replaces.           *)
(***************************************************************************)
EXTENDS Lab, MatrixProofs, FiniteSetTheorems

(* The registry does not change during a run (runner.py:26-29).            *)
LEMMA RegistryStays ==
  /\ BuiltIns' = BuiltIns /\ Plugins' = Plugins /\ (BolaRegistered' <=> BolaRegistered)
BY DEF BuiltIns, Plugins, BolaRegistered

(* A built-in oracle is of one of the three kinds (oracles.py:48-146).     *)
LEMMA BuiltInIsAKind ==
  ASSUME NEW i \in BuiltIns
  PROVE  /\ i \in DOMAIN Registry /\ Registry[i] \in BuiltInKinds
         /\ \A obs, verdict : Judge(obs, verdict)[i] = Evaluate(i, obs, verdict)
<1>1. i \in DOMAIN Registry /\ Registry[i] # "PLUGIN"
  BY DEF BuiltIns, Plugins
<1>2. Registry[i] \in BuiltInKinds \cup {"PLUGIN"}
  BY <1>1, RunnerAssumption
<1> QED  BY <1>1, <1>2 DEF Judge

(* A built-in oracle speaks of what it observed, in at most one finding    *)
(* (oracles.py:55-146).                                                    *)
LEMMA OneFindingPerOracle ==
  ASSUME NEW i \in BuiltIns, NEW obs, NEW verdict
  PROVE  \A f \in Evaluate(i, obs, verdict) :
           /\ f.kind = Registry[i]
           /\ f.actor = obs.actor
           /\ f.target = obs.target
           /\ \A g \in Evaluate(i, obs, verdict) : g = f
<1> USE DEF Found
<1>1. CASE Registry[i] = "BOLA"
  <2>1. Evaluate(i, obs, verdict) = Bola(obs)
    BY <1>1 DEF Evaluate
  <2>2. CASE Foreign(obs) # {}
    <3>1. PICK v : Bola(obs) = {Found("BOLA", "proven", v, obs)}
      BY <2>2 DEF Bola
    <3> QED  BY <1>1, <2>1, <3>1
  <2>3. CASE Foreign(obs) = {}
    BY <1>1, <2>1, <2>3 DEF Bola
  <2> QED  BY <2>2, <2>3
<1>2. CASE Registry[i] = "BFLA"
  BY <1>2 DEF Evaluate, Bfla
<1>3. CASE Registry[i] = "MASS_ASSIGNMENT"
  BY <1>3 DEF Evaluate, MassAssignment
<1> QED  BY <1>1, <1>2, <1>3, BuiltInIsAKind DEF BuiltInKinds

(* The registry that holds the BOLA oracle reports a foreign canary,       *)
(* whatever the other oracles do (oracles.py:56-64, runner.py:70-78).      *)
LEMMA ForeignCanaryFound ==
  ASSUME NEW obs, NEW verdict, BolaRegistered, Foreign(obs) # {}
  PROVE  \E i \in BuiltIns : \E f \in Judge(obs, verdict)[i] :
           /\ f.kind = "BOLA"
           /\ f.confidence = "proven"
           /\ f.actor = obs.actor
           /\ f.victim \in Foreign(obs)
           /\ f.target = obs.target
           /\ f.query = obs.query
<1> DEFINE o == CHOOSE x \in Foreign(obs) : TRUE
           f == Found("BOLA", "proven", o, obs)
<1>1. o \in Foreign(obs)
  OBVIOUS
<1>2. PICK i \in BuiltIns : Registry[i] = "BOLA"
  BY DEF BolaRegistered
<1>3. f \in Evaluate(i, obs, verdict)
  BY <1>2 DEF Evaluate, Bola
<1>4. f \in Judge(obs, verdict)[i]
  BY <1>3, BuiltInIsAKind
<1> QED  BY <1>1, <1>4 DEF Found

(* The invariant holds before the first step (runner.py:80-84).            *)
LEMMA RunInitEstablishes == Init => RunInv
BY InitEstablishes DEF Init, RunInv

(* The tasks are numbered from 1, and are finitely many (matrix.py:27).    *)
LEMMA TasksAreFinite ==
  ASSUME MatrixInv
  PROVE  Len(tasks) \in Nat /\ IsFiniteSet(Tasks)
<1>1. Len(tasks) \in Nat
  BY DEF MatrixInv, MatrixTypeOK
<1> QED  BY <1>1, FS_Interval DEF Tasks

(* The loops of the matrix leave the runner alone (runner.py:82).          *)
LEMMA BuildKeepsRunInv ==
  ASSUME RunInv, Build
  PROVE  RunInv'
<1>1. MatrixInv'
  BY StepPreserves DEF RunInv, Build
<1> QED  BY <1>1 DEF RunInv, Build, runVars

(* The workers start with nothing: no answer, no finding, no error         *)
(* (runner.py:84-100).                                                     *)
LEMMA StartKeepsRunInv ==
  ASSUME RunInv, StartBaselines
  PROVE  RunInv'
<1>1. /\ MatrixInv /\ UNCHANGED matrixVars /\ phase' = "baseline"
      /\ outcome' = [k \in Tasks |-> "pending"]
      /\ batch' = [k \in Tasks |-> [i \in DOMAIN Registry |-> {}]]
      /\ replied' = [k \in Tasks |-> NoText]
      /\ errors' = 0
  BY DEF RunInv, StartBaselines
<1>2. MatrixInv'
  BY <1>1, StepPreserves
<1>3. Tasks' = Tasks /\ tasks' = tasks
  BY <1>1 DEF matrixVars, Tasks
<1>4. \A k \in Tasks : BatchOfTask(k)' /\ LeakInBatch(k)'
  <2>1. \A k \in Tasks, i \in BuiltIns : batch'[k][i] = {}
    BY <1>1, BuiltInIsAKind
  <2> QED  BY <1>1, <2>1, RunnerAssumption, RegistryStays DEF BatchOfTask, LeakInBatch
<1>5. errors' = Cardinality({k \in Tasks : outcome'[k] = "failed"})
  <2>1. {k \in Tasks : outcome'[k] = "failed"} = {}
    BY <1>1
  <2> QED  BY <1>1, <2>1, FS_EmptySet
<1> QED  BY <1>1, <1>2, <1>3, <1>4, <1>5 DEF RunInv

(* Where neither tasks nor batches nor answers change, a batch speaks of   *)
(* its task as before (runner.py:57-78).                                   *)
LEMMA BatchesUntouched ==
  ASSUME UNCHANGED <<tasks, batch, replied>>
  PROVE  \A k : /\ BatchOfTask(k)' <=> BatchOfTask(k)
                /\ LeakInBatch(k)' <=> LeakInBatch(k)
BY RegistryStays DEF BatchOfTask, LeakInBatch, Proof

(* Baselines and the change to the replays leave the workers alone         *)
(* (runner.py:89-91).                                                      *)
LEMMA BaselinesKeepRunInv ==
  ASSUME RunInv, Baselines \/ StartReplays
  PROVE  RunInv'
<1>1. /\ UNCHANGED <<matrixVars, outcome, batch, errors, report, replied>>
      /\ phase = "baseline" /\ phase' \in {"baseline", "replay"}
  BY DEF Baselines, FetchBaseline, BaselineFails, StartReplays
<1>2. MatrixInv' /\ Tasks' = Tasks /\ tasks' = tasks
  BY <1>1, StepPreserves DEF RunInv, Tasks, matrixVars
<1>3. \A k : (BatchOfTask(k)' <=> BatchOfTask(k)) /\ (LeakInBatch(k)' <=> LeakInBatch(k))
  BY <1>1, <1>2, BatchesUntouched
<1> QED  BY <1>1, <1>2, <1>3, RegistryStays DEF RunInv

(* What one answer adds to what the workers have returned                  *)
(* (runner.py:57-78, 92-98).                                               *)
LEMMA AnswerKeepsRunInv ==
  ASSUME RunInv, NEW j \in Tasks, NEW answer, NEW verdict, Answered(j, answer, verdict)
  PROVE  RunInv'
<1> DEFINE obs == Observation(j, answer)
<1>1. /\ UNCHANGED <<matrixVars, phase, errors, report>> /\ phase = "replay"
      /\ outcome[j] = "pending"
      /\ outcome' = [outcome EXCEPT ![j] = "answered"]
      /\ batch' = [batch EXCEPT ![j] = Judge(obs, verdict)]
      /\ replied' = [replied EXCEPT ![j] = answer.text]
  BY DEF Answered
<1>2. MatrixInv' /\ Tasks' = Tasks /\ tasks' = tasks
  BY <1>1, StepPreserves DEF RunInv, Tasks, matrixVars
<1>3. /\ obs.actor = tasks[j].actor /\ obs.target = tasks[j].request.target
      /\ obs.query = tasks[j].request.query /\ obs.text = answer.text
  BY DEF Observation
<1> HIDE DEF obs
<1>4. /\ outcome \in [Tasks -> {"pending", "answered", "failed"}]
      /\ DOMAIN batch = Tasks
      /\ DOMAIN replied = Tasks
      /\ \A k \in Tasks : BatchOfTask(k)
      /\ BolaRegistered => \A k \in Tasks : LeakInBatch(k)
      /\ errors = Cardinality({k \in Tasks : outcome[k] = "failed"})
  BY <1>1 DEF RunInv
<1>5. /\ outcome' \in [Tasks -> {"pending", "answered", "failed"}]
      /\ DOMAIN batch' = Tasks
      /\ DOMAIN replied' = Tasks
      /\ {k \in Tasks : outcome'[k] = "failed"} = {k \in Tasks : outcome[k] = "failed"}
  BY <1>1, <1>4
<1>6. /\ batch'[j] = Judge(obs, verdict) /\ replied'[j] = answer.text
      /\ \A k \in Tasks \ {j} : batch'[k] = batch[k] /\ replied'[k] = replied[k]
  BY <1>1, <1>4
<1>7. \A k \in Tasks : BatchOfTask(k)'
  <2>1. \A k \in Tasks \ {j} : BatchOfTask(k)'
    BY <1>2, <1>4, <1>6, RegistryStays DEF BatchOfTask
  <2>2. \A i \in BuiltIns : \A f \in Judge(obs, verdict)[i] :
          /\ f.kind = Registry[i]
          /\ f.actor = tasks[j].actor
          /\ f.target = tasks[j].request.target
          /\ \A g \in Judge(obs, verdict)[i] : g = f
    <3> TAKE i \in BuiltIns
    <3>1. Judge(obs, verdict)[i] = Evaluate(i, obs, verdict)
      BY BuiltInIsAKind
    <3> QED  BY <1>3, <3>1, OneFindingPerOracle
  <2>3. BatchOfTask(j)'
    BY <1>2, <1>6, <2>2, RegistryStays DEF BatchOfTask
  <2> QED  BY <2>1, <2>3
<1>8. BolaRegistered => \A k \in Tasks : LeakInBatch(k)'
  <2> SUFFICES ASSUME BolaRegistered, NEW k \in Tasks
               PROVE  LeakInBatch(k)'
    OBVIOUS
  <2>1. CASE k # j
    BY <1>2, <1>4, <1>6, <2>1, RegistryStays DEF LeakInBatch, Proof
  <2>2. CASE k = j
    <3>1. Foreign(obs) = Marks[replied'[j]] \ {tasks[j].actor}
      BY <1>3, <1>6 DEF Foreign
    <3>2. SUFFICES ASSUME Foreign(obs) # {}
                   PROVE  \E i \in BuiltIns : \E f \in batch'[j][i] : Proof(f, j)'
      BY <1>2, <2>2, <3>1, RegistryStays DEF LeakInBatch
    <3>3. PICK i \in BuiltIns :
            \E f \in Judge(obs, verdict)[i] :
              /\ f.kind = "BOLA"
              /\ f.confidence = "proven"
              /\ f.actor = obs.actor
              /\ f.victim \in Foreign(obs)
              /\ f.target = obs.target
              /\ f.query = obs.query
      BY <3>2, ForeignCanaryFound
    <3>4. \E f \in Judge(obs, verdict)[i] : Proof(f, j)'
      BY <1>2, <1>3, <3>1, <3>3 DEF Proof
    <3> QED  BY <1>6, <3>4
  <2> QED  BY <2>1, <2>2
<1>9. phase' = "replay" /\ errors' = errors
  BY <1>1
<1> QED  BY <1>2, <1>4, <1>5, <1>7, <1>8, <1>9, RegistryStays DEF RunInv

(* One call that raises is one error (runner.py:95-98).                    *)
LEMMA FailureKeepsRunInv ==
  ASSUME RunInv, NEW j \in Tasks, Failed(j)
  PROVE  RunInv'
<1>1. /\ UNCHANGED <<matrixVars, phase, batch, replied, report>> /\ phase = "replay"
      /\ outcome[j] = "pending"
      /\ outcome' = [outcome EXCEPT ![j] = "failed"]
      /\ errors' = errors + 1
  BY DEF Failed
<1>2. MatrixInv' /\ Tasks' = Tasks /\ tasks' = tasks
  BY <1>1, StepPreserves DEF RunInv, Tasks, matrixVars
<1> DEFINE old == {k \in Tasks : outcome[k] = "failed"}
           new == {k \in Tasks : outcome'[k] = "failed"}
<1>3. /\ outcome \in [Tasks -> {"pending", "answered", "failed"}]
      /\ errors = Cardinality(old)
  BY <1>1 DEF RunInv
<1>4. outcome' \in [Tasks -> {"pending", "answered", "failed"}]
  BY <1>1, <1>3
<1>5. new = old \cup {j} /\ j \notin old
  BY <1>1, <1>3
<1>6. IsFiniteSet(old)
  BY TasksAreFinite, FS_Subset DEF RunInv
<1> HIDE DEF old, new
<1>7. errors' = Cardinality(new)
  BY <1>1, <1>3, <1>5, <1>6, FS_AddElement
<1>8. \A k : (BatchOfTask(k)' <=> BatchOfTask(k)) /\ (LeakInBatch(k)' <=> LeakInBatch(k))
  BY <1>1, <1>2, BatchesUntouched
<1>9. errors' = Cardinality({k \in Tasks : outcome'[k] = "failed"})
  BY <1>7 DEF new
<1> QED  BY <1>1, <1>2, <1>4, <1>8, <1>9, RegistryStays DEF RunInv

(* The merge takes the batches as they are (runner.py:103-105).            *)
LEMMA MergeUntouched ==
  ASSUME UNCHANGED <<tasks, batch>>
  PROVE  Merged' = Merged
BY DEF Merged, Places, Tasks, At, Before, Id

(* The merge is taken when every worker has returned (runner.py:100-105).  *)
LEMMA FinishKeepsRunInv ==
  ASSUME RunInv, Finish
  PROVE  RunInv'
<1>1. /\ UNCHANGED <<matrixVars, outcome, batch, errors, replied>>
      /\ phase = "replay" /\ phase' = "done" /\ report' = Merged
      /\ \A k \in Tasks : outcome[k] # "pending"
  BY DEF Finish
<1>2. MatrixInv' /\ Tasks' = Tasks /\ tasks' = tasks
  BY <1>1, StepPreserves DEF RunInv, Tasks, matrixVars
<1>3. \A k : (BatchOfTask(k)' <=> BatchOfTask(k)) /\ (LeakInBatch(k)' <=> LeakInBatch(k))
  BY <1>1, <1>2, BatchesUntouched
<1>4. Merged' = Merged
  BY <1>1, <1>2, MergeUntouched
<1> QED  BY <1>1, <1>2, <1>3, <1>4, RegistryStays DEF RunInv

(* Each step of the run keeps its invariant (runner.py:80-107).            *)
LEMMA RunStepKeeps ==
  ASSUME RunInv, [Next]_vars
  PROVE  RunInv'
<1>1. CASE Build
  BY <1>1, BuildKeepsRunInv
<1>2. CASE StartBaselines
  BY <1>2, StartKeepsRunInv
<1>3. CASE Baselines \/ StartReplays
  BY <1>3, BaselinesKeepRunInv
<1>4. CASE \E k \in Tasks : Replay(k)
  BY <1>4, AnswerKeepsRunInv, FailureKeepsRunInv DEF Replay
<1>5. CASE Finish
  BY <1>5, FinishKeepsRunInv
<1>6. CASE UNCHANGED vars
  <2>1. UNCHANGED <<matrixVars, phase, outcome, batch, errors, report, replied>>
    BY <1>6 DEF vars, runVars
  <2>2. MatrixInv' /\ Tasks' = Tasks /\ tasks' = tasks
    BY <2>1, StepPreserves DEF RunInv, Tasks, matrixVars
  <2>3. \A k : (BatchOfTask(k)' <=> BatchOfTask(k)) /\ (LeakInBatch(k)' <=> LeakInBatch(k))
    BY <2>1, <2>2, BatchesUntouched
  <2>4. Merged' = Merged
    BY <2>1, <2>2, MergeUntouched
  <2> QED  BY <2>1, <2>2, <2>3, <2>4, RegistryStays DEF RunInv
<1> QED  BY <1>1, <1>2, <1>3, <1>4, <1>5, <1>6 DEF Next

(* The invariant of the run (runner.py:80-107).                            *)
THEOREM RunInvariant == Spec => []RunInv
<1>1. RunInv /\ [Next]_vars => RunInv'
  BY RunStepKeeps
<1> QED  BY <1>1, RunInitEstablishes, PTL DEF Spec

(* A set of numbers up to n has a greatest one.  Otherwise the numbers     *)
(* below one of its members would be as many without 0 as with it.         *)
LEMMA GreatestExists ==
  ASSUME NEW n \in Nat, NEW S \in SUBSET (1..n), S # {}
  PROVE  \E x \in S : \A y \in S : y <= x
<1> DEFINE below == {x \in 0..n : \E y \in S : x <= y}
           next == [x \in below |-> x + 1]
<1>1. SUFFICES ASSUME \A x \in S : \E y \in S : x < y
               PROVE  FALSE
  OBVIOUS
<1>2. IsFiniteSet(below)
  <2>1. IsFiniteSet(0..n)
    BY FS_Interval
  <2>2. below \in SUBSET (0..n)
    OBVIOUS
  <2> QED  BY <2>1, <2>2, FS_Subset
<1>3. 0 \in below
  <2>1. PICK y \in S : TRUE
    OBVIOUS
  <2>2. y \in 1..n /\ 0 <= y /\ 0 \in 0..n
    BY <2>1
  <2> QED  BY <2>1, <2>2
<1>4. \A x \in below : x + 1 \in below \ {0}
  BY <1>1
<1>5. next \in Injection(below, below \ {0})
  <2>1. next \in [below -> below \ {0}]
    BY <1>4
  <2>2. \A a, b \in below : next[a] = next[b] => a = b
    OBVIOUS
  <2> QED  BY <2>1, <2>2 DEF Injection, IsInjective
<1> HIDE DEF below, next
<1>6. IsFiniteSet(below \ {0}) /\ Cardinality(below \ {0}) = Cardinality(below) - 1
  BY <1>2, <1>3, FS_RemoveElement
<1>7. Cardinality(below) <= Cardinality(below \ {0})
  BY <1>5, <1>6, FS_Injection
<1> QED  BY <1>2, <1>6, <1>7, FS_CardinalityType

(* Two findings of built-in oracles with one id come from one place and    *)
(* are one finding (models.py:103-106, matrix.py:36-38).                   *)
LEMMA IdsAreUnique ==
  ASSUME RunInv, phase # "build",
         NEW k \in Tasks, NEW i \in BuiltIns, NEW l \in Tasks, NEW j \in BuiltIns,
         NEW f \in batch[k][i], NEW g \in batch[l][j], Id(f) = Id(g)
  PROVE  k = l /\ i = j /\ f = g
<1>1. f.kind = g.kind /\ f.actor = g.actor /\ f.target = g.target
  BY DEF Id
<1>2. BatchOfTask(k) /\ BatchOfTask(l)
  BY DEF RunInv
<1>3. /\ f.kind = Registry[i] /\ g.kind = Registry[j]
      /\ f.actor = tasks[k].actor /\ f.target = tasks[k].request.target
      /\ g.actor = tasks[l].actor /\ g.target = tasks[l].request.target
  BY <1>2 DEF BatchOfTask
<1>4. i = j
  BY <1>1, <1>3, RunnerAssumption
<1>5. TaskKey(k) = TaskKey(l)
  BY <1>1, <1>3 DEF TaskKey, Key, Fingerprint
<1>6. k = l
  BY <1>5 DEF RunInv, MatrixInv, EachCellOnce, Tasks
<1>7. f = g
  BY <1>2, <1>4, <1>6 DEF BatchOfTask
<1> QED  BY <1>4, <1>6, <1>7

(* An id that any oracle used is in the report, with what the last one to  *)
(* use it said (runner.py:104).                                            *)
LEMMA NoIdIsLost ==
  ASSUME MatrixInv, NEW p \in Places, NEW f \in At(p)
  PROVE  \E q \in Places : \E g \in At(q) : Id(g) = Id(f) /\ g \in Merged
<1> DEFINE Used(k, i) == \E g \in batch[k][i] : Id(g) = Id(f)
           S == {k \in Tasks : \E i \in DOMAIN Registry : Used(k, i)}
<1>1. Len(tasks) \in Nat
  BY TasksAreFinite
<1>2. Len(Registry) \in Nat /\ DOMAIN Registry = 1..Len(Registry)
  BY RunnerAssumption
<1>3. p[1] \in Tasks /\ p[2] \in DOMAIN Registry /\ Used(p[1], p[2])
  BY DEF Places, At
<1>4. p[1] \in S
  BY <1>3
<1>5. S \in SUBSET (1..Len(tasks)) /\ S # {}
  BY <1>4 DEF Tasks
<1> HIDE DEF S
<1>6. PICK k \in S : \A l \in S : l <= k
  BY <1>1, <1>5, GreatestExists
<1> DEFINE T == {i \in DOMAIN Registry : Used(k, i)}
<1>7. k \in Tasks /\ T # {}
  BY <1>6 DEF S
<1>8. T \in SUBSET (1..Len(Registry))
  BY <1>2
<1> HIDE DEF T
<1>9. PICK i \in T : \A j \in T : j <= i
  BY <1>2, <1>7, <1>8, GreatestExists
<1>10. i \in DOMAIN Registry /\ Used(k, i)
  BY <1>9 DEF T
<1>11. PICK g \in batch[k][i] : Id(g) = Id(f)
  BY <1>10
<1> DEFINE q == <<k, i>>
<1>12. q \in Places /\ g \in At(q) /\ q[1] = k /\ q[2] = i
  BY <1>7, <1>10, <1>11 DEF Places, At
<1>13. ASSUME NEW r \in Places, Before(q, r), NEW h \in At(r), Id(h) = Id(g)
       PROVE  FALSE
  <2>1. r[1] \in Tasks /\ r[2] \in DOMAIN Registry /\ Used(r[1], r[2])
    BY <1>11, <1>13 DEF Places, At
  <2>2. r[1] \in S
    BY <2>1 DEF S
  <2>3. r[1] \in 1..Len(tasks) /\ k \in 1..Len(tasks) /\ r[1] <= k
    BY <1>6, <1>7, <2>1, <2>2 DEF Tasks
  <2>4. r[1] = k /\ i < r[2]
    BY <1>1, <1>12, <1>13, <2>3 DEF Before
  <2>5. r[2] \in T
    BY <2>1, <2>4 DEF T
  <2>6. r[2] \in 1..Len(Registry) /\ i \in 1..Len(Registry) /\ r[2] <= i
    BY <1>2, <1>9, <1>10, <2>1, <2>5
  <2> QED  BY <1>2, <2>4, <2>6
<1> HIDE DEF q
<1>14. g \in Merged
  BY <1>12, <1>13 DEF Merged
<1> QED  BY <1>11, <1>12, <1>14

(* The merge by id drops no finding of a built-in oracle but for one of a  *)
(* plugin (runner.py:103-105).                                             *)
LEMMA OnlyPluginsReplace == RunInv => MergeLosesNothing
<1> SUFFICES ASSUME RunInv, phase = "done", NEW p \in Places, p[2] \in BuiltIns,
                    NEW f \in At(p)
             PROVE  Reported(f)
  BY DEF MergeLosesNothing
<1>1. MatrixInv /\ report = Merged
  BY DEF RunInv
<1>2. PICK q \in Places : \E h \in At(q) : Id(h) = Id(f) /\ h \in Merged
  BY <1>1, NoIdIsLost
<1>3. PICK g \in At(q) : Id(g) = Id(f) /\ g \in Merged
  BY <1>2
<1>4. q[2] \in DOMAIN Registry /\ p[1] \in Tasks /\ q[1] \in Tasks
  BY DEF Places
<1>5. CASE q[2] \in Plugins
  BY <1>1, <1>3, <1>5 DEF Reported, FromPlugin
<1>6. CASE q[2] \in BuiltIns
  <2>1. f \in batch[p[1]][p[2]] /\ g \in batch[q[1]][q[2]]
    BY DEF At
  <2>2. f = g
    BY <1>3, <1>4, <1>6, <2>1, IdsAreUnique
  <2> QED  BY <1>1, <1>3, <2>2 DEF Reported
<1> QED  BY <1>4, <1>5, <1>6 DEF BuiltIns

(* Whatever the plugins return, no finding of a built-in oracle is lost    *)
(* between the workers and the report, unless a plugin used its id         *)
(* (runner.py:100-105).                                                    *)
THEOREM NothingLost == Spec => []MergeLosesNothing
BY RunInvariant, OnlyPluginsReplace, PTL

(* Every foreign canary that a replay brought back is reported, under the  *)
(* actor who got it (runner.py:57-78, 92-105).                             *)
LEMMA RunLeaksReported == RunInv => LeaksReported
<1> SUFFICES ASSUME RunInv, phase = "done", BolaRegistered, NEW k \in Tasks,
                    Marks[replied[k]] \ {tasks[k].actor} # {}
             PROVE  \E i \in BuiltIns : \E f \in batch[k][i] : Proof(f, k) /\ Reported(f)
  BY DEF LeaksReported
<1>1. PICK i \in BuiltIns : \E g \in batch[k][i] : Proof(g, k)
  BY DEF RunInv, LeakInBatch
<1>2. PICK f \in batch[k][i] : Proof(f, k)
  BY <1>1
<1> DEFINE p == <<k, i>>
<1>3. p \in Places /\ p[2] \in BuiltIns /\ f \in At(p)
  BY BuiltInIsAKind DEF Places, At
<1> HIDE DEF p
<1>4. Reported(f)
  BY <1>3, OnlyPluginsReplace DEF MergeLosesNothing
<1> QED  BY <1>2, <1>4

(* No canary of another identity that came back is left out of the report, *)
(* whatever else failed, unless a plugin put a finding of its own in the   *)
(* place of the proof (runner.py:70-78, 92-105).                           *)
THEOREM EveryLeakReported == Spec => []LeaksReported
BY RunLeaksReported, RunInvariant, PTL

(* The tasks of a finished run are the judged ones and the errors          *)
(* (runner.py:84, 92-101).                                                 *)
THEOREM TasksAddUp == Spec => []EveryTaskAccounted
<1>1. RunInv => EveryTaskAccounted
  <2> DEFINE lost == {k \in Tasks : outcome[k] = "failed"}
             kept == {k \in Tasks : outcome[k] = "answered"}
  <2> SUFFICES ASSUME RunInv, phase = "done"
               PROVE  errors + Cardinality(kept) = Len(tasks)
    BY DEF EveryTaskAccounted
  <2>1. /\ errors = Cardinality(lost)
        /\ outcome \in [Tasks -> {"pending", "answered", "failed"}]
        /\ \A k \in Tasks : outcome[k] # "pending"
    BY DEF RunInv
  <2>2. Len(tasks) \in Nat /\ IsFiniteSet(Tasks)
    BY TasksAreFinite DEF RunInv
  <2>3. IsFiniteSet(lost) /\ IsFiniteSet(kept)
    BY <2>2, FS_Subset
  <2>4. Tasks = lost \cup kept /\ lost \cap kept = {}
    BY <2>1
  <2>5. Cardinality(Tasks) = Len(tasks)
    BY <2>2, FS_Interval DEF Tasks
  <2> HIDE DEF lost, kept
  <2>6. Cardinality(lost) \in Nat /\ Cardinality(kept) \in Nat
    BY <2>3, FS_CardinalityType
  <2>7. Cardinality(lost \cup kept)
          = Cardinality(lost) + Cardinality(kept) - Cardinality(lost \cap kept)
    BY <2>3, FS_Union
  <2>8. Cardinality(lost \cap kept) = 0
    BY <2>4, FS_EmptySet
  <2> QED  BY <2>1, <2>4, <2>5, <2>6, <2>7, <2>8
<1> QED  BY <1>1, RunInvariant, PTL

(* What is made of the constants alone stays (runner.py:57-64).            *)
LEMMA RunConstantsStay ==
  /\ Targets' = Targets /\ Users' = Users /\ Owners' = Owners /\ Findings' = Findings
  /\ Texts' = Texts /\ Batches' = Batches
<1>1. Targets' = Targets /\ Texts' = Texts
  BY DEF Targets, Texts
<1>2. Users' = Users
  BY ConstantsStay DEF Users
<1>3. Owners' = Owners
  BY <1>1, <1>2 DEF Owners
<1>4. Findings' = Findings
  BY <1>1, <1>2, <1>3, ConstantsStay DEF Findings
<1> QED  BY <1>1, <1>2, <1>3, <1>4, RegistryStays DEF Batches

(* What the oracles of the registry return is well formed, whatever the    *)
(* plugins return (oracles.py:55-146, runner.py:70-78).                    *)
LEMMA BatchesAreTyped ==
  ASSUME NEW obs, NEW verdict \in Verdicts, obs.actor \in Actors, obs.owner \in Users,
         obs.target \in Targets, obs.query \in {r.query : r \in Observable},
         obs.text \in Texts
  PROVE  Judge(obs, verdict) \in Batches
<1>1. Actors \subseteq Owners /\ Users \subseteq Owners /\ Marks[obs.text] \subseteq Owners
  BY DEF Owners, Users
<1>2. \A kind \in BuiltInKinds, confidence \in {"proven", "heuristic"}, victim \in Owners :
        Found(kind, confidence, victim, obs) \in Findings
  BY DEF Found, Findings
<1>3. ASSUME NEW i \in BuiltIns PROVE Evaluate(i, obs, verdict) \subseteq Findings
  <2>1. CASE Registry[i] = "BOLA"
    <3>1. Evaluate(i, obs, verdict) = Bola(obs)
      BY <2>1 DEF Evaluate
    <3>2. CASE Foreign(obs) # {}
      <4>1. PICK v \in Foreign(obs) : Bola(obs) = {Found("BOLA", "proven", v, obs)}
        BY <3>2 DEF Bola
      <4>2. v \in Owners
        BY <1>1 DEF Foreign
      <4> QED  BY <1>2, <3>1, <4>1, <4>2 DEF BuiltInKinds
    <3>3. CASE Foreign(obs) = {}
      BY <1>1, <1>2, <3>1, <3>3 DEF Bola, BuiltInKinds
    <3> QED  BY <3>2, <3>3
  <2>2. CASE Registry[i] = "BFLA"
    BY <1>1, <1>2, <2>2 DEF Evaluate, Bfla, BuiltInKinds
  <2>3. CASE Registry[i] = "MASS_ASSIGNMENT"
    BY <1>1, <1>2, <2>3 DEF Evaluate, MassAssignment, BuiltInKinds
  <2> QED  BY <2>1, <2>2, <2>3, BuiltInIsAKind DEF BuiltInKinds
<1>4. ASSUME NEW i \in Plugins PROVE Evaluate(i, obs, verdict) \subseteq PluginFindings
  <2>1. Registry[i] = "PLUGIN" /\ verdict[i] \in PluginFindings \cup {NoFinding, Raised}
    BY DEF Plugins, Verdicts
  <2>2. Evaluate(i, obs, verdict) = Plugin(verdict[i])
    BY <2>1 DEF Evaluate
  <2> QED  BY <2>1, <2>2 DEF Plugin
<1>5. \A i \in DOMAIN Registry : Evaluate(i, obs, verdict) \subseteq Findings \cup PluginFindings
  BY <1>3, <1>4 DEF BuiltIns
<1>6. Judge(obs, verdict) \in [DOMAIN Registry -> SUBSET (Findings \cup PluginFindings)]
  BY <1>5 DEF Judge
<1>7. \A i \in BuiltIns : Judge(obs, verdict)[i] \subseteq Findings
  BY <1>3, BuiltInIsAKind
<1> QED  BY <1>6, <1>7 DEF Batches

(* What a task replays, and what its worker gets from the oracles          *)
(* (runner.py:57-78).                                                      *)
LEMMA ObservationsAreTyped ==
  ASSUME MatrixTypeOK, NEW k \in Tasks, NEW answer, answer.text \in Texts
  PROVE  /\ tasks[k].request \in Observable /\ tasks[k].actor \in Actors
         /\ FingerprintOf(k) \in Targets
         /\ {tasks[k].request.owner, tasks[k].actor} \subseteq Users
         /\ \A verdict \in Verdicts : Judge(Observation(k, answer), verdict) \in Batches
<1>1. tasks[k] \in TaskRecords
  BY DEF MatrixTypeOK, Tasks
<1>2. tasks[k].request \in Observable /\ tasks[k].actor \in Actors
  BY <1>1 DEF TaskRecords
<1>3. FingerprintOf(k) \in Targets /\ {tasks[k].request.owner, tasks[k].actor} \subseteq Users
  BY <1>2 DEF FingerprintOf, Fingerprint, Targets, Users
<1> DEFINE obs == Observation(k, answer)
<1>4. /\ obs.actor \in Actors /\ obs.owner \in Users /\ obs.target \in Targets
      /\ obs.query \in {r.query : r \in Observable} /\ obs.text \in Texts
  BY <1>2, <1>3 DEF Observation, Targets
<1> HIDE DEF obs
<1>5. \A verdict \in Verdicts : Judge(obs, verdict) \in Batches
  BY <1>4, BatchesAreTyped
<1> QED  BY <1>2, <1>3, <1>5 DEF obs

(* The baseline of a fingerprint is fetched by a captured request with it  *)
(* (runner.py:89-90).                                                      *)
LEMMA BaselineIsCaptured ==
  ASSUME MatrixInv, NEW k \in Tasks
  PROVE  \E l \in Tasks : /\ LastRequest(FingerprintOf(k)) = tasks[l].request
                          /\ FingerprintOf(l) = FingerprintOf(k)
<1> DEFINE S == {l \in Tasks : FingerprintOf(l) = FingerprintOf(k)}
<1>1. Len(tasks) \in Nat
  BY TasksAreFinite
<1>2. PICK x \in S : \A y \in S : y <= x
  BY <1>1, GreatestExists DEF Tasks
<1>3. \A l \in (x + 1)..Len(tasks) : FingerprintOf(l) # FingerprintOf(k)
  BY <1>1, <1>2 DEF Tasks
<1> QED  BY <1>2, <1>3 DEF LastRequest

(* A request goes out with the credentials of its actor, of who captured   *)
(* it, of the owner of a session, or with none (runner.py:36-63).          *)
LEMMA TakenIsKnown ==
  ASSUME NEW headers, NEW u
  PROVE  TakenFor(headers, u) \subseteq
           {Anonymous, u} \cup jars \cup {h[2] : h \in headers}
<1>1. ASSUME NEW jar \in jars
      PROVE  Presented(headers, u, jar) \subseteq {u} \cup jars \cup {h[2] : h \in headers}
  BY DEF Presented
<1> QED  BY <1>1 DEF TakenFor, Taken

(* A call is of somebody known, and so is the session of its answer        *)
(* (runner.py:36-63, 88).                                                  *)
LEMMA CallsAreKnown ==
  ASSUME MatrixInv, jars \subseteq Users, NEW k \in Tasks
  PROVE  /\ tasks[k].request \in Observable /\ tasks[k].actor \in Actors
         /\ FingerprintOf(k) \in Targets
         /\ ReplayUsers(k) \subseteq Users
         /\ BaselineUsers(FingerprintOf(k)) \subseteq Users
         /\ \A a \in ToReplay(k) \cup ToBaseline(FingerprintOf(k)) :
              a \in AllAnswers /\ a.text \in Texts /\ a.session \in Users
<1>1. \A l \in Tasks : /\ tasks[l].request \in Observable /\ tasks[l].actor \in Actors
                       /\ FingerprintOf(l) \in Targets
                       /\ {tasks[l].request.owner, tasks[l].actor} \subseteq Users
  <2>1. MatrixTypeOK /\ [text |-> NoText].text \in Texts
    BY RunnerAssumption DEF MatrixInv
  <2> QED  BY <2>1, ObservationsAreTyped
<1>2. Anonymous \in Users
  BY DEF Users
<1>3. ReplayUsers(k) \subseteq Users
  <2> DEFINE headers == ReplayHeaders(tasks[k].request, tasks[k].actor)
  <2>1. \A h \in headers : h[2] \in Users
    BY <1>1 DEF ReplayHeaders
  <2> QED  BY <1>1, <1>2, <2>1, TakenIsKnown DEF ReplayUsers
<1>4. BaselineUsers(FingerprintOf(k)) \subseteq Users
  <2> DEFINE r == LastRequest(FingerprintOf(k))
  <2>1. PICK l \in Tasks : r = tasks[l].request
    BY BaselineIsCaptured
  <2>2. r.owner \in Users
    BY <1>1, <2>1
  <2> HIDE DEF r
  <2>3. \A h \in BaselineHeaders(r) : h[2] \in Users
    BY <2>2 DEF BaselineHeaders
  <2> QED  BY <1>2, <2>2, <2>3, TakenIsKnown DEF BaselineUsers, r
<1>5. ASSUME NEW a, NEW u \in Users, a \in Answers[<<FingerprintOf(k), u>>]
      PROVE  a \in AllAnswers /\ a.text \in Texts /\ a.session \in Users
  BY <1>1, <1>5, RunnerAssumption DEF AllAnswers
<1>6. \A a \in ToReplay(k) : \E u \in Users : a \in Answers[<<FingerprintOf(k), u>>]
  BY <1>3 DEF ToReplay
<1>7. \A a \in ToBaseline(FingerprintOf(k)) :
        \E u \in Users : a \in Answers[<<FingerprintOf(k), u>>]
  BY <1>4 DEF ToBaseline
<1> QED  BY <1>1, <1>3, <1>4, <1>5, <1>6, <1>7

(* Every step keeps the types (runner.py:80-107).                          *)
LEMMA RunTypes ==
  ASSUME TypeOK, RunInv, RunInv', [Next]_vars
  PROVE  TypeOK'
<1> USE RunConstantsStay
<1>1. MatrixTypeOK' /\ phase' \in {"build", "baseline", "replay", "done"}
  BY DEF RunInv, MatrixInv
<1>2. MatrixInv /\ jars \subseteq Users
  BY DEF RunInv, TypeOK
<1>3. \A k \in Tasks : FingerprintOf(k) \in Targets
  BY <1>2, CallsAreKnown
<1>4. ASSUME UNCHANGED matrixVars PROVE Tasks' = Tasks /\ (Building' <=> Building)
  BY <1>4 DEF matrixVars, Tasks, Building
<1>5. CASE Build
  BY <1>1, <1>5 DEF Build, runVars, TypeOK
<1>6. CASE StartBaselines
  <2>1. [i \in DOMAIN Registry |-> {}] \in Batches
    BY DEF Batches, BuiltIns
  <2>2. /\ outcome' \in [Tasks -> {"pending", "answered", "failed"}]
        /\ DOMAIN batch' = Tasks /\ \A k \in Tasks : batch'[k] \in Batches
        /\ replied' \in [Tasks -> Texts]
    BY <1>6, <2>1, RunnerAssumption DEF StartBaselines
  <2>3. ~Building' /\ Tasks' = Tasks /\ UNCHANGED <<baseline, jars, errors, report>>
    BY <1>4, <1>6 DEF StartBaselines
  <2> QED  BY <1>1, <2>2, <2>3 DEF TypeOK
<1>7. ASSUME NEW k \in Tasks, NEW text \in Texts \cup {NoBaseline}, phase = "baseline",
             baseline' = Put(baseline, FingerprintOf(k), text),
             jars' \in {jars} \cup {Replaced(a) : a \in ToBaseline(FingerprintOf(k))},
             UNCHANGED <<matrixVars, phase, outcome, batch, errors, report, replied>>
      PROVE  TypeOK'
  <2>1. /\ DOMAIN baseline' \subseteq Targets
        /\ \A fp \in DOMAIN baseline' : baseline'[fp] \in Texts \cup {NoBaseline}
    BY <1>3, <1>7 DEF Put, TypeOK
  <2>2. jars' \subseteq Users
    BY <1>2, <1>7, CallsAreKnown DEF Replaced
  <2> QED  BY <1>1, <1>4, <1>7, <2>1, <2>2 DEF TypeOK
<1>8. CASE Baselines
  <2>1. ASSUME NEW k \in Tasks, NEW answer, FetchBaseline(k, answer)
        PROVE  TypeOK'
    <3>1. answer \in ToBaseline(FingerprintOf(k)) /\ answer.text \in Texts
      BY <1>2, <2>1, CallsAreKnown DEF FetchBaseline
    <3> QED  BY <1>7, <2>1, <3>1 DEF FetchBaseline
  <2>2. ASSUME NEW k \in Tasks, BaselineFails(k)
        PROVE  TypeOK'
    BY <1>7, <2>2 DEF BaselineFails
  <2> QED  BY <1>8, <2>1, <2>2 DEF Baselines
<1>9. CASE StartReplays
  <2>1. /\ phase = "baseline"
        /\ UNCHANGED <<matrixVars, baseline, outcome, batch, jars, errors, report, replied>>
    BY <1>9 DEF StartReplays
  <2> QED  BY <1>1, <1>4, <2>1 DEF TypeOK
<1>10. ASSUME NEW k \in Tasks, NEW answer, NEW verdict \in Verdicts,
              Answered(k, answer, verdict)
       PROVE  TypeOK'
  <2>1. /\ phase = "replay" /\ UNCHANGED <<matrixVars, phase, baseline, errors, report>>
        /\ outcome' = [outcome EXCEPT ![k] = "answered"]
        /\ batch' = [batch EXCEPT ![k] = Judge(Observation(k, answer), verdict)]
        /\ jars' = Added(answer)
        /\ replied' = [replied EXCEPT ![k] = answer.text]
    BY <1>10 DEF Answered
  <2>2. answer.text \in Texts /\ answer.session \in Users
    BY <1>2, <1>10, CallsAreKnown DEF Answered
  <2>3. Judge(Observation(k, answer), verdict) \in Batches
    BY <2>2, ObservationsAreTyped DEF TypeOK
  <2>4. /\ outcome' \in [Tasks -> {"pending", "answered", "failed"}]
        /\ DOMAIN batch' = Tasks /\ \A l \in Tasks : batch'[l] \in Batches
        /\ replied' \in [Tasks -> Texts]
    BY <2>1, <2>2, <2>3 DEF TypeOK
  <2>5. jars' \subseteq Users
    BY <1>2, <2>1, <2>2 DEF Added
  <2> QED  BY <1>1, <1>4, <2>1, <2>4, <2>5 DEF TypeOK
<1>11. ASSUME NEW k \in Tasks, Failed(k)
       PROVE  TypeOK'
  <2>1. /\ phase = "replay" /\ UNCHANGED <<matrixVars, phase, baseline, batch, report, replied>>
        /\ outcome' = [outcome EXCEPT ![k] = "failed"] /\ errors' = errors + 1
        /\ jars' \in {jars} \cup {Added(a) : a \in ToReplay(k)}
    BY <1>11 DEF Failed
  <2>2. outcome' \in [Tasks -> {"pending", "answered", "failed"}] /\ errors' \in Nat
    BY <2>1 DEF TypeOK
  <2>3. jars' \subseteq Users
    BY <1>2, <2>1, CallsAreKnown DEF Added
  <2> QED  BY <1>1, <1>4, <2>1, <2>2, <2>3 DEF TypeOK
<1>12. CASE Finish
  <2>1. /\ phase = "replay" /\ report' = Merged
        /\ UNCHANGED <<matrixVars, baseline, outcome, batch, jars, errors, replied>>
    BY <1>12 DEF Finish
  <2>2. Merged \subseteq Findings \cup PluginFindings
    <3>1. \A p \in Places : At(p) \subseteq Findings \cup PluginFindings
      BY <2>1 DEF Places, At, TypeOK, Batches
    <3> QED  BY <3>1 DEF Merged
  <2> QED  BY <1>1, <1>4, <2>1, <2>2 DEF TypeOK
<1>13. CASE UNCHANGED vars
  <2>1. UNCHANGED <<matrixVars, phase, baseline, outcome, batch, jars, errors, report, replied>>
    BY <1>13 DEF vars, runVars
  <2> QED  BY <1>1, <1>4, <2>1 DEF TypeOK
<1> QED
  BY <1>5, <1>6, <1>8, <1>9, <1>10, <1>11, <1>12, <1>13 DEF Next, Replay

(* The types hold before the first cell of the matrix.                     *)
LEMMA RunInitTypes == Init => TypeOK
<1> SUFFICES ASSUME Init PROVE TypeOK
  OBVIOUS
<1>1. MatrixTypeOK
  BY InitEstablishes DEF Init, MatrixInv
<1>2. Anonymous \in Users
  BY DEF Users
<1> QED  BY <1>1, <1>2 DEF Init, TypeOK

(* Every variable of the run keeps its type, whatever the plugins return   *)
(* (runner.py:20-24, 80-107).                                              *)
THEOREM TypeCorrect == Spec => []TypeOK
<1>1. TypeOK /\ RunInv /\ RunInv' /\ [Next]_vars => TypeOK'
  BY RunTypes
<1> QED
  BY <1>1, RunInitTypes, RunInvariant, PTL DEF Spec

(* The server may give what the finding f proves to its actor, to anyone,  *)
(* or to who has a session in the jar.                                     *)
Earned(f) ==
  f.kind = "BOLA" /\ f.confidence = "proven" =>
    \E u \in Reach(f.actor) : Disclosed(f.victim, f.target, u)

(* That of all that the built-in oracles have found, from the first replay *)
(* on; before it there is nothing, while the sessions change.              *)
EarnedSoFar ==
  /\ phase = "baseline" => \A k \in Tasks, i \in BuiltIns : batch[k][i] = {}
  /\ phase \in {"replay", "done"} =>
       \A k \in Tasks, i \in BuiltIns : \A f \in batch[k][i] : Earned(f)

(* To a server that looks at one of the two headers which _auth drops, a   *)
(* replay comes from its actor, from nobody, or, if it reads the cookie,   *)
(* from the user of a session in the jar (runner.py:36-48, 61-63).         *)
LEMMA SentAsTheActor ==
  ASSUME Trusted \in {"authorization", "cookie"}, NEW r \in Observable, NEW a
  PROVE  TakenFor(ReplayHeaders(r, a), a) \subseteq Reach(a)
<1> DEFINE headers == ReplayHeaders(r, a)
<1>1. Kept(r) \subseteq {"x-api-key", "X-Api-Key"}
  BY RunnerAssumption DEF Kept, HeaderNames
<1>2. \A h \in headers : Carrier(h[1]) = Trusted => h[2] = a
  <2>1. \A name \in Kept(r) : Carrier(name) # Trusted
    BY <1>1 DEF Carrier
  <2> QED  BY <2>1 DEF ReplayHeaders
<1> HIDE DEF headers
<1>3. ASSUME NEW jar \in jars
      PROVE  Presented(headers, a, jar) \subseteq
               {a} \cup (IF Trusted = "cookie" THEN jars ELSE {})
  BY <1>2 DEF Presented
<1>4. TakenFor(headers, a) \subseteq Reach(a)
  BY <1>3 DEF TakenFor, Taken, Reach
<1> QED  BY <1>4 DEF headers

(* What the BOLA oracle takes for proven names an owner other than the     *)
(* actor whose canary is in the answer (oracles.py:55-64).                 *)
LEMMA ProofNamesForeign ==
  ASSUME NEW obs, NEW verdict, NEW i \in BuiltIns, NEW f \in Judge(obs, verdict)[i],
         f.kind = "BOLA", f.confidence = "proven"
  PROVE  f.actor = obs.actor /\ f.target = obs.target /\ f.victim \in Foreign(obs)
<1>1. f \in Evaluate(i, obs, verdict)
  BY BuiltInIsAKind
<1>2. Registry[i] = "BOLA" /\ f.actor = obs.actor /\ f.target = obs.target
  BY <1>1, OneFindingPerOracle
<1>3. f \in Bola(obs)
  BY <1>1, <1>2 DEF Evaluate
<1>4. CASE Foreign(obs) # {}
  <2>1. PICK v \in Foreign(obs) : Bola(obs) = {Found("BOLA", "proven", v, obs)}
    BY <1>4 DEF Bola
  <2> QED  BY <1>2, <1>3, <2>1 DEF Found
<1>5. CASE Foreign(obs) = {}
  BY <1>3, <1>5 DEF Bola, Found
<1> QED  BY <1>2, <1>4, <1>5

(* So what it proves of the answer to a replay is earned.                  *)
LEMMA AnswerIsEarned ==
  ASSUME Trusted \in {"authorization", "cookie"}, MatrixInv,
         NEW k \in Tasks, NEW answer, NEW verdict, Answered(k, answer, verdict),
         NEW i \in BuiltIns, NEW f \in Judge(Observation(k, answer), verdict)[i]
  PROVE  Earned(f)
<1> DEFINE obs == Observation(k, answer)
<1>1. tasks[k].request \in Observable
  BY RunnerAssumption, ObservationsAreTyped, [text |-> NoText].text = NoText DEF MatrixInv
<1>2. PICK u \in ReplayUsers(k) : answer \in Answers[<<FingerprintOf(k), u>>]
  BY DEF Answered, ToReplay
<1>3. u \in Reach(tasks[k].actor)
  BY <1>1, SentAsTheActor DEF ReplayUsers
<1>4. obs.actor = tasks[k].actor /\ obs.target = FingerprintOf(k) /\ obs.text = answer.text
  BY DEF Observation, FingerprintOf, Fingerprint
<1> HIDE DEF obs
<1>5. SUFFICES ASSUME f.kind = "BOLA", f.confidence = "proven"
               PROVE  \E w \in Reach(f.actor) : Disclosed(f.victim, f.target, w)
  BY DEF Earned
<1>6. f \in Judge(obs, verdict)[i]
  BY DEF obs
<1>7. f.actor = obs.actor /\ f.target = obs.target /\ f.victim \in Foreign(obs)
  BY <1>5, <1>6, ProofNamesForeign
<1>8. f.victim \in Marks[answer.text]
  BY <1>4, <1>7 DEF Foreign
<1>9. Disclosed(f.victim, f.target, u)
  BY <1>2, <1>4, <1>7, <1>8 DEF Disclosed
<1> QED  BY <1>3, <1>4, <1>7, <1>9

(* What is earned stays so: from the first replay on, the jar forgets no   *)
(* session that a replay may be sent with (runner.py:92-105).              *)
LEMMA StillEarned ==
  ASSUME Trusted \in {"authorization", "cookie"}, RunInv, EarnedSoFar, [Next]_vars
  PROVE  EarnedSoFar'
<1> USE RegistryStays
<1>1. ASSUME jars \subseteq jars', NEW f, Earned(f)
      PROVE  Earned(f)'
  BY <1>1 DEF Earned, Disclosed, Reach
<1>2. ASSUME UNCHANGED <<tasks, batch>>, jars \subseteq jars',
             phase' = phase \/ (phase = "replay" /\ phase' = "done")
      PROVE  EarnedSoFar'
  BY <1>1, <1>2 DEF EarnedSoFar, Tasks
<1>3. CASE Build
  BY <1>3 DEF Build, runVars, EarnedSoFar
<1>4. CASE StartBaselines
  <2>1. /\ phase' = "baseline" /\ Tasks' = Tasks
        /\ batch' = [k \in Tasks |-> [i \in DOMAIN Registry |-> {}]]
    BY <1>4 DEF StartBaselines, matrixVars, Tasks
  <2> QED  BY <2>1, BuiltInIsAKind DEF EarnedSoFar
<1>5. CASE Baselines
  <2>1. phase = "baseline" /\ UNCHANGED <<phase, tasks, batch>>
    BY <1>5 DEF Baselines, FetchBaseline, BaselineFails, matrixVars
  <2> QED  BY <2>1 DEF EarnedSoFar, Tasks
<1>6. CASE StartReplays
  <2>1. phase = "baseline" /\ phase' = "replay" /\ UNCHANGED <<tasks, batch>>
    BY <1>6 DEF StartReplays, matrixVars
  <2>2. \A k \in Tasks', i \in BuiltIns' : batch'[k][i] = {}
    BY <2>1 DEF EarnedSoFar, Tasks
  <2> QED  BY <2>1, <2>2 DEF EarnedSoFar
<1>7. ASSUME NEW j \in Tasks, NEW answer, NEW verdict, Answered(j, answer, verdict)
      PROVE  EarnedSoFar'
  <2>1. /\ phase = "replay" /\ UNCHANGED phase /\ Tasks' = Tasks
        /\ batch' = [batch EXCEPT ![j] = Judge(Observation(j, answer), verdict)]
        /\ jars \subseteq jars'
    BY <1>7 DEF Answered, Added, matrixVars, Tasks
  <2>2. DOMAIN batch = Tasks
    BY <2>1 DEF RunInv
  <2>3. \A k \in Tasks, i \in BuiltIns : \A f \in batch'[k][i] : Earned(f)
    BY <1>7, <2>1, <2>2, AnswerIsEarned DEF EarnedSoFar, RunInv
  <2> QED  BY <1>1, <2>1, <2>3 DEF EarnedSoFar
<1>8. ASSUME NEW k \in Tasks, Failed(k)
      PROVE  EarnedSoFar'
  BY <1>2, <1>8 DEF Failed, Added, matrixVars
<1>9. CASE Finish
  BY <1>2, <1>9 DEF Finish, matrixVars
<1>10. CASE UNCHANGED vars
  BY <1>2, <1>10 DEF vars, runVars, matrixVars
<1> QED
  BY <1>3, <1>4, <1>5, <1>6, <1>7, <1>8, <1>9, <1>10 DEF Next, Replay

(* What a built-in oracle takes for a proven BOLA is a disclosure, to the  *)
(* actor, to anyone, or to the user of a session that the server itself    *)
(* put into the jar of the shared client: of a server that tells users     *)
(* apart by one of the headers that _auth drops, since another one goes    *)
(* out with every replay as it was captured (runner.py:36-48, 57-78,       *)
(* client.py:37).                                                          *)
THEOREM ProofsAreDisclosures ==
  ASSUME Trusted \in {"authorization", "cookie"}
  PROVE  Spec => []ProvenMeansDisclosed
<1>1. Init => EarnedSoFar
  BY DEF Init, EarnedSoFar
<1>2. RunInv /\ EarnedSoFar /\ [Next]_vars => EarnedSoFar'
  BY StillEarned
<1>3. RunInv /\ EarnedSoFar => ProvenMeansDisclosed
  BY DEF RunInv, EarnedSoFar, Earned, ProvenMeansDisclosed
<1> QED
  BY <1>1, <1>2, <1>3, RunInvariant, PTL DEF Spec

----------------------------------------------------------------------------
(* The lab.                                                                *)

(* Seeding leaves the run alone, and a call with its effect is a call: the *)
(* lab is one of the servers of Runner (runner.py:48-98).                  *)
LEMMA LabStepIsRunStep ==
  ASSUME MatrixInv, jars \subseteq Users, [LabNext]_allVars
  PROVE  [Next]_vars
<1>1. CASE SeedNext \/ SeedRaises \/ StartRun \/ UNCHANGED allVars
  BY <1>1 DEF SeedNext, SeedRaises, StartRun, allVars
<1>2. ASSUME NEW k \in Tasks, LabBaseline(k) PROVE Baselines
  <2>1. ASSUME NEW answer, FetchBaseline(k, answer) PROVE Baselines
    <3>1. answer \in AllAnswers
      BY <2>1, CallsAreKnown DEF FetchBaseline
    <3> QED  BY <2>1, <3>1 DEF Baselines
  <2> QED  BY <1>2, <2>1 DEF LabBaseline, Baselines
<1>3. ASSUME NEW k \in Tasks, LabReplay(k) PROVE Replay(k)
  <2>1. ASSUME NEW answer, NEW verdict \in Verdicts, Answered(k, answer, verdict)
        PROVE  Replay(k)
    <3>1. answer \in AllAnswers
      BY <2>1, CallsAreKnown DEF Answered
    <3> QED  BY <2>1, <3>1 DEF Replay
  <2> QED  BY <1>3, <2>1 DEF LabReplay, Replay
<1>4. CASE RunStep
  BY <1>2, <1>3, <1>4 DEF RunStep, Calls, Quiet, Next
<1> QED  BY <1>1, <1>4 DEF LabNext

(* A task replays a captured request (matrix.py:29-45).                    *)
LEMMA TaskIsCaptured ==
  ASSUME MatrixInv, NEW k \in Tasks
  PROVE  \E m \in 1..Len(observed) : tasks[k].request = observed[m]
<1>1. PICK m \in 1..Len(observed), n \in 1..Len(Columns) :
             tasks[k] = [request |-> observed[m], actor |-> Columns[n]]
  BY DEF MatrixInv, FirstCaptureReplayed, Tasks
<1> QED  BY <1>1

(* What a run does to the profiles, a captured request may do that the     *)
(* governor lets pass (runner.py:48-63, governor.py:128-131).              *)
LEMMA RunWritesCaptured ==
  ASSUME MatrixInv, RunStep
  PROVE  \/ bio' = bio
         \/ \E m \in 1..Len(observed) : \E u :
              writes /\ bio' = Effect(observed[m], u)
<1>1. ASSUME NEW k \in Tasks
      PROVE  \E m \in 1..Len(observed) : tasks[k].request = observed[m]
  BY TaskIsCaptured
<1>2. ASSUME NEW r, NEW u, Allowed(r), bio' = Effect(r, u)
      PROVE  bio' = bio \/ writes
  BY <1>2 DEF Allowed, Effect
<1>3. ASSUME NEW k \in Tasks, LabBaseline(k)
      PROVE  \/ bio' = bio
             \/ \E m \in 1..Len(observed) : \E u : writes /\ bio' = Effect(observed[m], u)
  <2>1. PICK l \in Tasks : BaselineRequest(k) = tasks[l].request
    BY BaselineIsCaptured DEF BaselineRequest
  <2>2. PICK m \in 1..Len(observed) : BaselineRequest(k) = observed[m]
    BY <1>1, <2>1
  <2>3. \/ bio' = bio
        \/ \E u : Allowed(BaselineRequest(k)) /\ bio' = Effect(BaselineRequest(k), u)
    BY <1>3 DEF LabBaseline, PerhapsDone
  <2> QED  BY <1>2, <2>2, <2>3
<1>4. ASSUME NEW k \in Tasks, LabReplay(k)
      PROVE  \/ bio' = bio
             \/ \E m \in 1..Len(observed) : \E u : writes /\ bio' = Effect(observed[m], u)
  <2>1. PICK m \in 1..Len(observed) : tasks[k].request = observed[m]
    BY <1>1
  <2>2. \/ bio' = bio
        \/ \E u : Allowed(tasks[k].request) /\ bio' = Effect(tasks[k].request, u)
    BY <1>4 DEF LabReplay, PerhapsDone
  <2> QED  BY <1>2, <2>1, <2>2
<1> QED  BY <1>3, <1>4 DEF RunStep, Calls, Quiet

(* A write changes the bio of its user to what it carries, if anything     *)
(* (app.py:47).                                                            *)
LEMMA EffectOfWrite ==
  ASSUME bio \in [Members -> Bios], NEW r, NEW u,
         r.body \in Members \cup {Plain, Nothing}
  PROVE  /\ Effect(r, u) \in [Members -> Bios]
         /\ \A v \in Members :
              \/ Effect(r, u)[v] = bio[v]
              \/ v = u /\ r.body # Nothing /\ Effect(r, u)[v] = r.body
BY DEF Effect, Updated, Bios

(* The request of seed writes the identity's own canary, for the identity  *)
(* or for nobody (main.py:212-224).                                        *)
LEMMA EffectOfSeed ==
  ASSUME LabConstants, bio \in [Members -> Bios], AtSeed,
         seeded \in 0..Len(Identities)
  PROVE  /\ NextSeed \in Members
         /\ SeedEffect \in [Members -> Bios]
         /\ \A v \in Members : SeedEffect[v] = bio[v] \/ SeedEffect[v] = v
         /\ HeadersCarryToken => SeedEffect[NextSeed] = NextSeed
<1>1. Len(Identities) \in Nat /\ DOMAIN Identities = 1..Len(Identities)
  BY MatrixAssumption
<1>2. seeded + 1 \in DOMAIN Identities
  BY <1>1 DEF AtSeed
<1>3. NextSeed \in Members /\ NextSeed # Nothing
  BY <1>2 DEF NextSeed, LabConstants
<1> DEFINE r == SeedRequest(NextSeed)
<1>4. r.body = NextSeed /\ r.target = WriteTarget
  BY DEF SeedRequest
<1>5. Seeder(NextSeed) \in {NextSeed, Anonymous}
  BY DEF Seeder
<1>6. HeadersCarryToken => Seeder(NextSeed) = NextSeed
  BY <1>2 DEF HeadersCarryToken, Seeder, NextSeed
<1>7. /\ SeedEffect \in [Members -> Bios]
      /\ \A v \in Members :
           SeedEffect[v] = bio[v] \/ (v = Seeder(NextSeed) /\ SeedEffect[v] = NextSeed)
  BY <1>3, <1>4, EffectOfWrite DEF SeedEffect
<1>8. ASSUME HeadersCarryToken PROVE SeedEffect[NextSeed] = NextSeed
  BY <1>3, <1>4, <1>6, <1>8 DEF SeedEffect, Effect, Updated
<1> QED  BY <1>3, <1>5, <1>7, <1>8 DEF LabConstants

(* The types of the lab's own variables, step by step (app.py:20, 31-48,   *)
(* main.py:206-230).                                                       *)
LEMMA LabTypes ==
  ASSUME LabConstants, LabTypeOK, RunInv, RunInv', [LabNext]_allVars
  PROVE  LabTypeOK'
<1>1. MatrixInv /\ jars \subseteq Users
  BY DEF RunInv, LabTypeOK, TypeOK
<1>2. TypeOK'
  BY <1>1, LabStepIsRunStep, RunTypes DEF LabTypeOK
<1>3. bio \in [Members -> Bios] /\ seeded \in 0..Len(Identities)
  BY DEF LabTypeOK
<1>4. Len(Identities) \in Nat
  BY MatrixAssumption
<1>5. CASE SeedNext
  <2>1. AtSeed /\ bio' = SeedEffect /\ seeded' = seeded + 1
    BY <1>5 DEF SeedNext
  <2>2. bio' \in [Members -> Bios] /\ seeded' \in 0..Len(Identities)
    BY <1>3, <1>4, <2>1, EffectOfSeed DEF AtSeed
  <2> QED  BY <1>2, <1>5, <2>2 DEF SeedNext, LabTypeOK
<1>6. CASE SeedRaises
  <2>1. bio' \in [Members -> Bios]
    BY <1>3, <1>6, EffectOfSeed DEF SeedRaises
  <2> QED  BY <1>2, <1>6, <2>1 DEF SeedRaises, LabTypeOK
<1>7. CASE StartRun
  BY <1>2, <1>7 DEF StartRun, LabTypeOK
<1>8. CASE RunStep
  <2>1. bio' \in [Members -> Bios]
    <3>1. CASE bio' = bio
      BY <1>3, <3>1
    <3>2. ASSUME NEW m \in 1..Len(observed), NEW u, bio' = Effect(observed[m], u)
          PROVE  bio' \in [Members -> Bios]
      <4>1. observed[m] \in Observable
        BY <1>1, RowIsARequest DEF MatrixInv
      <4> QED  BY <1>3, <3>2, <4>1, EffectOfWrite DEF LabConstants
    <3> QED  BY <1>1, <1>8, <3>1, <3>2, RunWritesCaptured
  <2> QED  BY <1>2, <1>8, <2>1 DEF RunStep, LabTypeOK
<1>9. CASE UNCHANGED allVars
  BY <1>2, <1>9 DEF allVars, labVars, LabTypeOK
<1> QED
  BY <1>5, <1>6, <1>7, <1>8, <1>9 DEF LabNext

(* What seed has written stands as long as no replay may write             *)
(* (main.py:212-224).                                                      *)
LEMMA SeedStays ==
  ASSUME LabConstants, LabTypeOK, MatrixInv, SeedStands, [LabNext]_allVars
  PROVE  SeedStands'
<1> SUFFICES ASSUME HeadersCarryToken, stage' = "seed" \/ ~writes',
                    NEW n \in 1..seeded'
             PROVE  bio'[Identities[n]] = Identities[n]
  BY DEF SeedStands, HeadersCarryToken
<1>1. bio \in [Members -> Bios] /\ seeded \in 0..Len(Identities) /\ stage \in {"seed", "run"}
  BY DEF LabTypeOK
<1>2. Len(Identities) \in Nat /\ DOMAIN Identities = 1..Len(Identities)
  BY MatrixAssumption
<1>3. ASSUME NEW l \in 1..seeded PROVE Identities[l] \in Members
  BY <1>1, <1>2 DEF LabConstants
<1>4. ASSUME AtSeed, bio' = SeedEffect, NEW l \in 1..seeded
      PROVE  bio'[Identities[l]] = Identities[l]
  <2>1. bio[Identities[l]] = Identities[l]
    BY <1>4 DEF AtSeed, SeedStands
  <2> QED  BY <1>1, <1>3, <1>4, <2>1, EffectOfSeed
<1>5. CASE SeedNext
  <2>1. AtSeed /\ bio' = SeedEffect /\ seeded' = seeded + 1
    BY <1>5 DEF SeedNext
  <2>2. CASE n \in 1..seeded
    BY <1>4, <2>1, <2>2
  <2>3. CASE n = seeded + 1
    BY <1>1, <2>1, <2>3, EffectOfSeed DEF NextSeed
  <2> QED  BY <1>1, <2>1, <2>2, <2>3
<1>6. CASE SeedRaises
  <2>1. AtSeed /\ seeded' = seeded /\ bio' \in {bio, SeedEffect}
    BY <1>6 DEF SeedRaises
  <2>2. CASE bio' = bio
    BY <2>1, <2>2 DEF AtSeed, SeedStands
  <2> QED  BY <1>4, <2>1, <2>2
<1>7. CASE StartRun
  BY <1>7 DEF StartRun, SeedStands
<1>8. CASE RunStep
  <2>1. UNCHANGED <<writes, seeded, stage>> /\ stage = "run"
    BY <1>8 DEF RunStep
  <2>2. bio' = bio
    BY <1>8, <2>1, RunWritesCaptured
  <2> QED  BY <2>1, <2>2 DEF SeedStands
<1>9. CASE UNCHANGED allVars
  BY <1>9 DEF allVars, labVars, SeedStands
<1> QED
  BY <1>5, <1>6, <1>7, <1>8, <1>9 DEF LabNext

(* The canaries in what the lab says: the one of a profile, if it holds    *)
(* one, and none in the message of a failure (app.py:34-38, 45-48).        *)
LEMMA CanariesOfReplies ==
  ASSUME LabConstants
  PROVE  /\ \A v \in Members, b \in Bios : Marks[Success(v, b).text] = {b} \cap Members
         /\ \A f \in Failures : Marks[Error(f).text] = {}
<1>1. Marks = LabMarks
  BY DEF LabConstants
<1>2. \A v \in Members, b \in Bios :
        /\ <<v, b>> \in Members \X Bios
        /\ <<v, b>>[2] = b
        /\ Success(v, b).text = <<v, b>>
  BY DEF Success, Profile
<1>3. ASSUME NEW v \in Members, NEW b \in Bios
      PROVE  Marks[Success(v, b).text] = {b} \cap Members
  <2>1. \A t \in Members \X Bios : LabMarks[t] = {t[2]} \cap Members
    BY DEF LabMarks
  <2>2. LabMarks[<<v, b>>] = {b} \cap Members
    BY <2>1
  <2> QED  BY <1>1, <1>2, <2>2
<1>4. \A f \in Failures : f \notin Members \X Bios
  <2>1. \A f \in Failures : \E text : f = <<text>>
    BY DEF Failures, Unauthenticated, NotFound, Forbidden
  <2>2. \A t \in Members \X Bios : \A text : t # <<text>>
    OBVIOUS
  <2> QED  BY <2>1, <2>2
<1>5. \A f \in Failures : Error(f).text = f
  BY DEF Error
<1>6. ASSUME NEW f \in Failures PROVE Marks[Error(f).text] = {}
  BY <1>1, <1>4, <1>5 DEF LabMarks
<1> QED  BY <1>3, <1>6

(* A configured token makes a replay come from its actor (runner.py:41-46, *)
(* app.py:24-27).                                                          *)
LEMMA MemberIsTaken ==
  ASSUME LabConstants, MatrixInv, jars \subseteq Users, HeadersCarryToken,
         NEW k \in Tasks, tasks[k].actor \in Members
  PROVE  ReplayUsers(k) \subseteq {tasks[k].actor}
<1> DEFINE a == tasks[k].actor
           headers == ReplayHeaders(tasks[k].request, a)
<1>1. a \in Actors /\ a # Anonymous /\ Trusted = "authorization"
  BY CallsAreKnown DEF LabConstants
<1>2. PICK n \in 1..Len(Columns) : a = Columns[n]
  BY <1>1 DEF Actors
<1>3. PICK m \in DOMAIN Identities : a = Identities[m]
  <2>1. Len(Identities) \in Nat /\ DOMAIN Identities = 1..Len(Identities)
    BY MatrixAssumption
  <2>2. CASE n <= Len(Identities)
    <3>1. n \in DOMAIN Identities
      BY <2>1, <2>2, ColumnsAreActors
    <3>2. Columns[n] = Identities[n]
      BY <2>1, <3>1, MatrixAssumption DEF Columns
    <3> QED  BY <1>2, <3>1, <3>2
  <2>3. CASE n > Len(Identities)
    BY <1>1, <1>2, <2>1, <2>3, MatrixAssumption DEF Columns
  <2> QED  BY <2>1, <2>2, <2>3, ColumnsAreActors
<1>4. "authorization" \in HeaderCreds[a]
  BY <1>1, <1>3 DEF HeadersCarryToken
<1>5. \A h \in headers : Carrier(h[1]) = "authorization" => h[2] = a
  BY <1>4 DEF ReplayHeaders, Kept, Carrier
<1>6. <<"authorization", a>> \in headers /\ Carrier("authorization") = "authorization"
  BY <1>1, <1>4 DEF ReplayHeaders, Carrier
<1> HIDE DEF headers
<1>7. \A jar : Presented(headers, a, jar) = {a}
  <2>1. \E h \in headers : Carrier(h[1]) = "authorization" /\ h[2] = a
    BY <1>6
  <2> QED  BY <1>1, <1>5, <2>1 DEF Presented
<1> QED  BY <1>1, <1>7 DEF ReplayUsers, TakenFor, Taken, headers

(* An answer to a read of a seeded profile holds the canary (main.py:      *)
(* 206-224, app.py:31-38).                                                 *)
LEMMA LeakStaysReplied ==
  ASSUME LabConstants, LabTypeOK, RunInv, SeedStands, LeakReplied,
         stage = "seed" => phase = "build", [LabNext]_allVars
  PROVE  LeakReplied'
<1> DEFINE Leaks(k) ==
             LET v == SubjectOf[tasks[k].request.target]
             IN  /\ outcome[k] = "answered"
                 /\ tasks[k].actor \in Members \ {v}
                 /\ Written(v)
                 => replied[k] = Profile(v, v)
<1> SUFFICES ASSUME HeadersCarryToken, unchecked', ~writes', phase' # "build",
                    NEW k \in Tasks'
             PROVE  Leaks(k)'
  BY DEF LeakReplied, HeadersCarryToken
<1>1. MatrixInv /\ jars \subseteq Users
  BY DEF RunInv, LabTypeOK, TypeOK
<1>2. ASSUME UNCHANGED <<tasks, outcome, replied, seeded>>, unchecked, ~writes, phase # "build"
      PROVE  Leaks(k)'
  BY <1>2 DEF LeakReplied, Tasks, Written
<1>3. CASE UNCHANGED allVars
  BY <1>2, <1>3 DEF allVars, labVars, vars, runVars, matrixVars
<1>4. CASE SeedNext \/ SeedRaises \/ StartRun
  <2>1. stage = "seed" /\ phase' = phase
    BY <1>4 DEF SeedNext, SeedRaises, StartRun, AtSeed, vars, runVars
  <2> QED  BY <2>1
<1>5. CASE RunStep
  <2>0. UNCHANGED <<unchecked, writes, seeded, stage>> /\ unchecked /\ ~writes /\ stage = "run"
    BY <1>5 DEF RunStep
  <2>1. CASE Quiet
    <3>1. CASE Build
      BY <3>1 DEF Build, runVars
    <3>2. CASE StartBaselines
      <4>1. outcome'[k] = "pending"
        BY <3>2 DEF StartBaselines, matrixVars, Tasks
      <4> QED  BY <4>1
    <3>3. CASE StartReplays \/ Finish
      BY <1>2, <2>0, <3>3 DEF StartReplays, Finish, matrixVars
    <3> QED  BY <2>1, <3>1, <3>2, <3>3 DEF Quiet
  <2>2. ASSUME NEW j \in Tasks, LabBaseline(j) PROVE Leaks(k)'
    BY <1>2, <2>0, <2>2 DEF LabBaseline, FetchBaseline, BaselineFails, matrixVars
  <2>3. ASSUME NEW j \in Tasks, Failed(j) PROVE Leaks(k)'
    <3>1. /\ phase = "replay" /\ UNCHANGED <<tasks, replied>> /\ Tasks' = Tasks
          /\ outcome' = [outcome EXCEPT ![j] = "failed"]
      BY <2>3 DEF Failed, matrixVars, Tasks
    <3>2. DOMAIN outcome = Tasks
      BY <3>1 DEF RunInv
    <3>3. outcome'[k] = "answered" => outcome[k] = "answered"
      BY <3>1, <3>2
    <3> QED  BY <2>0, <3>1, <3>3 DEF LeakReplied, Written
  <2>4. ASSUME NEW j \in Tasks, NEW u \in ReplayUsers(j), NEW verdict,
               Allowed(tasks[j].request),
               Answered(j, Handle(tasks[j].request, u), verdict)
        PROVE  Leaks(k)'
    <3> DEFINE answer == Handle(tasks[j].request, u)
    <3>1. /\ phase = "replay" /\ UNCHANGED tasks /\ Tasks' = Tasks
          /\ outcome' = [outcome EXCEPT ![j] = "answered"]
          /\ replied' = [replied EXCEPT ![j] = answer.text]
      BY <2>4 DEF Answered, matrixVars, Tasks
    <3> HIDE DEF answer
    <3>2. DOMAIN outcome = Tasks /\ DOMAIN replied = Tasks
      BY <3>1 DEF RunInv
    <3>3. CASE k # j
      <4>1. outcome'[k] = outcome[k] /\ replied'[k] = replied[k]
        BY <3>1, <3>2, <3>3
      <4> QED  BY <2>0, <3>1, <4>1 DEF LeakReplied, Written
    <3>4. CASE k = j
      <4> DEFINE r == tasks[k].request
                 v == SubjectOf[r.target]
      <4>1. SUFFICES ASSUME tasks[k].actor \in Members \ {v}, Written(v)
                     PROVE  answer.text = Profile(v, v)
        BY <2>0, <3>1, <3>2, <3>4 DEF Written
      <4>2. PICK n \in 1..seeded : Identities[n] = v
        BY <4>1 DEF Written
      <4>3. v \in Members /\ bio[v] = v
        <5>1. Len(Identities) \in Nat /\ DOMAIN Identities = 1..Len(Identities)
          BY MatrixAssumption
        <5>2. n \in DOMAIN Identities
          BY <5>1 DEF LabTypeOK
        <5> QED  BY <2>0, <4>2, <5>2 DEF SeedStands, LabConstants
      <4>4. u \in Members
        BY <1>1, <2>4, <3>1, <3>4, <4>1, MemberIsTaken
      <4>5. r.target # WriteTarget
        BY <2>0, <2>4, <3>4 DEF Allowed
      <4>6. answer = Success(v, bio[v])
        BY <2>0, <3>4, <4>3, <4>4, <4>5 DEF answer, Handle, get_profile
      <4> QED  BY <4>3, <4>6 DEF Success
    <3> QED  BY <3>3, <3>4
  <2>5. ASSUME NEW j \in Tasks, LabReplay(j) PROVE Leaks(k)'
    BY <2>3, <2>4, <2>5 DEF LabReplay
  <2> QED  BY <1>5, <2>1, <2>2, <2>5 DEF RunStep, Calls
<1> QED
  BY <1>3, <1>4, <1>5 DEF LabNext

(* A profile holds its owner's canary, none, or one that a captured write  *)
(* carries (main.py:212-224, app.py:47).                                   *)
LEMMA BiosStayOwn ==
  ASSUME LabConstants, LabTypeOK, MatrixInv, [LabNext]_allVars,
         \A u \in Members : bio[u] \in {u, Plain} \cup Carried
  PROVE  \A u \in Members : bio'[u] \in {u, Plain} \cup Carried
<1>1. bio \in [Members -> Bios] /\ seeded \in 0..Len(Identities)
  BY DEF LabTypeOK
<1>2. CASE bio' = bio
  BY <1>2
<1>3. CASE AtSeed /\ bio' = SeedEffect
  BY <1>1, <1>3, EffectOfSeed
<1>4. ASSUME NEW m \in 1..Len(observed), NEW u, writes, bio' = Effect(observed[m], u)
      PROVE  \A v \in Members : bio'[v] \in {v, Plain} \cup Carried
  <2>1. observed[m].body \in Members \cup {Plain, Nothing}
    BY RowIsARequest DEF MatrixInv, LabConstants
  <2>2. observed[m].body \in Members => observed[m].body \in Carried
    BY <1>4 DEF Carried
  <2> QED  BY <1>1, <1>4, <2>1, <2>2, EffectOfWrite
<1>5. CASE RunStep
  BY <1>2, <1>4, <1>5, RunWritesCaptured
<1>6. CASE SeedNext \/ SeedRaises \/ StartRun \/ UNCHANGED allVars
  BY <1>2, <1>3, <1>6 DEF SeedNext, SeedRaises, StartRun, allVars, labVars
<1> QED
  BY <1>5, <1>6 DEF LabNext

(* What the BOLA oracle takes for proven of a replay, the lab has let its  *)
(* actor read, or a captured write has carried it (oracles.py:56-64,       *)
(* app.py:31-48).                                                          *)
LEMMA ProofOfReplayIsTrue ==
  ASSUME LabConstants, LabTypeOK, MatrixInv,
         \A w \in Members : bio[w] \in {w, Plain} \cup Carried,
         NEW k \in Tasks, NEW u \in ReplayUsers(k), NEW verdict,
         Allowed(tasks[k].request), NEW i \in BuiltIns,
         NEW f \in Judge(Observation(k, Handle(tasks[k].request, u)), verdict)[i]
  PROVE  ProofIsTrue(f) \/ f.victim \in Carried
<1> DEFINE r == tasks[k].request
           answer == Handle(r, u)
           obs == Observation(k, answer)
           v == SubjectOf[r.target]
<1>1. /\ obs.actor = tasks[k].actor /\ obs.target = r.target /\ obs.text = answer.text
  BY DEF Observation
<1>2. bio \in [Members -> Bios] /\ jars \subseteq Users
  BY DEF LabTypeOK, TypeOK
<1>3. r \in Observable /\ r.body \in Members \cup {Plain, Nothing}
  BY <1>2, CallsAreKnown DEF LabConstants
<1>4. u \in {tasks[k].actor, Anonymous}
  BY <1>3, SentAsTheActor DEF ReplayUsers, Reach, LabConstants
<1> HIDE DEF obs
<1>5. SUFFICES ASSUME f.kind = "BOLA", f.confidence = "proven", f.victim \notin Carried
               PROVE  /\ unchecked /\ f.actor \in Members /\ f.target # WriteTarget
                      /\ f.victim = SubjectOf[f.target] /\ f.victim # f.actor
  BY DEF ProofIsTrue
<1>6. f \in Judge(obs, verdict)[i]
  BY DEF obs
<1>7. f.actor = obs.actor /\ f.target = obs.target /\ f.victim \in Foreign(obs)
  BY <1>5, <1>6, ProofNamesForeign
<1>8. f.victim \in Marks[answer.text] /\ f.victim # tasks[k].actor
  BY <1>1, <1>7 DEF Foreign
<1>9. CASE r.target = WriteTarget
  <2>1. u \in Members
    <3>1. SUFFICES ASSUME u \notin Members PROVE FALSE
      OBVIOUS
    <3>2. answer = Error(Unauthenticated)
      BY <1>9, <3>1 DEF Handle, put_profile
    <3> QED  BY <1>8, <3>2, CanariesOfReplies DEF Failures
  <2>2. answer = Success(u, Effect(r, u)[u])
    BY <1>9, <2>1 DEF Handle, put_profile
  <2>3. Effect(r, u)[u] \in Bios /\ Effect(r, u)[u] \in {u, Plain} \cup Carried
    <3>1. r.body \in Members => r.body \in Carried
      <4>1. PICK m \in 1..Len(observed) : r = observed[m]
        BY TaskIsCaptured
      <4> QED  BY <1>9, <4>1 DEF Carried, Allowed
    <3> QED  BY <1>2, <1>3, <2>1, <3>1, EffectOfWrite
  <2>4. f.victim \in {Effect(r, u)[u]} \cap Members
    BY <1>8, <2>1, <2>2, <2>3, CanariesOfReplies
  <2>5. f.victim = u
    BY <1>5, <2>3, <2>4 DEF LabConstants
  <2> QED  BY <1>4, <1>8, <2>1, <2>5 DEF LabConstants
<1>10. CASE r.target # WriteTarget
  <2>1. \/ answer \in {Error(Unauthenticated), Error(NotFound), Error(Forbidden)}
        \/ /\ u \in Members /\ v \in Members /\ (v = u \/ unchecked)
           /\ answer = Success(v, bio[v])
    BY <1>10 DEF Handle, get_profile
  <2>2. answer \notin {Error(Unauthenticated), Error(NotFound), Error(Forbidden)}
    BY <1>8, CanariesOfReplies DEF Failures
  <2>3. u \in Members /\ v \in Members /\ (v = u \/ unchecked) /\ answer = Success(v, bio[v])
    BY <2>1, <2>2
  <2>4. f.victim \in {bio[v]} \cap Members
    <3>1. bio[v] \in Bios
      BY <1>2, <2>3
    <3>2. PICK w \in Members, b \in Bios : w = v /\ b = bio[v]
      BY <2>3, <3>1
    <3>3. Marks[Success(w, b).text] = {b} \cap Members
      BY CanariesOfReplies
    <3> QED  BY <1>8, <2>3, <3>2, <3>3
  <2>5. f.victim = v
    BY <1>5, <2>3, <2>4 DEF LabConstants
  <2>6. u = tasks[k].actor
    BY <1>4, <2>3 DEF LabConstants
  <2> QED  BY <1>1, <1>7, <1>8, <1>10, <2>3, <2>5, <2>6
<1> QED  BY <1>9, <1>10

(* A run does not change what was captured, nor what it may do.            *)
LEMMA CarriedStays ==
  ASSUME MatrixInv, jars \subseteq Users, [LabNext]_allVars
  PROVE  /\ Carried' = Carried
         /\ \A f : ProofIsTrue(f)' <=> ProofIsTrue(f)
<1>1. UNCHANGED <<writes, unchecked>>
  BY DEF LabNext, SeedNext, SeedRaises, StartRun, RunStep, allVars, labVars
<1>2. [Next]_vars
  BY LabStepIsRunStep
<1>3. UNCHANGED observed
  BY <1>2 DEF Next, Build, MatrixNext, NextRow, OwnCell, SeenCell, NewCell, NextColumn,
              StartBaselines, Baselines, FetchBaseline, BaselineFails, StartReplays,
              Replay, Answered, Failed, Finish, vars, matrixVars
<1> QED  BY <1>1, <1>3 DEF Carried, ProofIsTrue

(* A finding is true, or of a victim whose canary a captured write carries. *)
Founded(f) == ProofIsTrue(f) \/ f.victim \in Carried

(* Neither a call nor the merge makes up a proof (runner.py:57-105).       *)
LEMMA NothingIsMadeUp ==
  ASSUME LabConstants, LabTypeOK, RunInv, NothingMadeUp,
         stage = "seed" => phase = "build", [LabNext]_allVars
  PROVE  NothingMadeUp'
<1>1. MatrixInv /\ jars \subseteq Users
  BY DEF RunInv, LabTypeOK, TypeOK
<1>2. Carried' = Carried /\ \A f : Founded(f)' <=> Founded(f)
  BY <1>1, CarriedStays DEF Founded
<1>3. SUFFICES
        /\ \A u \in Members : bio'[u] \in {u, Plain} \cup Carried
        /\ phase' # "build" =>
             \A k \in Tasks', i \in DOMAIN Registry : \A f \in batch'[k][i] : Founded(f)
        /\ \A f \in report' : Founded(f)
  BY <1>2 DEF NothingMadeUp, Founded
<1>4. /\ \A u \in Members : bio[u] \in {u, Plain} \cup Carried
      /\ phase # "build" =>
           \A k \in Tasks, i \in DOMAIN Registry : \A f \in batch[k][i] : Founded(f)
      /\ \A f \in report : Founded(f)
  BY DEF NothingMadeUp, Founded
<1>5. \A u \in Members : bio'[u] \in {u, Plain} \cup Carried
  BY <1>1, <1>4, BiosStayOwn
<1>6. CASE /\ UNCHANGED <<tasks, batch, report>>
           /\ phase = "build" => phase' = "build"
  BY <1>4, <1>5, <1>6 DEF Tasks
<1>7. CASE SeedNext \/ SeedRaises \/ StartRun \/ UNCHANGED allVars
  BY <1>6, <1>7 DEF SeedNext, SeedRaises, StartRun, allVars, vars, runVars, matrixVars
<1>8. CASE RunStep
  <2>1. CASE Build
    BY <1>4, <1>5, <2>1 DEF Build, runVars
  <2>2. CASE StartBaselines
    <3>1. /\ batch' = [k \in Tasks |-> [i \in DOMAIN Registry |-> {}]]
          /\ Tasks' = Tasks /\ UNCHANGED report
      BY <2>2 DEF StartBaselines, matrixVars, Tasks
    <3> QED  BY <1>4, <1>5, <3>1
  <2>3. CASE StartReplays
    BY <1>6, <2>3 DEF StartReplays, matrixVars
  <2>4. ASSUME NEW k \in Tasks, LabBaseline(k) \/ Failed(k)
        PROVE  /\ UNCHANGED <<tasks, batch, report>>
               /\ phase = "build" => phase' = "build"
    BY <2>4 DEF LabBaseline, FetchBaseline, BaselineFails, Failed, matrixVars
  <2>5. ASSUME NEW k \in Tasks, NEW u \in ReplayUsers(k), NEW verdict,
               Allowed(tasks[k].request),
               Answered(k, Handle(tasks[k].request, u), verdict)
        PROVE  \A l \in Tasks', i \in DOMAIN Registry : \A f \in batch'[l][i] : Founded(f)
    <3> DEFINE found == Judge(Observation(k, Handle(tasks[k].request, u)), verdict)
    <3>1. /\ phase = "replay" /\ Tasks' = Tasks
          /\ batch' = [batch EXCEPT ![k] = found]
      BY <2>5 DEF Answered, matrixVars, Tasks
    <3>2. DOMAIN batch = Tasks
      BY <3>1 DEF RunInv
    <3>3. DOMAIN Registry = BuiltIns
      BY DEF LabConstants, BuiltIns
    <3>4. \A i \in DOMAIN Registry : \A f \in found[i] : Founded(f)
      BY <1>1, <1>4, <2>5, <3>3, ProofOfReplayIsTrue DEF Founded
    <3> HIDE DEF found
    <3> QED  BY <1>4, <3>1, <3>2, <3>4
  <2>6. ASSUME NEW k \in Tasks, LabReplay(k)
        PROVE  /\ phase' # "build" =>
                    \A l \in Tasks', i \in DOMAIN Registry : \A f \in batch'[l][i] : Founded(f)
               /\ \A f \in report' : Founded(f)
    <3>1. CASE Failed(k)
      BY <1>4, <2>4, <3>1 DEF Tasks
    <3>2. ASSUME NEW u \in ReplayUsers(k), NEW verdict, Allowed(tasks[k].request),
                 Answered(k, Handle(tasks[k].request, u), verdict)
          PROVE  /\ \A l \in Tasks', i \in DOMAIN Registry : \A f \in batch'[l][i] : Founded(f)
                 /\ \A f \in report' : Founded(f)
      <4>1. UNCHANGED report
        BY <3>2 DEF Answered
      <4> QED  BY <1>4, <2>5, <3>2, <4>1
    <3> QED  BY <2>6, <3>1, <3>2 DEF LabReplay
  <2>7. CASE Finish
    <3>1. phase = "replay" /\ report' = Merged /\ Tasks' = Tasks /\ UNCHANGED batch
      BY <2>7 DEF Finish, matrixVars, Tasks
    <3>2. \A f \in Merged : \E k \in Tasks, i \in DOMAIN Registry : f \in batch[k][i]
      BY DEF Merged, Places, At
    <3> QED  BY <1>4, <1>5, <3>1, <3>2
  <2> QED
    BY <1>5, <1>6, <1>8, <2>1, <2>2, <2>3, <2>4, <2>6, <2>7 DEF RunStep, Calls, Quiet
<1> QED
  BY <1>7, <1>8 DEF LabNext

(* The inductive invariant of the lab holds of every seeding and every run *)
(* (main.py:206-230, runner.py:80-107, app.py:31-48).                      *)
THEOREM LabInvariant ==
  ASSUME LabConstants
  PROVE  LabSpec => []LabInv
<1>1. LabInit => LabInv
  <2> SUFFICES ASSUME LabInit PROVE LabInv
    OBVIOUS
  <2>1. RunInv /\ phase = "build" /\ report = {}
    BY RunInitEstablishes DEF LabInit, Init
  <2>2. TypeOK
    BY RunInitTypes DEF LabInit
  <2>3. Len(Identities) \in Nat
    BY MatrixAssumption
  <2>4. LabTypeOK
    BY <2>2, <2>3 DEF LabInit, LabTypeOK, Bios, LabConstants
  <2>5. SeedStands /\ LeakReplied /\ NothingMadeUp
    BY <2>1 DEF LabInit, SeedStands, LeakReplied, NothingMadeUp
  <2> QED  BY <2>1, <2>4, <2>5 DEF LabInv
<1>2. LabInv /\ [LabNext]_allVars => LabInv'
  <2> SUFFICES ASSUME LabInv, [LabNext]_allVars PROVE LabInv'
    OBVIOUS
  <2> USE DEF LabInv
  <2>1. RunInv'
    BY LabStepIsRunStep, RunStepKeeps DEF RunInv, LabTypeOK, TypeOK
  <2>2. LabTypeOK'
    BY <2>1, LabTypes
  <2>3. (stage = "seed" => phase = "build")'
    <3>1. CASE RunStep
      BY <3>1 DEF RunStep
    <3>2. CASE SeedNext \/ SeedRaises \/ StartRun \/ UNCHANGED allVars
      BY <3>2 DEF SeedNext, SeedRaises, StartRun, allVars, labVars, vars, runVars
    <3> QED  BY <3>1, <3>2 DEF LabNext
  <2>4. SeedStands'
    BY SeedStays DEF RunInv
  <2>5. LeakReplied'
    BY LeakStaysReplied
  <2>6. NothingMadeUp'
    BY NothingIsMadeUp
  <2> QED  BY <2>1, <2>2, <2>3, <2>4, <2>5, <2>6
<1> QED  BY <1>1, <1>2, PTL DEF LabSpec

(* What is proven of the lab is true of it, in every interleaving of its   *)
(* replayed writes with its reads, but for the victims whose canaries      *)
(* those writes carry (oracles.py:56-64, app.py:31-48).                    *)
THEOREM LabProofsAreTrue ==
  ASSUME LabConstants
  PROVE  LabSpec => []ProofsAreTrue
<1>1. LabInv => ProofsAreTrue
  BY DEF LabInv, NothingMadeUp, ProofsAreTrue
<1> QED  BY <1>1, LabInvariant, PTL

(* The leak of the lab is proven: of identities that are configured with   *)
(* their tokens, as in lab.config.yaml (main.py:206-224, app.py:31-36,     *)
(* runner.py:57-105).                                                      *)
THEOREM LabLeakIsProven ==
  ASSUME LabConstants, HeadersCarryToken
  PROVE  LabSpec => []LeakProven
<1>1. LabInv => LeakProven
  <2> SUFFICES ASSUME LabInv, phase = "done", unchecked, ~writes, BolaRegistered,
                      NEW k \in Tasks,
                      outcome[k] = "answered",
                      tasks[k].actor \in Members \ {SubjectOf[tasks[k].request.target]},
                      Written(SubjectOf[tasks[k].request.target])
               PROVE  \E f \in report : /\ f.kind = "BOLA"
                                        /\ f.confidence = "proven"
                                        /\ f.actor = tasks[k].actor
                                        /\ f.victim = SubjectOf[tasks[k].request.target]
                                        /\ f.target = tasks[k].request.target
    BY DEF LeakProven
  <2> DEFINE v == SubjectOf[tasks[k].request.target]
  <2>1. replied[k] = Profile(v, v)
    BY DEF LabInv, LeakReplied
  <2>2. v \in Members
    <3>1. Len(Identities) \in Nat /\ DOMAIN Identities = 1..Len(Identities)
      BY MatrixAssumption
    <3> QED  BY <3>1 DEF Written, LabInv, LabTypeOK, LabConstants
  <2>3. Marks[replied[k]] = {v}
    BY <2>1, <2>2, CanariesOfReplies DEF Success, Bios
  <2>4. LeaksReported
    BY RunLeaksReported DEF LabInv
  <2>5. \E i \in BuiltIns : \E f \in batch[k][i] : Proof(f, k) /\ Reported(f)
    BY <2>3, <2>4 DEF LeaksReported
  <2>6. \A f : Reported(f) => f \in report
    BY DEF Reported, FromPlugin, LabConstants
  <2>7. PICK f \in report : Proof(f, k)
    BY <2>5, <2>6
  <2> QED  BY <2>3, <2>7 DEF Proof
<1> QED  BY <1>1, LabInvariant, PTL

=============================================================================
