--------------------------- MODULE CommandsProofs ---------------------------
(***************************************************************************)
(* Theorems about the commands and their state file, for any number of     *)
(* processes, identities and keys, and every way in which the commands     *)
(* overlap, fail and are killed.                                           *)
(***************************************************************************)
EXTENDS Commands, TLAPS

(* No key is taken for a missing or torn file, or for no ring.             *)
LEMMA KeysAreNoMarks ==
  /\ \A k \in Keys : k # NoKey /\ k # Absent /\ k # Torn
  /\ Absent # Torn
BY StateAssumption

(* With no file and no command under way the invariant holds.              *)
LEMMA InitEstablishes == Init => CommandsInv
<1> SUFFICES ASSUME Init PROVE CommandsInv
  OBVIOUS
<1> USE KeysAreNoMarks DEF Init, FileInit
<1>1. TypeOK
  <2>1. pc \in [Procs -> Places] /\ cmd \in [Procs -> CommandNames \cup {"none"}]
    BY DEF Places
  <2>2. {clash, cut} \subseteq BOOLEAN
    OBVIOUS
  <2> QED  BY <2>1, <2>2 DEF TypeOK
<1>2. \A p \in Procs : ~Holding(p) /\ ~Active(p) /\ WhereItStands(p)
  BY DEF Holding, Active, WhereItStands
<1>3. KeysPlanted = {}
  BY DEF KeysPlanted
<1> QED
  BY <1>1, <1>2, <1>3 DEF CommandsInv, OneRing, BeingWritten, GotIsKnown, PlantedKnown, CleanMeansNoLeak

(* What a process has is left alone.                                       *)
Stays(q) ==
  /\ pc'[q] = pc[q]
  /\ cmd'[q] = cmd[q]
  /\ todo'[q] = todo[q]
  /\ got'[q] = got[q]
  /\ code'[q] = code[q]
  /\ ring'[q] = ring[q]

(* A step of one process leaves the others alone.                          *)
LEMMA StepIsLocal ==
  ASSUME TypeOK, NEW p \in Procs, Step(p), NEW q \in Procs \ {p}
  PROVE  Stays(q)
<1> USE DEF TypeOK, Stays, stateVars, history
<1>1. ASSUME NEW place, NEW c, End(p, place, c) PROVE Stays(q)
  BY <1>1 DEF End, Forget
<1>2. CASE \E name \in CommandNames : Start(p, name)
  BY <1>2 DEF Start
<1>3. CASE LoadConfig(p) \/ Prepare(p) \/ Seeded(p) \/ OpenState(p) \/ WriteState(p)
  BY <1>3 DEF LoadConfig, Prepare, Seeded, OpenState, WriteState, Truncate, Dump, Goto
<1>4. CASE NewMint(p) \/ LoadMint(p)
  BY <1>4 DEF NewMint, LoadMint, FreshMint, Read, Goto
<1>5. CASE \/ \E c \in planted : Leak(p, c)
           \/ \E id \in Ids, stored \in BOOLEAN : Seed(p, id, stored)
  BY <1>5 DEF Leak, Seed
<1>6. CASE ConfigError(p) \/ LoadFails(p) \/ PrepareFails(p) \/ SeedEnds(p) \/ SafetyStop(p)
             \/ Uncaught(p) \/ Crash(p)
  BY <1>1, <1>6 DEF ConfigError, LoadFails, PrepareFails, SeedEnds, SafetyStop, Uncaught,
                    Crash, Exit
<1>7. CASE \E suspicion \in BOOLEAN : Report(p, suspicion) \/ Conclude(p, suspicion)
  BY <1>1, <1>7 DEF Report, Conclude, ExitWith, Exit
<1> QED
  BY <1>2, <1>3, <1>4, <1>5, <1>6, <1>7 DEF Step

(* What holds of a process keeps holding while it is left alone.           *)
LEMMA OthersKeep ==
  ASSUME NEW q, Stays(q)
  PROVE  /\ Holding(q)' <=> Holding(q)
         /\ Active(q)' <=> Active(q)
         /\ Writing(q)' <=> Writing(q)
         /\ WhereItStands(q) => WhereItStands(q)'
BY DEF Stays, Holding, Active, Writing, WhereItStands

(* A process ends: its mint is gone, and what it leaves behind is known.   *)
LEMMA EndKeeps ==
  ASSUME CommandsInv, NEW p \in Procs, NEW place \in {"exit", "dead"}, NEW c \in 0..3,
         End(p, place, c), Step(p),
         ~clash /\ cmd[p] = "run" /\ place = "exit" /\ c = 0 =>
           \A d \in got[p] : d.key \in forgotten
  PROVE  CommandsInv'
<1> USE DEF CommandsInv, history
<1>1. \A q \in Procs \ {p} : Stays(q)
  BY StepIsLocal
<1>2. TypeOK'
  BY DEF TypeOK, Places, End, Forget
<1>3. /\ pc'[p] = place /\ todo'[p] = {} /\ code'[p] = c /\ got'[p] = got[p] /\ cmd'[p] = cmd[p]
      /\ ~Holding(p)' /\ ~Active(p)'
      /\ cut' = (cut \/ Writing(p))
      /\ UNCHANGED <<file, drawn, planted, clash, forgotten>>
  BY DEF TypeOK, End, Forget, Holding, Active
<1>4. KeysPlanted' = KeysPlanted
  BY <1>3 DEF KeysPlanted
<1>5. OneRing'
  BY <1>1, <1>3, <1>4, OthersKeep DEF OneRing, Stays
<1>6. \A q \in Procs : WhereItStands(q)'
  BY <1>1, <1>3, OthersKeep DEF WhereItStands
<1>7. GotIsKnown'
  BY <1>1, <1>3, OthersKeep DEF GotIsKnown, Stays
<1>8. PlantedKnown' /\ CleanMeansNoLeak'
  BY <1>1, <1>3, <1>4 DEF PlantedKnown, CleanMeansNoLeak, Stays
<1>9. BeingWritten'
  BY <1>1, <1>3, OthersKeep DEF BeingWritten
<1> QED
  BY <1>2, <1>5, <1>6, <1>7, <1>8, <1>9

(* The ways to end: run knows all that leaked when it reports nothing.     *)
LEMMA ExitsKeep ==
  ASSUME CommandsInv, NEW p \in Procs,
         \/ ConfigError(p) \/ LoadFails(p) \/ PrepareFails(p) \/ SeedEnds(p) \/ SafetyStop(p)
         \/ Uncaught(p) \/ Crash(p)
         \/ \E suspicion \in BOOLEAN : Report(p, suspicion) \/ Conclude(p, suspicion)
  PROVE  CommandsInv'
<1>1. Step(p)
  BY DEF Step
<1>2. CASE ConfigError(p) \/ LoadFails(p) \/ PrepareFails(p) \/ SafetyStop(p) \/ Uncaught(p)
  <2>1. PICK c \in 1..3 : End(p, "exit", c)
    BY <1>2 DEF ConfigError, LoadFails, PrepareFails, SafetyStop, Uncaught, Exit
  <2> QED  BY <1>1, <2>1, EndKeeps
<1>3. CASE SeedEnds(p)
  <2>1. End(p, "exit", 0) /\ cmd[p] # "run"
    BY <1>3 DEF SeedEnds, Exit, CommandsInv, WhereItStands
  <2> QED  BY <1>1, <2>1, EndKeeps
<1>4. CASE Crash(p)
  BY <1>1, <1>4, EndKeeps DEF Crash
<1>5. ASSUME NEW suspicion \in BOOLEAN, Conclude(p, suspicion) PROVE CommandsInv'
  <2>1. PICK c \in 0..1 : End(p, "exit", c)
    BY <1>5 DEF Conclude, ExitWith, Exit
  <2>2. cmd[p] # "run"
    BY <1>5 DEF Conclude
  <2> QED  BY <1>1, <2>1, <2>2, EndKeeps
<1>6. ASSUME NEW suspicion \in BOOLEAN, Report(p, suspicion) PROVE CommandsInv'
  <2>1. PICK status \in 0..1 : /\ End(p, "exit", status)
                               /\ status = 0 => Attributed(p, got[p]) = {}
    BY <1>6 DEF Report, ExitWith, Exit
  <2>2. ~clash /\ Attributed(p, got[p]) = {} => \A c \in got[p] : c.key \in forgotten
    <3>1. Active(p)
      BY <1>6 DEF Report, Active
    <3>2. ~clash => \A c \in got[p] : c.key \in {ring[p]} \cup forgotten
      BY <3>1 DEF CommandsInv, GotIsKnown
    <3> QED  BY <3>2 DEF Attributed
  <2> QED  BY <1>1, <2>1, <2>2, EndKeeps
<1> QED
  BY <1>2, <1>3, <1>4, <1>5, <1>6

(* A process goes on without a change of the file, the mints and the       *)
(* application.                                                            *)
LEMMA WorkKeeps ==
  ASSUME CommandsInv, NEW p \in Procs, Step(p), TypeOK', WhereItStands(p)',
         UNCHANGED <<file, ring, drawn, planted, history>>,
         pc[p] # "create", ~Writing(p), pc'[p] # "exit" \/ code'[p] # 0,
         ~clash /\ Active(p)' => \A c \in got'[p] : c.key \in {ring[p]} \cup forgotten
  PROVE  CommandsInv'
<1> USE DEF CommandsInv, history
<1>1. \A q \in Procs \ {p} : Stays(q)
  BY StepIsLocal
<1>2. /\ KeysPlanted' = KeysPlanted /\ \A q : Holding(q)' <=> Holding(q)
      /\ UNCHANGED <<clash, cut, forgotten>>
  BY DEF KeysPlanted, Holding, history
<1>3. OneRing'
  BY <1>1, <1>2, OthersKeep DEF OneRing, Stays
<1>4. \A q \in Procs : WhereItStands(q)'
  BY <1>1, OthersKeep
<1>5. GotIsKnown'
  BY <1>1, OthersKeep DEF GotIsKnown, Stays
<1>6. PlantedKnown' /\ CleanMeansNoLeak'
  BY <1>1, <1>2 DEF PlantedKnown, CleanMeansNoLeak, Stays
<1>7. BeingWritten'
  BY <1>1, <1>2, OthersKeep DEF BeingWritten
<1> QED
  BY <1>3, <1>4, <1>5, <1>6, <1>7

(* The steps of a command that leave file, mints and application alone:    *)
(* what comes back to run has the key of its ring.                         *)
LEMMA QuietStepsKeep ==
  ASSUME CommandsInv, NEW p \in Procs,
         \/ \E name \in CommandNames : Start(p, name)
         \/ LoadConfig(p) \/ Prepare(p) \/ Seeded(p)
         \/ \E c \in planted : Leak(p, c)
  PROVE  CommandsInv'
<1> USE DEF CommandsInv, history
<1>1. Step(p)
  BY DEF Step
<1>2. CASE \E name \in CommandNames : Start(p, name)
  <2> PICK name \in CommandNames : Start(p, name)
    BY <1>2
  <2> USE DEF Start, stateVars
  <2>1. TypeOK'
    BY DEF TypeOK, Places
  <2>2. WhereItStands(p)' /\ got[p] = {}
    BY DEF TypeOK, WhereItStands, Holding, Active
  <2>3. pc[p] = "idle" /\ ~Writing(p) /\ (pc'[p] = "config" \/ (pc'[p] = "exit" /\ code'[p] = 3))
    BY DEF TypeOK, Writing
  <2> QED  BY <1>1, <2>1, <2>2, <2>3, WorkKeeps
<1>3. CASE LoadConfig(p) \/ Prepare(p) \/ Seeded(p)
  <2> USE <1>3 DEF LoadConfig, Prepare, Seeded, Goto, stateVars
  <2>1. TypeOK'
    BY DEF TypeOK, Places
  <2>2. WhereItStands(p)' /\ Active(p)
    BY DEF TypeOK, WhereItStands, Holding, Active
  <2>3. pc[p] # "create" /\ ~Writing(p) /\ pc'[p] # "exit" /\ got'[p] = got[p]
    BY DEF TypeOK, Writing
  <2> QED  BY <1>1, <2>1, <2>2, <2>3, WorkKeeps DEF GotIsKnown
<1>4. CASE \E c \in planted : Leak(p, c)
  <2> PICK c \in planted : Leak(p, c)
    BY <1>4
  <2> USE DEF Leak, stateVars
  <2>1. TypeOK'
    BY DEF TypeOK
  <2>2. WhereItStands(p)' /\ Holding(p) /\ Active(p)
    BY DEF TypeOK, WhereItStands, Holding, Active
  <2>3. got'[p] = got[p] \cup {c} /\ UNCHANGED pc /\ ~Writing(p)
    BY DEF TypeOK, Writing
  <2>4. ~clash => c.key \in {ring[p]} \cup forgotten
    BY <2>2 DEF OneRing, KeysPlanted
  <2> QED  BY <1>1, <2>1, <2>2, <2>3, <2>4, WorkKeeps DEF GotIsKnown
<1> QED
  BY <1>2, <1>3, <1>4

(* seed plants a canary: it has the key of the one ring.                   *)
LEMMA SeedKeeps ==
  ASSUME CommandsInv, NEW p \in Procs, NEW id \in Ids, NEW stored \in BOOLEAN,
         Seed(p, id, stored)
  PROVE  CommandsInv'
<1> USE DEF CommandsInv, history
<1>1. \A q \in Procs \ {p} : Stays(q)
  BY StepIsLocal DEF Step
<1>2. /\ UNCHANGED <<file, ring, drawn, cmd, pc, got, code, history>>
      /\ todo' = [todo EXCEPT ![p] = @ \ {id}]
      /\ pc[p] = "work" /\ id \in todo[p]
      /\ planted' \subseteq planted \cup {Canary(p, id)}
  BY DEF Seed, stateVars
<1>3. Holding(p) /\ ring[p] \in Keys \cap drawn /\ Canary(p, id).key = ring[p]
  BY <1>2 DEF TypeOK, WhereItStands, Holding, Canary
<1>4. TypeOK'
  BY <1>2, <1>3 DEF TypeOK, Canary, Canaries
<1>5. KeysPlanted' \subseteq KeysPlanted \cup {ring[p]}
  BY <1>2, <1>3 DEF KeysPlanted
<1>6. ~clash => file \in {Torn, ring[p]}
  BY <1>2, <1>3 DEF OneRing
<1>7. \A q : (Holding(q)' <=> Holding(q)) /\ (Active(q)' <=> Active(q))
  BY <1>2 DEF Holding, Active
<1>8. OneRing'
  BY <1>2, <1>3, <1>5, <1>6, <1>7, KeysAreNoMarks DEF OneRing
<1>9. \A q \in Procs : WhereItStands(q)'
  BY <1>1, <1>2, <1>3, <1>7, OthersKeep DEF WhereItStands, TypeOK
<1>10. GotIsKnown' /\ CleanMeansNoLeak'
  BY <1>2, <1>7 DEF GotIsKnown, CleanMeansNoLeak
<1>11. PlantedKnown'
  BY <1>2, <1>3, <1>5, <1>6, KeysAreNoMarks DEF PlantedKnown, OneRing
<1>12. BeingWritten'
  BY <1>2 DEF BeingWritten, Writing
<1> QED
  BY <1>4, <1>8, <1>9, <1>10, <1>11, <1>12

(* A mint is drawn where there is no file.  Who else holds one stands      *)
(* before it writes the file, and the two have met.                        *)
LEMMA NewMintKeeps ==
  ASSUME CommandsInv, NEW p \in Procs, NewMint(p)
  PROVE  CommandsInv'
<1> USE KeysAreNoMarks DEF CommandsInv, history
<1>1. \A q \in Procs \ {p} : Stays(q)
  BY StepIsLocal DEF Step
<1>2. PICK k \in Keys \ drawn : ring' = [ring EXCEPT ![p] = k] /\ drawn' = drawn \cup {k}
  BY DEF NewMint, FreshMint
<1>3. /\ UNCHANGED <<file, cmd, todo, got, code, planted, cut, forgotten>>
      /\ pc' = [pc EXCEPT ![p] = "create"]
      /\ clash' = (clash \/ \E q \in Procs \ {p} : pc[q] = "create")
      /\ pc[p] = "state" /\ file = Absent
  BY DEF NewMint, FreshMint, Goto, Exists
<1>4. TypeOK'
  BY <1>2, <1>3 DEF TypeOK, Places
<1>5. /\ pc'[p] = "create" /\ ring'[p] = k /\ Holding(p)' /\ k \notin forgotten
      /\ got[p] = {} /\ KeysPlanted' = KeysPlanted
  BY <1>2, <1>3 DEF TypeOK, Holding, WhereItStands, KeysPlanted
<1>6. ~clash' => ~clash /\ \A q \in Procs \ {p} : ~Holding(q)
  <2> SUFFICES ASSUME ~clash', NEW q \in Procs \ {p}, Holding(q)
               PROVE  FALSE
    BY <1>3
  <2>1. ~clash /\ pc[q] # "create"
    BY <1>3
  <2>2. ring[q] \in Keys
    BY DEF TypeOK, Holding
  <2> QED  BY <1>3, <2>1, <2>2 DEF OneRing
<1>7. OneRing'
  BY <1>1, <1>3, <1>5, <1>6, OthersKeep DEF OneRing
<1>8. \A q \in Procs : WhereItStands(q)'
  <2>1. WhereItStands(p)'
    BY <1>3, <1>4, <1>5 DEF WhereItStands, Active
  <2> QED  BY <1>1, <2>1, OthersKeep
<1>9. GotIsKnown' /\ PlantedKnown' /\ CleanMeansNoLeak'
  BY <1>1, <1>3, <1>5, <1>6, OthersKeep DEF GotIsKnown, PlantedKnown, CleanMeansNoLeak, Stays
<1>10. BeingWritten'
  BY <1>3 DEF BeingWritten
<1> QED
  BY <1>4, <1>7, <1>8, <1>9, <1>10

(* A mint is read: it has the ring of the file, as have all others and the *)
(* canaries.                                                               *)
LEMMA LoadMintKeeps ==
  ASSUME CommandsInv, NEW p \in Procs, LoadMint(p)
  PROVE  CommandsInv'
<1> USE KeysAreNoMarks DEF CommandsInv, history
<1>1. \A q \in Procs \ {p} : Stays(q)
  BY StepIsLocal DEF Step
<1>2. /\ UNCHANGED <<file, drawn, cmd, todo, got, code, planted, history>>
      /\ pc' = [pc EXCEPT ![p] = "prepare"]
      /\ ring' = [ring EXCEPT ![p] = file]
      /\ pc[p] = "state" /\ file \in Keys
  BY DEF LoadMint, Read, Goto
<1>3. TypeOK'
  BY <1>2 DEF TypeOK, Places
<1>4. /\ pc'[p] = "prepare" /\ ring'[p] = file /\ Holding(p)'
      /\ got[p] = {} /\ KeysPlanted' = KeysPlanted
  BY <1>2 DEF TypeOK, Holding, WhereItStands, KeysPlanted
<1>5. ~clash => \A q \in Procs : Holding(q) => ring[q] = file
  BY <1>2 DEF OneRing, Holding
<1>6. OneRing'
  BY <1>1, <1>2, <1>4, <1>5, OthersKeep DEF OneRing, PlantedKnown, Stays
<1>7. \A q \in Procs : WhereItStands(q)'
  <2>1. WhereItStands(p)'
    BY <1>2, <1>3, <1>4 DEF WhereItStands, Active
  <2> QED  BY <1>1, <2>1, OthersKeep
<1>8. GotIsKnown' /\ PlantedKnown' /\ CleanMeansNoLeak'
  BY <1>1, <1>2, <1>4, OthersKeep DEF GotIsKnown, PlantedKnown, CleanMeansNoLeak, Stays
<1>9. BeingWritten'
  BY <1>2 DEF BeingWritten
<1> QED
  BY <1>3, <1>6, <1>7, <1>8, <1>9

(* The file is emptied and filled, always with the one ring.               *)
LEMMA SaveKeeps ==
  ASSUME CommandsInv, NEW p \in Procs, OpenState(p) \/ WriteState(p)
  PROVE  CommandsInv'
<1> USE KeysAreNoMarks DEF CommandsInv, history
<1>1. \A q \in Procs \ {p} : Stays(q)
  BY StepIsLocal DEF Step
<1>2. PICK place \in {"creating", "saving", "prepare", "saved"} :
        /\ pc' = [pc EXCEPT ![p] = place]
        /\ pc[p] \in {"create", "creating", "save", "saving"}
        /\ place = "prepare" => pc[p] = "creating"
        /\ place = "creating" => pc[p] = "create"
        /\ place \in {"saving", "saved"} => pc[p] \in {"save", "saving"}
  BY DEF OpenState, WriteState, Goto
<1>3. /\ UNCHANGED <<ring, drawn, cmd, todo, got, code, planted, history>>
      /\ file' \in {Torn, ring[p]}
  BY DEF OpenState, WriteState, Goto, Truncate, Dump
<1>4. Holding(p) /\ ring[p] \in Keys
  BY <1>2 DEF WhereItStands, Holding, TypeOK
<1>5. TypeOK'
  BY <1>2, <1>3, <1>4 DEF TypeOK, Places
<1>6. /\ pc'[p] = place /\ KeysPlanted' = KeysPlanted /\ got[p] = {}
      /\ \A q : Holding(q)' <=> Holding(q)
  BY <1>2, <1>3 DEF TypeOK, KeysPlanted, Holding, WhereItStands
<1>7. OneRing' /\ BeingWritten'
  <2>1. file' = Torn => Writing(p)'
    BY <1>2, <1>3, <1>4, <1>6 DEF OpenState, WriteState, Dump, Goto, Writing
  <2>2. Torn \notin forgotten
    BY DEF TypeOK
  <2>3. OneRing'
    BY <1>3, <1>4, <1>6, <2>2 DEF OneRing
  <2> QED  BY <2>1, <2>3 DEF BeingWritten
<1>8. \A q \in Procs : WhereItStands(q)'
  <2>1. WhereItStands(p)'
    BY <1>2, <1>3, <1>4, <1>5, <1>6 DEF WhereItStands, Active
  <2> QED  BY <1>1, <2>1, OthersKeep
<1>9. GotIsKnown' /\ CleanMeansNoLeak'
  BY <1>1, <1>3, <1>6, OthersKeep DEF GotIsKnown, CleanMeansNoLeak, Stays
<1>10. PlantedKnown'
  BY <1>3, <1>4, <1>6 DEF PlantedKnown, OneRing
<1> QED
  BY <1>5, <1>7, <1>8, <1>9, <1>10

(* The user removes the file between two commands: nobody has a mint then. *)
LEMMA RemoveKeeps ==
  ASSUME CommandsInv, RemoveState
  PROVE  CommandsInv'
<1> USE KeysAreNoMarks DEF CommandsInv, history
<1>1. /\ UNCHANGED <<ring, drawn, cmd, pc, todo, got, code, planted, clash>>
      /\ file' = Absent /\ forgotten' = drawn /\ cut' = FALSE
      /\ \A p \in Procs : ~Active(p)
  BY DEF RemoveState, cmdVars
<1>2. \A p : /\ Holding(p)' <=> Holding(p)
             /\ Active(p)' <=> Active(p)
             /\ WhereItStands(p)' <=> WhereItStands(p)
  BY <1>1 DEF Holding, Active, WhereItStands
<1>3. \A p \in Procs : ~Holding(p)'
  BY <1>1, <1>2 DEF WhereItStands
<1>4. KeysPlanted' = {} /\ forgotten \subseteq forgotten' /\ Absent \notin forgotten' /\ TypeOK'
  BY <1>1 DEF KeysPlanted, TypeOK
<1>5. OneRing' /\ BeingWritten' /\ GotIsKnown' /\ PlantedKnown' /\ CleanMeansNoLeak'
  BY <1>1, <1>2, <1>3, <1>4 DEF OneRing, BeingWritten, GotIsKnown, PlantedKnown, CleanMeansNoLeak
<1> QED
  BY <1>2, <1>4, <1>5

(* The inductive invariant of the commands (main.py:38-57, 105-151,        *)
(* 206-231).                                                               *)
THEOREM CommandsInvariant == Spec => []CommandsInv
<1>1. CommandsInv /\ [Next]_vars => CommandsInv'
  <2> SUFFICES ASSUME CommandsInv, [Next]_vars PROVE CommandsInv'
    OBVIOUS
  <2>1. CASE RemoveState
    BY <2>1, RemoveKeeps
  <2>2. ASSUME NEW p \in Procs, Step(p) PROVE CommandsInv'
    <3>1. CASE \/ \E name \in CommandNames : Start(p, name)
               \/ LoadConfig(p) \/ Prepare(p) \/ Seeded(p)
               \/ \E c \in planted : Leak(p, c)
      BY <3>1, QuietStepsKeep
    <3>2. CASE NewMint(p) \/ LoadMint(p) \/ OpenState(p) \/ WriteState(p)
      BY <3>2, NewMintKeeps, LoadMintKeeps, SaveKeeps
    <3>3. CASE \E id \in Ids, stored \in BOOLEAN : Seed(p, id, stored)
      BY <3>3, SeedKeeps
    <3>4. CASE \/ ConfigError(p) \/ LoadFails(p) \/ PrepareFails(p) \/ SeedEnds(p)
               \/ SafetyStop(p) \/ Uncaught(p) \/ Crash(p)
               \/ \E suspicion \in BOOLEAN : Report(p, suspicion) \/ Conclude(p, suspicion)
      BY <3>4, ExitsKeep
    <3> QED  BY <2>2, <3>1, <3>2, <3>3, <3>4 DEF Step
  <2>3. CASE UNCHANGED vars
    <3>1. \A p : /\ Holding(p)' <=> Holding(p)
                 /\ Active(p)' <=> Active(p)
                 /\ Writing(p)' <=> Writing(p)
                 /\ WhereItStands(p)' <=> WhereItStands(p)
      BY <2>3 DEF vars, stateVars, cmdVars, Holding, Active, Writing, WhereItStands
    <3>2. KeysPlanted' = KeysPlanted
      BY <2>3 DEF vars, history, KeysPlanted
    <3> QED
      BY <2>3, <3>1, <3>2 DEF vars, stateVars, cmdVars, history, CommandsInv, TypeOK, OneRing,
                              BeingWritten, GotIsKnown, PlantedKnown, CleanMeansNoLeak
  <2> QED  BY <2>1, <2>2, <2>3 DEF Next
<1> QED  BY <1>1, InitEstablishes, PTL DEF Spec

(* Every variable of the commands keeps its type.                          *)
THEOREM TypeCorrect == Spec => []TypeOK
<1>1. CommandsInv => TypeOK
  BY DEF CommandsInv
<1> QED  BY <1>1, CommandsInvariant, PTL

(* As long as no two commands create the file at once, a state file that   *)
(* can be read confirms every canary planted since it was last removed     *)
(* (main.py:41-54, 206-231).                                               *)
THEOREM PlantedStaysKnown == Spec => []PlantedKnown
<1>1. CommandsInv => PlantedKnown
  BY DEF CommandsInv
<1> QED  BY <1>1, CommandsInvariant, PTL

(* Nor are the keys lost, unless a process ends after it has emptied the   *)
(* file and before it has filled it (main.py:50-57).                       *)
THEOREM KeysAreKept == Spec => []KeysSurvive
<1>1. ASSUME CommandsInv PROVE KeysSurvive
  <2> SUFFICES ASSUME ~clash, ~cut, NEW k \in KeysPlanted
               PROVE  file = k \/ (file = Torn /\ \E p \in Procs : Writing(p) /\ ring[p] = k)
    BY DEF KeysSurvive
  <2>1. CASE file \in Keys
    BY <1>1, <2>1 DEF CommandsInv, PlantedKnown
  <2>2. CASE file = Absent
    BY <1>1, <2>2 DEF CommandsInv, OneRing
  <2>3. CASE file = Torn
    <3>1. PICK p \in Procs : Writing(p)
      BY <1>1, <2>3 DEF CommandsInv, BeingWritten
    <3>2. Holding(p)
      BY <1>1, <3>1 DEF CommandsInv, WhereItStands, Writing
    <3>3. ring[p] = k
      BY <1>1, <3>2 DEF CommandsInv, OneRing
    <3> QED  BY <2>3, <3>1, <3>3
  <2> QED  BY <1>1, <2>1, <2>2, <2>3 DEF CommandsInv, TypeOK
<1> QED  BY <1>1, CommandsInvariant, PTL

(* A run that exits with 0 was given no canary of another identity whose   *)
(* keys are not forgotten (main.py:105-151, canary.py:143-157).            *)
THEOREM CleanRunsAreClean == Spec => []CleanMeansNoLeak
<1>1. CommandsInv => CleanMeansNoLeak
  BY DEF CommandsInv
<1> QED  BY <1>1, CommandsInvariant, PTL

=============================================================================
