------------------------------ MODULE Commands ------------------------------
(***************************************************************************)
(* The commands of authdiff/cli/main.py as processes that share the state  *)
(* file and the application under test: run, bfla, seed and race, from the *)
(* command line to the exit code.                                          *)
(*                                                                         *)
(* What happens over the network is abstract here: seed writes canaries    *)
(* into the application, run gets some of them back in answers to other    *)
(* identities (Runner has the run), race gets statuses (Racer).  Commands  *)
(* may overlap; each may be killed at any point, and may raise something   *)
(* that nothing catches, which ends a Python program with the code 1.      *)
(***************************************************************************)
EXTENDS StateFile, Naturals

VARIABLES
  cmd,       \* the command of each process
  pc,        \* where it stands
  todo,      \* seed: the identities left
  got,       \* run: the canaries that came back to another identity
  code,      \* its exit code, once pc is "exit"
  planted,   \* the canaries in the application
  clash,     \* history: two processes at once have found no state file
  cut,       \* history: a process ended between the open and the dump of the file
  forgotten \* history: the keys drawn until the user last removed the file

cmdVars == <<cmd, pc, todo, got, code>>
history == <<clash, cut, forgotten>>
vars == <<stateVars, cmdVars, planted, history>>

CommandNames == {"run", "bfla", "seed", "race"}

Init ==
  /\ FileInit
  /\ cmd = [p \in Procs |-> "none"]
  /\ pc = [p \in Procs |-> "idle"]
  /\ todo = [p \in Procs |-> {}]
  /\ got = [p \in Procs |-> {}]
  /\ code = [p \in Procs |-> 0]
  /\ planted = {}
  /\ clash = FALSE
  /\ cut = FALSE
  /\ forgotten = {}

(* The file is open for writing.                                           *)
Writing(p) == pc[p] \in {"creating", "saving"}

Active(p) == pc[p] \notin {"idle", "exit", "dead"}

Goto(p, place) ==
  /\ pc' = [pc EXCEPT ![p] = place]
  /\ UNCHANGED <<cmd, todo, got, code>>

End(p, place, c) ==
  /\ pc' = [pc EXCEPT ![p] = place]
  /\ code' = [code EXCEPT ![p] = c]
  /\ todo' = [todo EXCEPT ![p] = {}]
  /\ Forget(p)
  /\ cut' = (cut \/ Writing(p))
  /\ UNCHANGED <<cmd, got, planted, clash, forgotten>>

Exit(p, c) == End(p, "exit", c)
ExitWith(p, findings) == Exit(p, IF findings THEN 1 ELSE 0)

----------------------------------------------------------------------------

(* A command starts; without --authorized it refuses.                      *)
Start(p, name) ==
  /\ pc[p] = "idle"
  /\ cmd' = [cmd EXCEPT ![p] = name]
  /\ \/ /\ pc' = [pc EXCEPT ![p] = "config"]
        /\ UNCHANGED code
     \/ /\ pc' = [pc EXCEPT ![p] = "exit"]
        /\ code' = [code EXCEPT ![p] = 3]
  /\ UNCHANGED <<stateVars, todo, got, planted, history>>

(* Config.load, and the section that seed and race need: what it cannot    *)
(* read, or fewer than two identities, is a configuration error.           *)
ConfigError(p) == pc[p] = "config" /\ Exit(p, 2)

LoadConfig(p) ==
  /\ pc[p] = "config"
  /\ Goto(p, IF cmd[p] = "race" THEN "prepare" ELSE "state")
  /\ UNCHANGED <<stateVars, planted, history>>

(* Mutant: the new mint is not saved before it is used.                    *)
NewMintUnsaved(p) ==
  /\ pc[p] = "state"
  /\ ~Exists
  /\ FreshMint(p)
  /\ Goto(p, "prepare")
  /\ UNCHANGED <<planted, history>>

(* _load_mint finds no file: a mint with fresh keys, to be saved.          *)
NewMint(p) ==
  /\ pc[p] = "state"
  /\ ~Exists
  /\ FreshMint(p)
  /\ Goto(p, "create")
  /\ clash' = (clash \/ \E q \in Procs \ {p} : pc[q] = "create")
  /\ UNCHANGED <<planted, cut, forgotten>>

(* _load_mint finds a file and reads it; json.load raises if it is torn.   *)
LoadMint(p) ==
  /\ pc[p] = "state"
  /\ Exists
  /\ Read(p)
  /\ Goto(p, "prepare")
  /\ UNCHANGED <<planted, history>>

LoadFails(p) == pc[p] = "state" /\ file = Torn /\ Exit(p, 1)

(* _save_mint opens the file: for the new mint, or at the end of seed.     *)
OpenState(p) ==
  /\ \/ pc[p] = "create" /\ Goto(p, "creating")
     \/ pc[p] = "save" /\ Goto(p, "saving")
  /\ Truncate
  /\ UNCHANGED <<planted, history>>

(* _save_mint writes it.                                                   *)
WriteState(p) ==
  /\ \/ pc[p] = "creating" /\ Goto(p, "prepare")
     \/ pc[p] = "saving" /\ Goto(p, "saved")
  /\ Dump(p)
  /\ UNCHANGED <<planted, history>>

(* The requests of run, the identities of seed, or the racer are made.     *)
Prepare(p) ==
  /\ pc[p] = "prepare"
  /\ pc' = [pc EXCEPT ![p] = "work"]
  /\ todo' = [todo EXCEPT ![p] = IF cmd[p] = "seed" THEN Ids ELSE {}]
  /\ UNCHANGED <<stateVars, cmd, got, code, planted, history>>

(* An --input of an unknown identity, a run without requests and a race    *)
(* without https are configuration errors.                                 *)
PrepareFails(p) ==
  /\ pc[p] = "prepare"
  /\ cmd[p] \in {"run", "race"}
  /\ Exit(p, 2)

(* An answer to another identity brings a canary back to run.              *)
Leak(p, c) ==
  /\ pc[p] = "work"
  /\ cmd[p] = "run"
  /\ got' = [got EXCEPT ![p] = @ \cup {c}]
  /\ UNCHANGED <<stateVars, cmd, pc, todo, code, planted, history>>

(* run reports: what the canaries prove, and what other oracles suspect.   *)
Report(p, suspicion) ==
  /\ pc[p] = "work"
  /\ cmd[p] = "run"
  /\ ExitWith(p, suspicion \/ Attributed(p, got[p]) # {})

(* bfla and race have oracles that know no canary.                         *)
Conclude(p, suspicion) ==
  /\ pc[p] = "work"
  /\ cmd[p] \in {"bfla", "race"}
  /\ ExitWith(p, suspicion)

(* seed sends the next identity's canary.  Nobody looks at the status: the *)
(* application has stored it or has not.                                   *)
Seed(p, id, stored) ==
  /\ pc[p] = "work"
  /\ id \in todo[p]
  /\ todo' = [todo EXCEPT ![p] = @ \ {id}]
  /\ planted' = IF stored THEN planted \cup {Canary(p, id)} ELSE planted
  /\ UNCHANGED <<stateVars, cmd, pc, got, code, history>>

(* Its last identity done, seed saves the ring again, and exits.           *)
Seeded(p) ==
  /\ pc[p] = "work"
  /\ cmd[p] = "seed"
  /\ todo[p] = {}
  /\ Goto(p, "save")
  /\ UNCHANGED <<stateVars, planted, history>>

SeedEnds(p) == pc[p] = "saved" /\ Exit(p, 0)

(* The governor refuses a request of seed.                                 *)
SafetyStop(p) ==
  /\ pc[p] = "work"
  /\ todo[p] # {}
  /\ Exit(p, 3)

(* An exception that the command does not catch: of a parser of            *)
(* configurations or captures, of a file that cannot be written, of the    *)
(* governor's constructor, of the network, or of assert_allowed in race.   *)
Uncaught(p) == Active(p) /\ Exit(p, 1)

(* The process is killed.                                                  *)
Crash(p) == Active(p) /\ End(p, "dead", 0)

(* Between two commands the user removes the state file: the keys drawn so *)
(* far are gone, their canaries stay in the application.                   *)
RemoveState ==
  /\ Exists
  /\ \A p \in Procs : ~Active(p)
  /\ file' = Absent
  /\ forgotten' = drawn
  /\ cut' = FALSE
  /\ UNCHANGED <<ring, drawn, cmdVars, planted, clash>>

Step(p) ==
  \/ \E name \in CommandNames : Start(p, name)
  \/ ConfigError(p)
  \/ LoadConfig(p)
  \/ NewMint(p)
  \/ LoadMint(p)
  \/ LoadFails(p)
  \/ OpenState(p)
  \/ WriteState(p)
  \/ Prepare(p)
  \/ PrepareFails(p)
  \/ \E c \in planted : Leak(p, c)
  \/ \E suspicion \in BOOLEAN : Report(p, suspicion)
  \/ \E suspicion \in BOOLEAN : Conclude(p, suspicion)
  \/ \E id \in Ids, stored \in BOOLEAN : Seed(p, id, stored)
  \/ Seeded(p)
  \/ SeedEnds(p)
  \/ SafetyStop(p)
  \/ Uncaught(p)
  \/ Crash(p)

Next == RemoveState \/ \E p \in Procs : Step(p)

Spec == Init /\ [][Next]_vars

----------------------------------------------------------------------------

Places == {"idle", "config", "state", "create", "creating", "prepare", "work",
           "save", "saving", "saved", "exit", "dead"}

(* Types of the variables (main.py:38-57, 206-232).                        *)
TypeOK ==
  /\ drawn \subseteq Keys
  /\ file \in drawn \cup {Absent, Torn}
  /\ ring \in [Procs -> drawn \cup {NoKey}]
  /\ cmd \in [Procs -> CommandNames \cup {"none"}]
  /\ pc \in [Procs -> Places]
  /\ todo \in [Procs -> SUBSET Ids]
  /\ got \in [Procs -> SUBSET Canaries]
  /\ code \in [Procs -> 0..3]
  /\ planted \subseteq Canaries
  /\ \A c \in planted : c.key \in drawn
  /\ {clash, cut} \subseteq BOOLEAN
  /\ forgotten \subseteq drawn

(* The keys of the canaries in the application, without those whose file   *)
(* the user removed.                                                       *)
KeysPlanted == {c.key : c \in planted} \ forgotten

(* As long as no two commands have created the file at the same time, a    *)
(* state file that can be read confirms every canary that was planted      *)
(* since the user last removed it, whichever commands overlapped, failed   *)
(* or were killed on the way: keys are on disk before the first canary is  *)
(* sent, and no later command replaces them (main.py:41-54, 206-231).      *)
PlantedKnown == ~clash /\ file \in Keys => KeysPlanted \subseteq {file}

(* Nor are they lost: the key of every canary is in the file, or it is in  *)
(* the memory of a process that is about to write it there again.  Only a  *)
(* process that ends after it has emptied the file and before it has       *)
(* filled it may take the keys with it (main.py:50-57).                    *)
KeysSurvive ==
  ~clash /\ ~cut =>
    \A k \in KeysPlanted :
      file = k \/ (file = Torn /\ \E p \in Procs : Writing(p) /\ ring[p] = k)

(* A run that exits with "no findings" has been given no canary of another *)
(* identity: every one that was planted, by whichever command, has a tag   *)
(* that the keys it loaded confirm, unless the user had removed the file   *)
(* with its keys before (main.py:105-151, canary.py:143-157).              *)
CleanMeansNoLeak ==
  ~clash =>
    \A p \in Procs :
      cmd[p] = "run" /\ pc[p] = "exit" /\ code[p] = 0 =>
        \A c \in got[p] : c.key \in forgotten

Holding(p) == ring[p] # NoKey

(* All mints in memory have one ring, which is that of the file unless the *)
(* file is being created or written, and that of every canary planted; it  *)
(* is none that was forgotten (main.py:41-57).                             *)
OneRing ==
  ~clash =>
    /\ \A p, q \in Procs : Holding(p) /\ Holding(q) => ring[p] = ring[q]
    /\ \A p \in Procs : Holding(p) =>
         /\ KeysPlanted \subseteq {ring[p]}
         /\ ring[p] \notin forgotten
         /\ file \in {Torn, ring[p]} \/ (pc[p] = "create" /\ file = Absent)
    /\ file = Absent => KeysPlanted = {}
    /\ file \notin forgotten

(* The file is empty only while a process is about to fill it.             *)
BeingWritten == file = Torn /\ ~cut => \E p \in Procs : Writing(p)

(* Where a process stands tells what it has: a mint between _load_mint and *)
(* the exit, identities left only in seed, leaks only in run.              *)
WhereItStands(p) ==
  /\ pc[p] \in {"create", "creating", "save", "saving", "saved"} => Holding(p)
  /\ pc[p] \in {"prepare", "work"} /\ cmd[p] # "race" => Holding(p)
  /\ pc[p] \in {"state", "create", "creating"} => cmd[p] # "race"
  /\ pc[p] \in {"save", "saving", "saved"} => cmd[p] = "seed"
  /\ Holding(p) => Active(p)
  /\ todo[p] # {} => pc[p] = "work" /\ cmd[p] = "seed"
  /\ got[p] # {} => cmd[p] = "run" /\ pc[p] \in {"work", "exit", "dead"}

(* What came back to a run that still goes on is tagged by its own ring,   *)
(* or by a key that was forgotten.                                         *)
GotIsKnown ==
  ~clash =>
    \A p \in Procs : Active(p) => \A c \in got[p] : c.key \in {ring[p]} \cup forgotten

(* The inductive invariant behind the theorems of CommandsProofs: the      *)
(* promises to the user with what they need of memory, file and           *)
(* application together (main.py:38-57, 105-151, 206-231).                 *)
CommandsInv ==
  /\ TypeOK
  /\ OneRing
  /\ \A p \in Procs : WhereItStands(p)
  /\ BeingWritten
  /\ GotIsKnown
  /\ PlantedKnown
  /\ CleanMeansNoLeak

=============================================================================
