----------------------------- MODULE StateFile -----------------------------
(***************************************************************************)
(* The canary keys and the file that keeps them between two commands:      *)
(* KeyRing and CanaryMint of authdiff/core/canary.py, _load_mint and       *)
(* _save_mint of authdiff/cli/main.py.                                     *)
(*                                                                         *)
(* A command rotates no key, so that a ring holds one and is named by it.  *)
(* A canary is the identity it was minted for and the key that tags it:    *)
(* the tag can be recomputed under the same key only.                      *)
(*                                                                         *)
(* open(path, "w") empties the file and json.dump fills it, so that the    *)
(* file is torn in between; a command that dies there leaves it so.        *)
(***************************************************************************)
CONSTANTS
  Procs,  \* the commands started, each in a process of its own
  Ids,    \* the identities of the configuration
  Keys,   \* the keys that may be drawn
  NoKey,  \* the ring of a command that has none
  Absent, \* there is no state file
  Torn    \* the state file is no JSON document

ASSUME StateAssumption ==
  /\ {NoKey, Absent, Torn} \cap Keys = {}
  /\ Absent # Torn

VARIABLES
  file,  \* the state file: Absent, Torn, or the ring it holds
  ring,  \* of each process: the ring of its mint while it has one, or NoKey
  drawn  \* the keys that some process drew

stateVars == <<file, ring, drawn>>

FileInit ==
  /\ file \in {Absent} \cup Keys
  /\ ring = [p \in Procs |-> NoKey]
  /\ drawn = {file} \cap Keys

(* os.path.exists                                                          *)
Exists == file # Absent

(* CanaryMint(): a ring with a fresh key.                                  *)
FreshMint(p) ==
  /\ \E k \in Keys \ drawn : /\ ring' = [ring EXCEPT ![p] = k]
                             /\ drawn' = drawn \cup {k}
  /\ UNCHANGED file

(* Mutant: a file that cannot be read is replaced by fresh keys.           *)
ReadOrReplace(p) ==
  \/ /\ file \in Keys
     /\ ring' = [ring EXCEPT ![p] = file]
     /\ UNCHANGED <<file, drawn>>
  \/ file = Torn /\ FreshMint(p)

(* json.load and KeyRing.from_export                                       *)
Read(p) ==
  /\ file \in Keys
  /\ ring' = [ring EXCEPT ![p] = file]
  /\ UNCHANGED <<file, drawn>>

(* Mutant: the old file is removed before the new one is written.          *)
RemovedFirst ==
  /\ file' = Absent
  /\ UNCHANGED <<ring, drawn>>

(* open(state_path, "w")                                                   *)
Truncate ==
  /\ file' = Torn
  /\ UNCHANGED <<ring, drawn>>

(* Mutant: nothing is dumped.                                              *)
DumpNothing(p) ==
  /\ file' = NoKey
  /\ UNCHANGED <<ring, drawn>>

(* json.dump, and the end of the with statement.                           *)
Dump(p) ==
  /\ file' = ring[p]
  /\ UNCHANGED <<ring, drawn>>

(* The process ends, and its mint with it.                                 *)
Forget(p) ==
  /\ ring' = [ring EXCEPT ![p] = NoKey]
  /\ UNCHANGED <<file, drawn>>

(* mint(owner), for a text field.                                          *)
Canary(p, owner) == [owner |-> owner, key |-> ring[p]]

Canaries == [owner : Ids, key : Keys]

(* Mutant: the file is asked again for the key.                            *)
AttributedByActive(p, blob) ==
  {c.owner : c \in {d \in blob : d.key = ring[p] /\ d.key = file}}

(* attribute_detailed: the owners of the canaries in what was read whose   *)
(* tag the ring confirms.                                                  *)
Attributed(p, blob) == {c.owner : c \in {d \in blob : d.key = ring[p]}}

=============================================================================
