------------------------------- MODULE Intake -------------------------------
(***************************************************************************)
(* How a run comes by the requests it replays: the command run of          *)
(* authdiff/cli/main.py up to the matrix, with the parsers of              *)
(* authdiff/inputs.  The requests of the configuration come first; then    *)
(* each --input ID=PATH is read in turn, in the format that                *)
(* detect_format makes out, and its requests are observed for that         *)
(* identity.  Then build_matrix (Matrix) visits them all.                  *)
(*                                                                         *)
(* A file is its format and its items, in the order of the document.  An   *)
(* item is a request, with what Matrix tells apart of it; a Postman        *)
(* folder, which has items; "nothing", which holds no request; or          *)
(* "broken", on which the parser raises.  A parser returns its list at the *)
(* end; nobody looks at it before, so that each request is appended to     *)
(* observed at once.                                                       *)
(***************************************************************************)
EXTENDS Matrix

CONSTANTS
  Given,          \* what a run may be given: [config, inputs]
  Items,          \* the items of all files, those inside folders included
  NoUrl,          \* the target of a request without a URL
  StaticTargets,  \* the targets whose path ends as that of an asset
  IgnoredTargets  \* those whose method openapi.parse passes over

(* The identities that --input and the configuration may name.             *)
Configured == {Identities[n] : n \in DOMAIN Identities}

Request(owner, i) == [owner |-> owner, target |-> i.target, query |-> i.query]

(* What a run may be given: only a Postman collection has folders.         *)
WellFormed(g) ==
  /\ g.config \in Captures
  /\ g.inputs \in Seq({g.inputs[n] : n \in DOMAIN g.inputs})
  /\ \A n \in DOMAIN g.inputs :
       /\ g.inputs[n].items \in Seq(Items)
       /\ g.inputs[n].format = "har" =>
            \A k \in DOMAIN g.inputs[n].items : g.inputs[n].items[k].kind # "folder"

ASSUME IntakeAssumption ==
  /\ \A g \in Given : WellFormed(g)
  /\ \A i \in Items :
       /\ i.kind \in {"request", "folder", "nothing", "broken"}
       /\ i.kind = "folder" => i.items \in Seq(Items)
       /\ i.kind = "request" /\ i.target # NoUrl =>
            \A o \in Configured : Request(o, i) \in Observable
  /\ NoUrl \notin {r.target : r \in Observable}

VARIABLES
  stage,  \* "reading", "building", "refused" (exit code 2), "broken" (1)
  given,  \* the configuration's requests and the --input options
  at,     \* how many of the options have been taken
  todo,   \* of the file being parsed: the items left
  kept    \* seen: of har.parse, the fingerprints it has kept

intakeVars == <<stage, given, at, todo, kept>>
allVars == <<matrixVars, intakeVars>>

(* cfg.identities[entry["owner"]] raises KeyError for an unknown owner.    *)
OwnersKnown == \A n \in DOMAIN given.config : given.config[n].owner \in Configured

Init ==
  /\ given \in Given
  /\ observed = given.config
  /\ MatrixInit
  /\ stage = IF OwnersKnown THEN "reading" ELSE "broken"
  /\ at = 0
  /\ todo = <<>>
  /\ kept = {}

File == given.inputs[at]
(* The item makes the parser of the format produce a request.              *)
Replayable(format, i) ==
  /\ i.kind = "request"
  /\ i.target # NoUrl
  /\ format = "har" => i.target \notin StaticTargets
  /\ format = "openapi" => i.target \notin IgnoredTargets

----------------------------------------------------------------------------

(* The run ends here, without a replay.                                    *)
End(place) ==
  /\ stage' = place
  /\ UNCHANGED <<matrixVars, given, at, todo, kept>>

AtOption == stage = "reading" /\ todo = <<>> /\ at < Len(given.inputs)
Option == given.inputs[at + 1]

UnknownIdentity ==
  /\ AtOption
  /\ Option.owner \notin Configured
  /\ End("refused")

(* parse_file raises ValueError, which nobody catches.                     *)
Undetected ==
  /\ AtOption
  /\ Option.owner \in Configured
  /\ Option.format = "unknown"
  /\ End("broken")

(* Mutant: one set of fingerprints for all files.                          *)
OpenFileKeeping ==
  /\ AtOption
  /\ Option.owner \in Configured
  /\ Option.format # "unknown"
  /\ at' = at + 1
  /\ todo' = Option.items
  /\ UNCHANGED <<matrixVars, stage, given, kept>>

OpenFile ==
  /\ AtOption
  /\ Option.owner \in Configured
  /\ Option.format # "unknown"
  /\ at' = at + 1
  /\ todo' = Option.items
  /\ kept' = {}
  /\ UNCHANGED <<matrixVars, stage, given>>

AtItem == stage = "reading" /\ todo # <<>>

(* _walk goes into a folder, and on with what follows it.                  *)
EnterFolder ==
  /\ AtItem
  /\ Head(todo).kind = "folder"
  /\ todo' = Head(todo).items \o Tail(todo)
  /\ UNCHANGED <<matrixVars, stage, given, at, kept>>

Malformed == AtItem /\ Head(todo).kind = "broken" /\ End("broken")

(* The parser passes an item over, har.parse also one that it has seen.    *)
SkipItem ==
  /\ AtItem
  /\ Head(todo).kind \in {"request", "nothing"}
  /\ \/ ~Replayable(File.format, Head(todo))
     \/ File.format = "har" /\ Head(todo).target \in kept
  /\ todo' = Tail(todo)
  /\ UNCHANGED <<matrixVars, stage, given, at, kept>>

(* Mutant: every request is that of the first identity.                    *)
OwnerOfFirst == given.inputs[1].owner

Owner == File.owner

(* An item becomes a request observed for the identity of its file.        *)
KeepItem ==
  /\ AtItem
  /\ Replayable(File.format, Head(todo))
  /\ File.format = "har" => Head(todo).target \notin kept
  /\ observed' = Append(observed, Request(Owner, Head(todo)))
  /\ kept' = IF File.format = "har" THEN kept \cup {Head(todo).target} ELSE kept
  /\ todo' = Tail(todo)
  /\ UNCHANGED <<row, col, seen, tasks, stage, given, at>>

AllRead == stage = "reading" /\ todo = <<>> /\ at = Len(given.inputs)

NothingObserved == AllRead /\ observed = <<>> /\ End("refused")
StartMatrix == AllRead /\ observed # <<>> /\ End("building")

BuildMatrix ==
  /\ stage = "building"
  /\ MatrixNext
  /\ UNCHANGED intakeVars

Next ==
  \/ UnknownIdentity
  \/ Undetected
  \/ OpenFile
  \/ EnterFolder
  \/ Malformed
  \/ SkipItem
  \/ KeepItem
  \/ NothingObserved
  \/ StartMatrix
  \/ BuildMatrix

Spec == Init /\ [][Next]_allVars

----------------------------------------------------------------------------

(* A set of items that holds what its folders hold.                        *)
Closed ==
  {S \in SUBSET Items :
     \A i \in S : i.kind = "folder" => {i.items[n] : n \in DOMAIN i.items} \subseteq S}

(* What an item stands for: itself, or all that its folder holds, however  *)
(* deep.                                                                   *)
leaves == [i \in Items |-> {j \in Items : /\ j.kind # "folder"
                                         /\ \A S \in Closed : i \in S => j \in S}]

(* The item m of the file hides the item n from har.parse: an earlier      *)
(* request with the same fingerprint, but one that the matrix does not     *)
(* want.                                                                   *)
Hides(f, m, n) ==
  LET first == f.items[m]
      later == f.items[n]
  IN  /\ f.format = "har"
      /\ m < n
      /\ \A i \in {first, later} : Replayable("har", i)
      /\ first.target = later.target
      /\ ~Wanted(Request(f.owner, first))

(* The requests in the files given; those that har.parse cannot hide.      *)
InFile(f, n) ==
  {Request(f.owner, i) : i \in {j \in leaves[f.items[n]] : Replayable(f.format, j)}}
Capture == UNION {UNION {InFile(f, n) : n \in DOMAIN f.items} :
                    f \in {given.inputs[k] : k \in DOMAIN given.inputs}}
Visible == UNION {UNION {InFile(f, n) : n \in {m \in DOMAIN f.items :
                                                \A l \in DOMAIN f.items : ~Hides(f, l, m)}} :
                    f \in {given.inputs[k] : k \in DOMAIN given.inputs}}
FromConfig == {given.config[n] : n \in DOMAIN given.config}

(* A request is observed for an identity that captured it: the file it     *)
(* came from is that identity's, and no other's (main.py:109-121, and the  *)
(* parsers, which get the owner as an argument).                           *)
OwnersAttributed ==
  {observed[m] : m \in 1..Len(observed)} \subseteq FromConfig \cup Capture

Done == stage = "building" /\ ~Building

(* From the files to the matrix: each object reference in the              *)
(* configuration or in a file, however deep in folders and whatever was    *)
(* read before it, is replayed by every identity but its owner, up to the  *)
(* fingerprint, unless an untagged request of its own HAR file hides it    *)
(* (har.py:43-47, postman.py:13-17, main.py:108-121, matrix.py:29-45).     *)
ReferencesReplayed ==
  Done =>
    \A r \in FromConfig \cup Visible : \A a \in Actors \ {r.owner} :
      Wanted(r) => \E k \in 1..Len(tasks) : TaskKey(k) = Key(r, a)

(* The matrix is given a request that stands for r.                        *)
Covered(r) ==
  \E m \in 1..Len(observed) :
    /\ observed[m].owner = r.owner
    /\ Fingerprint(observed[m]) = Fingerprint(r)
    /\ Wanted(observed[m])

(* The request r has yet to come out of the file being parsed.             *)
Ahead(r) ==
  \E l \in 1..Len(todo) : \E i \in leaves[todo[l]] :
    Replayable(File.format, i) /\ r = Request(File.owner, i)

(* Types of the variables, and what the stage and the count of files say   *)
(* of the others (main.py:108-127, har.py:30-31).                          *)
IntakeTypeOK ==
  /\ stage \in {"reading", "building", "refused", "broken"}
  /\ WellFormed(given)
  /\ at \in 0..Len(given.inputs)
  /\ todo \in Seq(Items)
  /\ at = 0 => todo = <<>>
  /\ at > 0 => File.owner \in Configured
  /\ stage # "building" => row = 1 /\ col = 1 /\ seen = {} /\ tasks = <<>>
  /\ stage = "building" => todo = <<>> /\ at = Len(given.inputs)

(* What is left of a file is in the file.                                  *)
LeftIsInFile ==
  \A l \in 1..Len(todo) : \E n \in 1..Len(File.items) :
    leaves[todo[l]] \subseteq leaves[File.items[n]]

(* The item l of the file f is the first of its fingerprint.               *)
First(f, l) ==
  /\ Replayable("har", f.items[l])
  /\ \A m \in 1..(l - 1) :
       Replayable("har", f.items[m]) => f.items[m].target # f.items[l].target

(* har.parse has kept the first item of each fingerprint.                  *)
FirstsKept ==
  at > 0 /\ File.format = "har" =>
    LET past == Len(File.items) - Len(todo)
    IN  /\ past \in Nat
        /\ \A l \in 1..Len(todo) : todo[l] = File.items[past + l]
        /\ \A l \in 1..past :
             Replayable("har", File.items[l]) => File.items[l].target \in kept
        /\ \A t \in kept :
             \E l \in 1..past :
               /\ First(File, l)
               /\ File.items[l].target = t
               /\ Wanted(Request(File.owner, File.items[l])) =>
                    Covered(Request(File.owner, File.items[l]))

(* Each object reference in the configuration, and each in a file opened   *)
(* that nothing hides, is covered or still ahead.                          *)
NoneLost ==
  /\ \A r \in FromConfig : Wanted(r) => Covered(r)
  /\ \A k \in 1..at : \A n \in 1..Len(given.inputs[k].items) :
       \/ \E l \in 1..Len(given.inputs[k].items) : Hides(given.inputs[k], l, n)
       \/ \A r \in InFile(given.inputs[k], n) :
            Wanted(r) => Covered(r) \/ (k = at /\ Ahead(r))

(* The inductive invariant behind the theorems of IntakeProofs             *)
(* (main.py:108-133, har.py:30-47, postman.py:12-41, matrix.py:27-46).     *)
IntakeInv ==
  /\ IntakeTypeOK
  /\ MatrixInv
  /\ OwnersAttributed
  /\ LeftIsInFile
  /\ FirstsKept
  /\ NoneLost

(* What docs/architecture.md:28-30 says, completeness "from exhaustively    *)
(* replaying every object reference across the identity matrix": each URL  *)
(* in the input that refers to an object, its query included, is replayed  *)
(* by every identity but its owner (har.py:43, matrix.py:36).              *)
EveryReferenceReplayed ==
  Done =>
    \A r \in FromConfig \cup Capture : \A a \in Actors \ {r.owner} :
      Tagged(r) =>
        \E k \in 1..Len(tasks) :
          /\ tasks[k].actor = a
          /\ tasks[k].request.target = r.target
          /\ tasks[k].request.query = r.query

=============================================================================
