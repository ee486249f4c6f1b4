------------------------------- MODULE Matrix -------------------------------
(***************************************************************************)
(* The replay matrix: build_matrix of authdiff/engine/matrix.py.  Two      *)
(* nested loops visit the cells of the table whose rows are the observed   *)
(* requests and whose columns are the identities, with the anonymous actor *)
(* as a last column; a cell becomes a task unless the request is the       *)
(* actor's own or a cell with the same key was taken before.               *)
(*                                                                         *)
(* Of an observed request the loops read the owner, what it asks for, and  *)
(* the tag OBJECT_REF.  Its target stands for the method and the URL up to *)
(* the query string; the fingerprint is a hash of exactly these.           *)
(***************************************************************************)
EXTENDS Integers, Sequences

CONSTANTS
  Observable,       \* the requests that a capture may hold
  Captures,         \* the lists of observed requests to begin with
  Identities,       \* the configured identities, in order
  Anonymous,        \* the actor None, whose key is "<anonymous>"
  NoQuery,          \* the query of a URL without "?"
  ObjectTargets,    \* the targets whose path alone refers to an object
  IncludeAnonymous, \* include_anonymous
  ObjectRefsOnly    \* object_refs_only

ASSUME MatrixAssumption ==
  /\ Captures \subseteq Seq(Observable)
  /\ Identities \in Seq({Identities[n] : n \in DOMAIN Identities})
  /\ \A r \in Observable : r.owner # Anonymous
  /\ {IncludeAnonymous, ObjectRefsOnly} \subseteq BOOLEAN

VARIABLES
  observed,  \* the argument of build_matrix
  row, col,  \* the cell the loops have reached
  seen,      \* the keys taken
  tasks      \* the matrix built so far

matrixVars == <<observed, row, col, seen, tasks>>

Columns == Identities \o (IF IncludeAnonymous THEN <<Anonymous>> ELSE <<>>)
Actors == {Columns[n] : n \in 1..Len(Columns)}

(* The tag OBJECT_REF: the path holds an identifier or is nested, or the   *)
(* URL has a query string.                                                 *)
Tagged(r) == r.target \in ObjectTargets \/ r.query # NoQuery

Wanted(r) == ObjectRefsOnly => Tagged(r)

Fingerprint(r) == r.target

Key(r, a) == <<Fingerprint(r), a>>

MatrixInit ==
  /\ observed \in Captures
  /\ row = 1
  /\ col = 1
  /\ seen = {}
  /\ tasks = <<>>

Building == row <= Len(observed)
AtCell == Building /\ col <= Len(Columns)

(* The inner loop goes on to its next actor.                               *)
NextColumn ==
  /\ col' = col + 1
  /\ UNCHANGED <<observed, row>>

(* A row ends: after its last actor, or at once if the request is skipped. *)
NextRow ==
  /\ Building
  /\ ~Wanted(observed[row]) \/ col > Len(Columns)
  /\ row' = row + 1
  /\ col' = 1
  /\ UNCHANGED <<observed, seen, tasks>>

(* Mutant: the owner ends the row.                                         *)
OwnCellEndsRow ==
  /\ AtCell
  /\ Wanted(observed[row])
  /\ Columns[col] = observed[row].owner
  /\ row' = row + 1
  /\ col' = 1
  /\ UNCHANGED <<observed, seen, tasks>>

OwnCell ==
  /\ AtCell
  /\ Wanted(observed[row])
  /\ Columns[col] = observed[row].owner
  /\ NextColumn
  /\ UNCHANGED <<seen, tasks>>

SeenCell ==
  /\ AtCell
  /\ Wanted(observed[row])
  /\ Columns[col] # observed[row].owner
  /\ Key(observed[row], Columns[col]) \in seen
  /\ NextColumn
  /\ UNCHANGED <<seen, tasks>>

(* Mutant: the key is not looked up.                                       *)
NewCellUnseen ==
  /\ AtCell
  /\ Wanted(observed[row])
  /\ Columns[col] # observed[row].owner
  /\ seen' = seen \cup {Key(observed[row], Columns[col])}
  /\ tasks' = Append(tasks, [request |-> observed[row], actor |-> Columns[col]])
  /\ NextColumn

(* Mutant: the set receives the fingerprint alone.                         *)
NewCellKeyless ==
  /\ AtCell
  /\ Wanted(observed[row])
  /\ Columns[col] # observed[row].owner
  /\ Fingerprint(observed[row]) \notin seen
  /\ seen' = seen \cup {Fingerprint(observed[row])}
  /\ tasks' = Append(tasks, [request |-> observed[row], actor |-> Columns[col]])
  /\ NextColumn

(* Mutant: the owner gets a task too.                                      *)
NewCellForAnyone ==
  /\ AtCell
  /\ Wanted(observed[row])
  /\ Key(observed[row], Columns[col]) \notin seen
  /\ seen' = seen \cup {Key(observed[row], Columns[col])}
  /\ tasks' = Append(tasks, [request |-> observed[row], actor |-> Columns[col]])
  /\ NextColumn

NewCell ==
  /\ AtCell
  /\ Wanted(observed[row])
  /\ Columns[col] # observed[row].owner
  /\ Key(observed[row], Columns[col]) \notin seen
  /\ seen' = seen \cup {Key(observed[row], Columns[col])}
  /\ tasks' = Append(tasks, [request |-> observed[row], actor |-> Columns[col]])
  /\ NextColumn

MatrixNext == NextRow \/ OwnCell \/ SeenCell \/ NewCell

MatrixSpec == MatrixInit /\ [][MatrixNext]_matrixVars

----------------------------------------------------------------------------

Keys == {r.target : r \in Observable} \X Actors
TaskRecords == [request : Observable, actor : Actors]

TaskKey(k) == Key(tasks[k].request, tasks[k].actor)

(* The cell (m, n) of the table is one that the matrix owes a task.        *)
Eligible(m, n) ==
  /\ Wanted(observed[m])
  /\ Columns[n] # observed[m].owner

(* The cell (m, n) comes before the one the loops have reached.            *)
Visited(m, n) == m < row \/ (m = row /\ n < col)

(* Types of the variables (matrix.py:27-29).                               *)
MatrixTypeOK ==
  /\ observed \in Seq(Observable)
  /\ row \in 1..Len(observed) + 1
  /\ col \in 1..Len(Columns) + 1
  /\ seen \subseteq Keys
  /\ tasks \in Seq(TaskRecords)

(* The set of keys is the set of keys of the tasks, and no two tasks share *)
(* one: each request is replayed once under each actor (matrix.py:36-45).  *)
EachCellOnce ==
  /\ seen = {TaskKey(k) : k \in 1..Len(tasks)}
  /\ \A k, l \in 1..Len(tasks) : TaskKey(k) = TaskKey(l) => k = l

(* A task replays the earliest request with its key that the actor does    *)
(* not own: never the actor's own request, never an untagged one, never a  *)
(* later duplicate (matrix.py:29-40).                                      *)
FirstCaptureReplayed ==
  \A k \in 1..Len(tasks) :
    \E m \in 1..Len(observed), n \in 1..Len(Columns) :
      /\ tasks[k] = [request |-> observed[m], actor |-> Columns[n]]
      /\ Eligible(m, n)
      /\ \A l \in 1..(m - 1) :
           Eligible(l, n) => Fingerprint(observed[l]) # Fingerprint(observed[m])

(* Every cell visited that is owed a task has one, made from a request     *)
(* with the same method and path.  At the end of the loops this is the     *)
(* completeness of the matrix up to the fingerprint (matrix.py:29-46).     *)
NoCellMissed ==
  \A m \in 1..Len(observed), n \in 1..Len(Columns) :
    Visited(m, n) /\ Eligible(m, n) =>
      \E k \in 1..Len(tasks) : TaskKey(k) = Key(observed[m], Columns[n])

(* The inductive invariant behind the theorems of MatrixProofs.            *)
MatrixInv == MatrixTypeOK /\ EachCellOnce /\ FirstCaptureReplayed /\ NoCellMissed

=============================================================================
