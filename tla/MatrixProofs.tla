---------------------------- MODULE MatrixProofs ----------------------------
(***************************************************************************)
(* Theorems about the replay matrix, for every capture, every list of      *)
(* identities and both flags.  The argument is a loop invariant: the set   *)
(* of keys is the set of keys of the tasks, and every cell behind the      *)
(* loops that is owed a task has one.  A cell that gets a task is then the *)
(* first with its key, because an earlier one would have left its key.     *)
(***************************************************************************)
EXTENDS Matrix, TLAPS

Cells == 1..Len(Columns)

(* The columns are a sequence of actors, with or without the last one      *)
(* (matrix.py:33-45).                                                      *)
LEMMA ColumnsAreActors ==
  /\ Len(Columns) \in Nat
  /\ Columns \in Seq(Actors)
<1> DEFINE Ids == {Identities[n] : n \in DOMAIN Identities}
           Last == IF IncludeAnonymous THEN <<Anonymous>> ELSE <<>>
<1>1. Identities \in Seq(Ids \cup {Anonymous})
  BY MatrixAssumption
<1>2. Last \in Seq(Ids \cup {Anonymous})
  <2>1. <<Anonymous>> \in Seq(Ids \cup {Anonymous})
    <3> HIDE DEF Ids
    <3> QED  OBVIOUS
  <2>2. <<>> \in Seq(Ids \cup {Anonymous})
    <3> HIDE DEF Ids
    <3> QED  OBVIOUS
  <2> QED  BY <2>1, <2>2
<1>3. Columns \in Seq(Ids \cup {Anonymous})
  BY <1>1, <1>2 DEF Columns
<1>4. \A s : s \in Seq(Ids \cup {Anonymous})
              => Len(s) \in Nat /\ s \in Seq({s[n] : n \in 1..Len(s)})
  OBVIOUS
<1> QED  BY <1>3, <1>4 DEF Actors, Cells

(* What the request of a row is, while there is one (matrix.py:29).        *)
LEMMA RowIsARequest ==
  ASSUME MatrixTypeOK
  PROVE  /\ observed \in Seq(Observable)
         /\ Len(observed) \in Nat
         /\ \A m \in 1..Len(observed) : observed[m] \in Observable
         /\ \A m \in 1..Len(observed), a \in Actors : Key(observed[m], a) \in Keys
<1>1. observed \in Seq(Observable)
  BY MatrixAssumption DEF MatrixTypeOK
<1>2. \A m \in 1..Len(observed) : observed[m] \in Observable
  BY <1>1
<1> QED  BY <1>1, <1>2 DEF Fingerprint, Key, Keys

(* The invariant holds of the empty matrix (matrix.py:27-28).              *)
LEMMA InitEstablishes == MatrixInit => MatrixInv
<1> SUFFICES ASSUME MatrixInit PROVE MatrixInv
  OBVIOUS
<1> USE ColumnsAreActors, MatrixAssumption
<1>1. observed \in Seq(Observable) /\ Len(observed) \in Nat
  BY DEF MatrixInit
<1>2. MatrixTypeOK
  BY <1>1 DEF MatrixInit, MatrixTypeOK
<1>3. EachCellOnce
  BY DEF MatrixInit, EachCellOnce
<1>4. FirstCaptureReplayed
  BY DEF MatrixInit, FirstCaptureReplayed
<1>5. NoCellMissed
  <2> SUFFICES ASSUME NEW m \in 1..Len(observed), NEW n \in 1..Len(Columns)
               PROVE  ~Visited(m, n)
    BY DEF NoCellMissed
  <2> QED  BY <1>1 DEF MatrixInit, Visited
<1> QED  BY <1>2, <1>3, <1>4, <1>5 DEF MatrixInv

(* What is made of the constants alone stays (matrix.py:23-25).            *)
LEMMA ConstantsStay ==
  /\ Columns' = Columns
  /\ Actors' = Actors
  /\ Keys' = Keys
  /\ TaskRecords' = TaskRecords
<1>1. Columns' = Columns
  BY DEF Columns
<1>2. Actors' = Actors
  BY <1>1 DEF Actors
<1> QED  BY <1>1, <1>2 DEF Keys, TaskRecords

(* The capture is not written to, so that what each cell is owed stays     *)
(* (matrix.py:29-35).                                                      *)
LEMMA CellsStay ==
  ASSUME UNCHANGED observed
  PROVE  \A m, n : Eligible(m, n)' <=> Eligible(m, n)
BY ConstantsStay DEF Eligible, Wanted, Tagged

(* A step that leaves the tasks and their keys alone keeps what is said of *)
(* them (matrix.py:31, 35, 38).                                            *)
LEMMA TasksUntouched ==
  ASSUME MatrixInv, UNCHANGED <<observed, seen, tasks>>
  PROVE  /\ EachCellOnce'
         /\ FirstCaptureReplayed'
         /\ \A k : TaskKey(k)' = TaskKey(k)
<1>1. \A k : TaskKey(k)' = TaskKey(k)
  BY DEF TaskKey, Key, Fingerprint
<1>2. EachCellOnce'
  BY <1>1 DEF MatrixInv, EachCellOnce
<1>3. FirstCaptureReplayed'
  BY ConstantsStay, CellsStay DEF MatrixInv, FirstCaptureReplayed, Fingerprint
<1> QED  BY <1>1, <1>2, <1>3

(* A skipped cell is one that is owed no task or has one already           *)
(* (matrix.py:34-38).                                                      *)
LEMMA SkippedCell ==
  ASSUME MatrixInv, OwnCell \/ SeenCell
  PROVE  MatrixInv'
<1> USE ColumnsAreActors
<1>1. /\ AtCell /\ col' = col + 1 /\ UNCHANGED <<row, observed, seen, tasks>>
      /\ Eligible(row, col) => Key(observed[row], Columns[col]) \in seen
  BY DEF OwnCell, SeenCell, NextColumn, Eligible
<1>2. MatrixTypeOK /\ MatrixTypeOK'
  <2>1. MatrixTypeOK
    BY DEF MatrixInv
  <2>2. col' \in 1..Len(Columns) + 1
    BY <1>1, <2>1 DEF MatrixTypeOK, AtCell
  <2> QED  BY <1>1, <2>1, <2>2, ConstantsStay DEF MatrixTypeOK
<1>3. /\ EachCellOnce'
      /\ FirstCaptureReplayed'
      /\ \A m, n : Eligible(m, n)' <=> Eligible(m, n)
      /\ \A k : TaskKey(k)' = TaskKey(k)
  BY <1>1, TasksUntouched, CellsStay
<1>4. NoCellMissed'
  <2> SUFFICES ASSUME NEW m \in 1..Len(observed), NEW n \in 1..Len(Columns),
                      Visited(m, n)', Eligible(m, n)
               PROVE  \E k \in 1..Len(tasks) : TaskKey(k) = Key(observed[m], Columns[n])
    BY <1>1, <1>3, ConstantsStay DEF NoCellMissed, Key, Fingerprint
  <2>1. CASE Visited(m, n)
    BY <2>1 DEF MatrixInv, NoCellMissed
  <2>2. CASE ~Visited(m, n)
    <3>1. m = row /\ n = col
      BY <1>1, <1>2, <2>2, RowIsARequest DEF Visited, MatrixTypeOK
    <3>2. Key(observed[row], Columns[col]) \in {TaskKey(k) : k \in 1..Len(tasks)}
      BY <1>1, <3>1 DEF MatrixInv, EachCellOnce
    <3> QED  BY <3>1, <3>2
  <2> QED  BY <2>1, <2>2
<1> QED  BY <1>2, <1>3, <1>4 DEF MatrixInv

(* A row ends when it is owed no task or all its cells are behind          *)
(* (matrix.py:29-31).                                                      *)
LEMMA RowEnds ==
  ASSUME MatrixInv, NextRow
  PROVE  MatrixInv'
<1> USE ColumnsAreActors
<1>1. /\ Building /\ row' = row + 1 /\ col' = 1 /\ UNCHANGED <<observed, seen, tasks>>
      /\ ~Wanted(observed[row]) \/ col > Len(Columns)
  BY DEF NextRow
<1>2. MatrixTypeOK /\ MatrixTypeOK'
  <2>1. MatrixTypeOK
    BY DEF MatrixInv
  <2>2. row' \in 1..Len(observed) + 1 /\ col' \in 1..Len(Columns) + 1
    BY <1>1, <2>1, RowIsARequest DEF MatrixTypeOK, Building
  <2> QED  BY <1>1, <2>1, <2>2, ConstantsStay DEF MatrixTypeOK
<1>3. /\ EachCellOnce'
      /\ FirstCaptureReplayed'
      /\ \A m, n : Eligible(m, n)' <=> Eligible(m, n)
      /\ \A k : TaskKey(k)' = TaskKey(k)
  BY <1>1, TasksUntouched, CellsStay
<1>4. NoCellMissed'
  <2> SUFFICES ASSUME NEW m \in 1..Len(observed), NEW n \in 1..Len(Columns),
                      Visited(m, n)', Eligible(m, n)
               PROVE  \E k \in 1..Len(tasks) : TaskKey(k) = Key(observed[m], Columns[n])
    BY <1>1, <1>3, ConstantsStay DEF NoCellMissed, Key, Fingerprint
  <2>1. m < row \/ m = row
    BY <1>1, <1>2, RowIsARequest DEF Visited, MatrixTypeOK
  <2>2. m = row => n < col
    BY <1>1, <1>2 DEF Eligible, MatrixTypeOK
  <2>3. Visited(m, n)
    BY <2>1, <2>2 DEF Visited
  <2> QED  BY <2>3 DEF MatrixInv, NoCellMissed
<1> QED  BY <1>2, <1>3, <1>4 DEF MatrixInv

(* The first cell with its key gets a task (matrix.py:39-40, 44-45).       *)
LEMMA CellTaken ==
  ASSUME MatrixInv, NewCell
  PROVE  MatrixInv'
<1> USE ColumnsAreActors
<1> DEFINE r == observed[row]
           a == Columns[col]
           t == [request |-> r, actor |-> a]
           last == Len(tasks) + 1
<1>1. /\ AtCell /\ Wanted(r) /\ a # r.owner /\ Key(r, a) \notin seen
      /\ seen' = seen \cup {Key(r, a)} /\ tasks' = Append(tasks, t)
      /\ col' = col + 1 /\ UNCHANGED <<observed, row>>
  BY DEF NewCell, NextColumn
<1>2. MatrixTypeOK
  BY DEF MatrixInv
<1>3. row \in 1..Len(observed) /\ col \in Cells /\ Len(observed) \in Nat
  BY <1>1, <1>2, RowIsARequest DEF AtCell, Building, MatrixTypeOK, Cells
<1>4. r \in Observable /\ a \in Actors /\ Key(r, a) \in Keys
  BY <1>2, <1>3, RowIsARequest DEF Actors, Cells
<1>5. tasks \in Seq(TaskRecords) /\ t \in TaskRecords
  BY <1>2, <1>4 DEF MatrixTypeOK, TaskRecords
<1>6. /\ Len(tasks) \in Nat
      /\ tasks' \in Seq(TaskRecords)
      /\ Len(tasks') = last
      /\ tasks'[last] = t
      /\ \A k \in 1..Len(tasks) : tasks'[k] = tasks[k]
  BY <1>1, <1>5
<1>7. MatrixTypeOK'
  <2>1. seen' \subseteq Keys
    BY <1>1, <1>2, <1>4 DEF MatrixTypeOK
  <2>2. col' \in 1..Len(Columns) + 1 /\ row' \in 1..Len(observed) + 1
    BY <1>1, <1>3 DEF Cells
  <2> QED  BY <1>1, <1>2, <1>6, <2>1, <2>2, ConstantsStay DEF MatrixTypeOK
<1> HIDE DEF r, a, t
<1> DEFINE old(k) == Key(tasks[k].request, tasks[k].actor)
           new(k) == Key(tasks'[k].request, tasks'[k].actor)
<1>8. /\ \A k \in 1..Len(tasks) : new(k) = old(k)
      /\ new(last) = Key(r, a)
      /\ \A k : TaskKey(k) = old(k) /\ TaskKey(k)' = new(k)
  <2>1. t.request = r /\ t.actor = a
    BY DEF t
  <2>2. \A k : TaskKey(k)' = new(k)
    BY DEF TaskKey, Key, Fingerprint
  <2>3. \A k : TaskKey(k) = old(k)
    BY DEF TaskKey
  <2>4. new(last) = Key(r, a)
    BY <1>6, <2>1
  <2>5. \A k \in 1..Len(tasks) : new(k) = old(k)
    BY <1>6
  <2> QED  BY <2>2, <2>3, <2>4, <2>5
<1> HIDE DEF old, new
<1>9. 1..Len(tasks') = (1..Len(tasks)) \cup {last}
  BY <1>6
<1> HIDE DEF last
<1>10. EachCellOnce'
  <2>1. /\ seen = {old(k) : k \in 1..Len(tasks)}
        /\ \A k, l \in 1..Len(tasks) : old(k) = old(l) => k = l
    BY <1>8 DEF MatrixInv, EachCellOnce
  <2>2. seen' = {new(k) : k \in 1..Len(tasks')}
    BY <1>1, <1>8, <1>9, <2>1
  <2>3. \A k \in 1..Len(tasks) : new(k) # new(last)
    BY <1>1, <1>8, <2>1
  <2>4. \A k, l \in 1..Len(tasks') : new(k) = new(l) => k = l
    BY <1>8, <1>9, <2>1, <2>3
  <2>5. seen' = {TaskKey(k)' : k \in 1..Len(tasks')}
    BY <1>8, <2>2
  <2>6. \A k, l \in 1..Len(tasks') : TaskKey(k)' = TaskKey(l)' => k = l
    BY <1>8, <2>4
  <2> QED  BY <2>5, <2>6 DEF EachCellOnce
<1>11. \A m, n : Eligible(m, n)' <=> Eligible(m, n)
  BY <1>1, CellsStay
<1>12. FirstCaptureReplayed'
  <2> DEFINE First(x, m, n) ==
               /\ x = [request |-> observed[m], actor |-> Columns[n]]
               /\ Eligible(m, n)
               /\ \A l \in 1..(m - 1) :
                    Eligible(l, n) => Fingerprint(observed[l]) # Fingerprint(observed[m])
  <2>1. \A k \in 1..Len(tasks) : \E m \in 1..Len(observed), n \in 1..Len(Columns) :
          First(tasks[k], m, n)
    BY DEF MatrixInv, FirstCaptureReplayed
  <2>2. First(t, row, col)
    <3>1. t = [request |-> observed[row], actor |-> Columns[col]]
      BY DEF t, r, a
    <3>2. Eligible(row, col)
      BY <1>1 DEF Eligible, r, a
    <3>3. ASSUME NEW l \in 1..(row - 1), Eligible(l, col)
          PROVE  Fingerprint(observed[l]) # Fingerprint(observed[row])
      <4>1. l \in 1..Len(observed) /\ Visited(l, col)
        BY <1>3 DEF Visited
      <4>2. PICK k \in 1..Len(tasks) : TaskKey(k) = Key(observed[l], Columns[col])
        BY <1>3, <3>3, <4>1 DEF MatrixInv, NoCellMissed, Cells
      <4>3. Key(observed[l], a) \in seen
        BY <4>2 DEF MatrixInv, EachCellOnce, a
      <4> QED  BY <1>1, <4>3 DEF Key, r
    <3> QED  BY <3>1, <3>2, <3>3
  <2>3. \A k \in 1..Len(tasks') : \E m \in 1..Len(observed), n \in 1..Len(Columns) :
          First(tasks'[k], m, n)
    <3> SUFFICES ASSUME NEW k \in 1..Len(tasks')
                 PROVE  \E m \in 1..Len(observed), n \in 1..Len(Columns) :
                          First(tasks'[k], m, n)
      OBVIOUS
    <3> HIDE DEF First
    <3>1. CASE k = last
      BY <1>3, <1>6, <2>2, <3>1 DEF Cells
    <3>2. CASE k \in 1..Len(tasks)
      BY <1>6, <2>1, <3>2
    <3> QED  BY <1>9, <3>1, <3>2
  <2>4. /\ observed' = observed /\ Columns' = Columns
        /\ \A m, n : Eligible(m, n)' <=> Eligible(m, n)
    BY <1>1, <1>11, ConstantsStay
  <2>5. ASSUME NEW k \in 1..Len(tasks')
        PROVE  (\E m \in 1..Len(observed), n \in 1..Len(Columns) :
                  /\ tasks[k] = [request |-> observed[m], actor |-> Columns[n]]
                  /\ Eligible(m, n)
                  /\ \A l \in 1..(m - 1) :
                       Eligible(l, n) => Fingerprint(observed[l]) # Fingerprint(observed[m]))'
    <3>1. PICK m \in 1..Len(observed), n \in 1..Len(Columns) : First(tasks'[k], m, n)
      BY <2>3
    <3>2. m \in 1..Len(observed') /\ n \in 1..Len(Columns')
      BY <2>4
    <3>3. /\ tasks'[k] = [request |-> observed'[m], actor |-> Columns'[n]]
          /\ Eligible(m, n)'
          /\ \A l \in 1..(m - 1) :
               Eligible(l, n)' => Fingerprint(observed'[l]) # Fingerprint(observed'[m])
      BY <2>4, <3>1
    <3> QED  BY <3>2, <3>3 DEF Fingerprint
  <2> QED  BY <2>5 DEF FirstCaptureReplayed
<1>13. NoCellMissed'
  <2> SUFFICES ASSUME NEW m \in 1..Len(observed), NEW n \in 1..Len(Columns),
                      Visited(m, n)', Eligible(m, n)
               PROVE  \E k \in 1..Len(tasks') : TaskKey(k)' = Key(observed[m], Columns[n])
    BY <1>1, <1>11, ConstantsStay DEF NoCellMissed, Key, Fingerprint
  <2>1. CASE Visited(m, n)
    <3>1. PICK k \in 1..Len(tasks) : TaskKey(k) = Key(observed[m], Columns[n])
      BY <2>1 DEF MatrixInv, NoCellMissed
    <3> QED  BY <1>8, <1>9, <3>1
  <2>2. CASE ~Visited(m, n)
    <3>1. m = row /\ n = col
      BY <1>1, <1>3, <2>2 DEF Visited, Cells
    <3>2. Key(observed[m], Columns[n]) = Key(r, a)
      BY <3>1 DEF r, a
    <3>3. last \in 1..Len(tasks')
      BY <1>9
    <3> QED  BY <1>8, <3>2, <3>3
  <2> QED  BY <2>1, <2>2
<1> QED  BY <1>7, <1>10, <1>12, <1>13 DEF MatrixInv

(* Every step of the loops keeps the invariant (matrix.py:29-46).          *)
LEMMA StepPreserves ==
  MatrixInv /\ [MatrixNext]_matrixVars => MatrixInv'
<1> SUFFICES ASSUME MatrixInv, [MatrixNext]_matrixVars PROVE MatrixInv'
  OBVIOUS
<1>1. CASE NextRow
  BY <1>1, RowEnds
<1>2. CASE OwnCell \/ SeenCell
  BY <1>2, SkippedCell
<1>3. CASE NewCell
  BY <1>3, CellTaken
<1>4. CASE UNCHANGED matrixVars
  <2>1. UNCHANGED <<observed, row, col, seen, tasks>>
    BY <1>4 DEF matrixVars
  <2>2. MatrixTypeOK'
    BY <2>1, ConstantsStay DEF MatrixInv, MatrixTypeOK
  <2>3. NoCellMissed'
    BY <2>1, ConstantsStay, CellsStay
       DEF MatrixInv, NoCellMissed, TaskKey, Key, Fingerprint, Visited
  <2> QED  BY <2>1, <2>2, <2>3, TasksUntouched DEF MatrixInv
<1> QED  BY <1>1, <1>2, <1>3, <1>4 DEF MatrixNext

(* The loop invariant holds throughout build_matrix (matrix.py:29-46).     *)
THEOREM MatrixInvariant == MatrixSpec => []MatrixInv
<1>1. MatrixInit => MatrixInv
  BY InitEstablishes
<1>2. MatrixInv /\ [MatrixNext]_matrixVars => MatrixInv'
  BY StepPreserves
<1> QED  BY <1>1, <1>2, PTL DEF MatrixSpec

(* The set of keys and the list of tasks agree, and no request is replayed *)
(* twice under one actor (matrix.py:36-45).                                *)
THEOREM OneReplayPerCell == MatrixSpec => []EachCellOnce
<1>1. MatrixInv => EachCellOnce
  BY DEF MatrixInv
<1> QED  BY <1>1, MatrixInvariant, PTL

(* What a task replays is the first capture that its actor does not own    *)
(* (matrix.py:29-40).                                                      *)
THEOREM FirstCaptureWins == MatrixSpec => []FirstCaptureReplayed
<1>1. MatrixInv => FirstCaptureReplayed
  BY DEF MatrixInv
<1> QED  BY <1>1, MatrixInvariant, PTL

(* No cell is missed: the matrix is complete up to the fingerprint         *)
(* (matrix.py:29-46).                                                      *)
THEOREM CompleteUpToFingerprint == MatrixSpec => []NoCellMissed
<1>1. MatrixInv => NoCellMissed
  BY DEF MatrixInv
<1> QED  BY <1>1, MatrixInvariant, PTL

=============================================================================
