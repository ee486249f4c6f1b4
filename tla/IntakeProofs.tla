---------------------------- MODULE IntakeProofs ----------------------------
(***************************************************************************)
(* Theorems about the way from the files to the matrix, for any documents, *)
(* folders of any depth, and any list of identities.  The argument: what   *)
(* is left of a file stands for all that has yet to come out of it, and    *)
(* har.parse, which drops what has the fingerprint of an earlier request,  *)
(* has kept the first of each.  The matrix then finds in the list a        *)
(* request for each that it owes a replay.                                 *)
(***************************************************************************)
EXTENDS Intake, MatrixProofs, SequenceTheorems

(* An item that is no folder stands for itself.                            *)
LEMMA LeafIsItself ==
  ASSUME NEW i \in Items, i.kind # "folder"
  PROVE  leaves[i] = {i}
<1>1. {i} \in Closed
  BY DEF Closed
<1>2. i \in leaves[i]
  BY DEF leaves
<1>3. \A j \in leaves[i] : j = i
  BY <1>1 DEF leaves
<1> QED
  BY <1>2, <1>3

(* A folder stands for what its items stand for: what they reach is closed *)
(* under folders, and so is the folder with all of it.                     *)
LEMMA FolderIsItsItems ==
  ASSUME NEW i \in Items, i.kind = "folder"
  PROVE  /\ \A n \in 1..Len(i.items) : leaves[i.items[n]] \subseteq leaves[i]
         /\ \A j \in leaves[i] : \E n \in 1..Len(i.items) : j \in leaves[i.items[n]]
<1> DEFINE Reached(c) == {j \in Items : \A S \in Closed : c \in S => j \in S}
           all == {i} \cup UNION {Reached(i.items[n]) : n \in 1..Len(i.items)}
<1>1. /\ DOMAIN i.items = 1..Len(i.items)
      /\ \A n \in 1..Len(i.items) : i.items[n] \in Items
  BY IntakeAssumption
<1>2. \A S \in Closed : \A x \in S : x.kind = "folder" => {x.items[n] : n \in DOMAIN x.items} \subseteq S
  BY DEF Closed
<1>3. \A n \in 1..Len(i.items) : leaves[i.items[n]] \subseteq leaves[i]
  BY <1>1, <1>2 DEF leaves
<1>4. all \in Closed
  <2>1. all \subseteq Items
    OBVIOUS
  <2>2. ASSUME NEW x \in all, x.kind = "folder", NEW k \in DOMAIN x.items
        PROVE  x.items[k] \in all
    <3>1. CASE x = i
      <4>1. i.items[k] \in Reached(i.items[k]) /\ k \in 1..Len(i.items)
        BY <1>1, <2>2, <3>1
      <4> QED  BY <3>1, <4>1
    <3>2. ASSUME NEW n \in 1..Len(i.items), x \in Reached(i.items[n])
          PROVE  x.items[k] \in Reached(i.items[n])
      <4>1. x.items[k] \in Items
        BY <2>1, <2>2, IntakeAssumption
      <4>2. \A S \in Closed : i.items[n] \in S => x.items[k] \in S
        BY <1>2, <2>2, <3>2
      <4> QED  BY <4>1, <4>2
    <3> QED  BY <2>2, <3>1, <3>2
  <2> HIDE DEF all
  <2> QED  BY <2>1, <2>2 DEF Closed
<1>5. ASSUME NEW j \in leaves[i] PROVE \E n \in 1..Len(i.items) : j \in leaves[i.items[n]]
  <2>1. j \in Items /\ j.kind # "folder" /\ j \in all
    BY <1>4 DEF leaves
  <2>2. PICK n \in 1..Len(i.items) : j \in Reached(i.items[n])
    BY <2>1
  <2> QED  BY <1>1, <2>1, <2>2 DEF leaves
<1> QED
  BY <1>3, <1>5

(* What a run is given: lists of items (main.py:108-117).                  *)
LEMMA InputTypes ==
  ASSUME IntakeTypeOK
  PROVE  /\ given.config \in Seq(Observable)
         /\ Len(given.inputs) \in Nat
         /\ DOMAIN given.inputs = 1..Len(given.inputs)
         /\ at \in Nat /\ at <= Len(given.inputs)
         /\ \A k \in 1..Len(given.inputs) :
              /\ given.inputs[k].items \in Seq(Items)
              /\ Len(given.inputs[k].items) \in Nat
              /\ DOMAIN given.inputs[k].items = 1..Len(given.inputs[k].items)
              /\ \A n \in 1..Len(given.inputs[k].items) :
                   /\ given.inputs[k].items[n] \in Items
                   /\ given.inputs[k].format = "har" => given.inputs[k].items[n].kind # "folder"
<1>1. WellFormed(given)
  BY DEF IntakeTypeOK
<1>2. given.config \in Seq(Observable)
  BY <1>1, MatrixAssumption DEF WellFormed
<1>3. Len(given.inputs) \in Nat /\ DOMAIN given.inputs = 1..Len(given.inputs)
  BY <1>1 DEF WellFormed
<1>4. ASSUME NEW k \in 1..Len(given.inputs)
      PROVE  /\ given.inputs[k].items \in Seq(Items)
             /\ Len(given.inputs[k].items) \in Nat
             /\ DOMAIN given.inputs[k].items = 1..Len(given.inputs[k].items)
             /\ \A n \in 1..Len(given.inputs[k].items) :
                  /\ given.inputs[k].items[n] \in Items
                  /\ given.inputs[k].format = "har" => given.inputs[k].items[n].kind # "folder"
  <2>1. given.inputs[k].items \in Seq(Items)
    BY <1>1, <1>3 DEF WellFormed
  <2>2. /\ Len(given.inputs[k].items) \in Nat
        /\ DOMAIN given.inputs[k].items = 1..Len(given.inputs[k].items)
        /\ \A n \in 1..Len(given.inputs[k].items) : given.inputs[k].items[n] \in Items
    BY <2>1
  <2> QED  BY <1>1, <1>3, <2>1, <2>2 DEF WellFormed
<1> QED
  BY <1>2, <1>3, <1>4 DEF IntakeTypeOK

(* The item at hand and those behind it (har.py:30, postman.py:13).        *)
LEMMA TodoParts ==
  ASSUME IntakeTypeOK, AtItem
  PROVE  /\ Head(todo) = todo[1] /\ Head(todo) \in Items /\ 1 \in 1..Len(todo)
         /\ Len(todo) \in Nat /\ Len(todo) >= 1
         /\ Tail(todo) \in Seq(Items) /\ Len(Tail(todo)) = Len(todo) - 1
         /\ \A l \in 1..(Len(todo) - 1) : Tail(todo)[l] = todo[l + 1]
         /\ at > 0 /\ at \in 1..Len(given.inputs) /\ File.owner \in Configured
<1>1. todo \in Seq(Items) /\ todo # <<>>
  BY DEF IntakeTypeOK, AtItem
<1>2. at \in 1..Len(given.inputs) /\ at > 0 /\ File.owner \in Configured
  BY <1>1, InputTypes DEF IntakeTypeOK
<1> QED
  BY <1>1, <1>2, HeadTailProperties

(* What a file holds, what hides what in it and what the matrix wants do   *)
(* not change.                                                             *)
LEMMA ContentsStay ==
  /\ \A f, n : InFile(f, n)' = InFile(f, n)
  /\ \A f, l, n : Hides(f, l, n)' <=> Hides(f, l, n)
  /\ \A r : Wanted(r)' <=> Wanted(r)
<1>1. \A r : Wanted(r)' <=> Wanted(r)
  BY DEF Wanted, Tagged
<1>2. \A f, n : InFile(f, n)' = InFile(f, n)
  BY DEF InFile, leaves, Closed, Request, Replayable
<1>3. \A f, l, n : Hides(f, l, n)' <=> Hides(f, l, n)
  BY <1>1 DEF Hides, Request, Replayable
<1> QED
  BY <1>1, <1>2, <1>3

(* What the run was given does not change.                                 *)
LEMMA CapturesStay ==
  ASSUME UNCHANGED given
  PROVE  FromConfig' = FromConfig /\ Capture' = Capture
<1>1. FromConfig' = FromConfig
  BY DEF FromConfig
<1>2. Capture' = Capture
  BY ContentsStay DEF Capture
<1> QED
  BY <1>1, <1>2

(* A request that is listed stays listed.                                  *)
LEMMA ListedStays ==
  ASSUME MatrixTypeOK, NEW q \in Observable, observed' = Append(observed, q)
  PROVE  /\ observed' \in Seq(Observable) /\ Len(observed) \in Nat
         /\ Len(observed') = Len(observed) + 1 /\ observed'[Len(observed) + 1] = q
         /\ \A m \in 1..Len(observed) : observed'[m] = observed[m]
         /\ \A r : Covered(r) => Covered(r)'
<1>1. observed \in Seq(Observable)
  BY DEF MatrixTypeOK
<1>2. /\ observed' \in Seq(Observable) /\ Len(observed) \in Nat
      /\ Len(observed') = Len(observed) + 1 /\ observed'[Len(observed) + 1] = q
      /\ \A m \in 1..Len(observed) : observed'[m] = observed[m]
  BY <1>1, AppendProperties
<1>3. ASSUME NEW r, Covered(r) PROVE Covered(r)'
  <2>1. PICK m \in 1..Len(observed) : /\ observed[m].owner = r.owner
                                      /\ Fingerprint(observed[m]) = Fingerprint(r)
                                      /\ Wanted(observed[m])
    BY <1>3 DEF Covered
  <2>2. m \in 1..Len(observed') /\ observed'[m] = observed[m]
    BY <1>2
  <2> QED  BY <2>1, <2>2 DEF Covered, Fingerprint, Wanted, Tagged
<1> QED
  BY <1>2, <1>3

(* What the items of the file are does not change.                         *)
LEMMA FileStays ==
  ASSUME File' = File
  PROVE  /\ \A l : First(File, l)' <=> First(File, l)
         /\ \A l : Replayable("har", File.items[l])' <=> Replayable("har", File.items[l])
         /\ \A l : Wanted(Request(File.owner, File.items[l]))'
                     <=> Wanted(Request(File.owner, File.items[l]))
<1>1. \A l : Replayable("har", File.items[l])' <=> Replayable("har", File.items[l])
  BY DEF Replayable
<1>2. \A l : First(File, l)' <=> First(File, l)
  BY <1>1 DEF First
<1>3. ASSUME NEW l
      PROVE  Wanted(Request(File.owner, File.items[l]))' <=> Wanted(Request(File.owner, File.items[l]))
  <2>1. Request(File.owner, File.items[l])' = Request(File.owner, File.items[l])
    BY DEF Request
  <2> QED  BY <2>1 DEF Wanted, Tagged
<1> QED
  BY <1>1, <1>2, <1>3

(* The same of the request of an item of the file, which stays the file.   *)
LEMMA ItemStaysCovered ==
  ASSUME File' = File, \A r : Covered(r) => Covered(r)',
         NEW l, Covered(Request(File.owner, File.items[l]))
  PROVE  Covered(Request(File.owner, File.items[l]))'
<1>1. PICK r : r = Request(File.owner, File.items[l])
  OBVIOUS
<1>2. Covered(r)'
  BY <1>1
<1> QED
  BY <1>1, <1>2 DEF Covered, Fingerprint, Request

(* What is said of the reading stays as long as nothing is read.           *)
LEMMA NothingRead ==
  ASSUME IntakeInv, UNCHANGED <<observed, given, at, todo, kept>>
  PROVE  OwnersAttributed' /\ LeftIsInFile' /\ FirstsKept' /\ NoneLost'
<1>1. OwnersAttributed'
  BY CapturesStay DEF IntakeInv, OwnersAttributed
<1>2. LeftIsInFile'
  BY DEF IntakeInv, LeftIsInFile, File
<1>3. FirstsKept'
  <2>1. File' = File
    BY DEF File
  <2>2. \A r : Covered(r)' <=> Covered(r)
    BY DEF Covered, Fingerprint, Wanted, Tagged
  <2>3. FirstsKept
    BY DEF IntakeInv
  <2>4. \A l : Covered(Request(File.owner, File.items[l])) => Covered(Request(File.owner, File.items[l]))'
    BY <2>1, <2>2, ItemStaysCovered
  <2> QED  BY <2>1, <2>3, <2>4, FileStays DEF FirstsKept
<1>4. NoneLost'
  <2>1. /\ \A r : Covered(r)' <=> Covered(r)
        /\ FromConfig' = FromConfig
    BY DEF Covered, Fingerprint, Wanted, Tagged, FromConfig
  <2>2. \A r : Ahead(r)' <=> Ahead(r)
    BY DEF Ahead, File, Replayable, Request
  <2> QED
    BY <2>1, <2>2, ContentsStay DEF IntakeInv, NoneLost
<1> QED
  BY <1>1, <1>2, <1>3, <1>4

(* The run ends, or goes on to the matrix.                                 *)
LEMMA EndKeeps ==
  ASSUME IntakeInv, stage = "reading", NEW place \in {"building", "refused", "broken"},
         place = "building" => todo = <<>> /\ at = Len(given.inputs), End(place)
  PROVE  IntakeInv'
<1>1. stage' = place /\ UNCHANGED <<observed, row, col, seen, tasks, given, at, todo, kept>>
  BY DEF End, matrixVars
<1>2. IntakeTypeOK'
  BY <1>1 DEF IntakeInv, IntakeTypeOK, WellFormed, File
<1>3. MatrixInv'
  BY <1>1, StepPreserves DEF matrixVars, IntakeInv
<1> QED
  BY <1>1, <1>2, <1>3, NothingRead DEF IntakeInv

(* The loops of build_matrix run, or nothing happens.                      *)
LEMMA BuildKeeps ==
  ASSUME IntakeInv, [MatrixNext]_matrixVars, UNCHANGED intakeVars,
         stage # "building" => UNCHANGED matrixVars
  PROVE  IntakeInv'
<1>1. UNCHANGED <<stage, given, at, todo, kept>>
  BY DEF intakeVars
<1>2. UNCHANGED observed
  BY DEF MatrixNext, NextRow, OwnCell, SeenCell, NewCell, NextColumn, matrixVars
<1>3. MatrixInv'
  BY StepPreserves DEF IntakeInv
<1>4. IntakeTypeOK'
  BY <1>1 DEF IntakeInv, IntakeTypeOK, WellFormed, File, matrixVars
<1> QED
  BY <1>1, <1>2, <1>3, <1>4, NothingRead DEF IntakeInv

(* A file is opened: all that it holds is ahead.                           *)
LEMMA OpenKeeps ==
  ASSUME IntakeInv, OpenFile
  PROVE  IntakeInv'
<1> DEFINE f == given.inputs[at + 1]
<1>1. /\ stage = "reading" /\ todo = <<>> /\ at < Len(given.inputs) /\ f.owner \in Configured
      /\ at' = at + 1 /\ todo' = f.items /\ kept' = {}
      /\ UNCHANGED <<observed, row, col, seen, tasks, stage, given>>
  BY DEF OpenFile, AtOption, Option, matrixVars
<1>2. IntakeTypeOK
  BY DEF IntakeInv
<1>3. /\ at \in Nat /\ Len(given.inputs) \in Nat /\ at + 1 \in 1..Len(given.inputs)
      /\ f.items \in Seq(Items) /\ Len(f.items) \in Nat
      /\ \A n \in 1..Len(f.items) : f.items[n] \in Items
  BY <1>1, <1>2, InputTypes
<1>4. File' = f
  BY <1>1 DEF File
<1> HIDE DEF f
<1>5. IntakeTypeOK'
  <2>1. WellFormed(given)'
    BY <1>1, <1>2 DEF IntakeTypeOK, WellFormed
  <2> QED  BY <1>1, <1>2, <1>3, <1>4, <2>1 DEF IntakeTypeOK, Configured
<1>6. MatrixInv'
  BY <1>1, StepPreserves DEF matrixVars, IntakeInv
<1>7. OwnersAttributed'
  BY <1>1, CapturesStay DEF IntakeInv, OwnersAttributed
<1>8. LeftIsInFile'
  BY <1>1, <1>4 DEF LeftIsInFile
<1>9. FirstsKept'
  BY <1>1, <1>3, <1>4 DEF FirstsKept
<1>10. NoneLost'
  <2>1. /\ \A r : Covered(r)' <=> Covered(r)
        /\ FromConfig' = FromConfig
    BY <1>1 DEF Covered, Fingerprint, Wanted, Tagged, FromConfig
  <2>2. \A r : ~Ahead(r)
    BY <1>1 DEF Ahead
  <2>3. ASSUME NEW n \in 1..Len(f.items), NEW r \in InFile(f, n) PROVE Ahead(r)'
    <3>1. PICK i \in leaves[f.items[n]] : Replayable(f.format, i) /\ r = Request(f.owner, i)
      BY <2>3 DEF InFile
    <3>2. \E j \in leaves[todo'[n]] : Replayable(File'.format, j) /\ r = Request(File'.owner, j)
      BY <1>1, <1>4, <3>1
    <3> QED  BY <1>1, <3>2 DEF Ahead, Replayable, Request
  <2>4. 1..at' = (1..at) \cup {at + 1}
    BY <1>1, <1>3
  <2>5. \A k \in 1..at : \A n \in 1..Len(given.inputs[k].items) :
          \/ \E l \in 1..Len(given.inputs[k].items) : Hides(given.inputs[k], l, n)
          \/ \A r \in InFile(given.inputs[k], n) : Wanted(r) => Covered(r)
    BY <2>2 DEF IntakeInv, NoneLost
  <2>6. \A k \in 1..at' : \A n \in 1..Len(given.inputs[k].items) :
          \/ \E l \in 1..Len(given.inputs[k].items) : Hides(given.inputs[k], l, n)
          \/ \A r \in InFile(given.inputs[k], n) : Wanted(r) => Covered(r) \/ (k = at' /\ Ahead(r)')
    <3> SUFFICES ASSUME NEW k \in 1..at', NEW n \in 1..Len(given.inputs[k].items),
                        \A l \in 1..Len(given.inputs[k].items) : ~Hides(given.inputs[k], l, n),
                        NEW r \in InFile(given.inputs[k], n), Wanted(r)
                 PROVE  Covered(r) \/ (k = at' /\ Ahead(r)')
      OBVIOUS
    <3>1. CASE k \in 1..at
      BY <2>5, <3>1
    <3>2. CASE k = at + 1
      <4>1. n \in 1..Len(f.items) /\ r \in InFile(f, n)
        BY <3>2 DEF f
      <4> QED  BY <1>1, <2>3, <3>2, <4>1
    <3> QED  BY <2>4, <3>1, <3>2
  <2>7. \A r \in FromConfig : Wanted(r) => Covered(r)
    BY DEF IntakeInv, NoneLost
  <2> QED
    BY <1>1, <2>1, <2>6, <2>7, ContentsStay DEF NoneLost
<1> QED
  BY <1>5, <1>6, <1>7, <1>8, <1>9, <1>10 DEF IntakeInv

(* A step within a file loses nothing if it covers what is no longer       *)
(* ahead.                                                                  *)
LEMMA StillNoneLost ==
  ASSUME NoneLost, UNCHANGED <<given, at>>, \A r : Covered(r) => Covered(r)',
         \A n \in 1..Len(File.items) :
           \/ \E l \in 1..Len(File.items) : Hides(File, l, n)
           \/ \A r \in InFile(File, n) : Wanted(r) /\ Ahead(r) => Covered(r)' \/ Ahead(r)'
  PROVE  NoneLost'
<1>1. \A r \in FromConfig' : Wanted(r) => Covered(r)'
  BY CapturesStay DEF NoneLost
<1>2. \A k \in 1..at : \A n \in 1..Len(given.inputs[k].items) :
        \/ \E l \in 1..Len(given.inputs[k].items) : Hides(given.inputs[k], l, n)
        \/ \A r \in InFile(given.inputs[k], n) :
             Wanted(r) => Covered(r)' \/ (k = at /\ Ahead(r)')
  BY DEF NoneLost, File
<1> QED
  BY <1>1, <1>2, ContentsStay DEF NoneLost

(* The elements of a concatenation, by where they come from.               *)
LEMMA ConcatParts ==
  ASSUME NEW S, NEW a \in Seq(S), NEW b \in Seq(S)
  PROVE  /\ a \o b \in Seq(S)
         /\ \A l \in 1..Len(a) : l \in 1..Len(a \o b) /\ (a \o b)[l] = a[l]
         /\ \A l \in 1..Len(b) : Len(a) + l \in 1..Len(a \o b) /\ (a \o b)[Len(a) + l] = b[l]
         /\ \A l \in 1..Len(a \o b) : l \in 1..Len(a) \/ \E m \in 1..Len(b) : l = Len(a) + m
<1> DEFINE c == a \o b
<1>1. PICK m \in Nat : Len(a) = m
  OBVIOUS
<1>2. PICK n \in Nat : Len(b) = n
  OBVIOUS
<1>3. /\ c \in Seq(S) /\ Len(c) = m + n
      /\ \A l \in 1..(m + n) : c[l] = IF l <= m THEN a[l] ELSE b[l - m]
  BY <1>1, <1>2, ConcatProperties
<1> HIDE DEF c
<1>4. \A l \in 1..n : m + l \in 1..(m + n) /\ m + l > m /\ m + l - m = l
  OBVIOUS
<1>5. ASSUME NEW l \in 1..n PROVE c[m + l] = b[l]
  BY <1>3, <1>4
<1>6. \A l \in 1..m : l \in 1..(m + n) /\ c[l] = a[l]
  <2>1. \A l \in 1..m : l \in 1..(m + n) /\ l <= m
    OBVIOUS
  <2> QED  BY <1>3, <2>1
<1>7. ASSUME NEW l \in 1..(m + n), l \notin 1..m PROVE \E k \in 1..n : l = m + k
  <2>1. l - m \in 1..n /\ l = m + (l - m)
    BY <1>7
  <2> QED  BY <2>1
<1>8. /\ \A l \in 1..m : l \in 1..(m + n) /\ c[l] = a[l]
      /\ \A l \in 1..n : m + l \in 1..(m + n) /\ c[m + l] = b[l]
      /\ \A l \in 1..(m + n) : l \in 1..m \/ \E k \in 1..n : l = m + k
  BY <1>4, <1>5, <1>6, <1>7
<1>9. /\ \A l \in 1..Len(a) : l \in 1..Len(c) /\ c[l] = a[l]
      /\ \A l \in 1..Len(b) : Len(a) + l \in 1..Len(c) /\ c[Len(a) + l] = b[l]
      /\ \A l \in 1..Len(c) : l \in 1..Len(a) \/ \E k \in 1..Len(b) : l = Len(a) + k
  <2>1. Len(a) = m /\ Len(b) = n /\ Len(c) = m + n
    BY <1>1, <1>2, <1>3
  <2> QED  BY <1>8, <2>1
<1> QED
  BY <1>3, <1>9 DEF c

(* _walk goes into a folder: what it stands for is ahead as before.        *)
LEMMA FolderKeeps ==
  ASSUME IntakeInv, EnterFolder
  PROVE  IntakeInv'
<1> DEFINE h == Head(todo)
           t == Tail(todo)
<1>1. /\ stage = "reading" /\ todo # <<>> /\ AtItem /\ h.kind = "folder"
      /\ todo' = h.items \o t
      /\ UNCHANGED <<observed, row, col, seen, tasks, stage, given, at, kept>>
  BY DEF EnterFolder, AtItem, matrixVars
<1>2. IntakeTypeOK
  BY DEF IntakeInv
<1>3. /\ h = todo[1] /\ h \in Items /\ 1 \in 1..Len(todo)
      /\ Len(todo) \in Nat /\ Len(todo) >= 1
      /\ t \in Seq(Items) /\ Len(t) = Len(todo) - 1
      /\ \A l \in 1..(Len(todo) - 1) : t[l] = todo[l + 1]
      /\ at > 0 /\ at \in 1..Len(given.inputs)
  BY <1>1, <1>2, TodoParts
<1>4. h.items \in Seq(Items) /\ Len(h.items) \in Nat
  BY <1>1, <1>3, IntakeAssumption
<1> HIDE DEF h, t
<1>5. /\ todo' \in Seq(Items)
      /\ \A l \in 1..Len(h.items) : l \in 1..Len(todo') /\ todo'[l] = h.items[l]
      /\ \A l \in 1..Len(t) : Len(h.items) + l \in 1..Len(todo') /\ todo'[Len(h.items) + l] = t[l]
      /\ \A l \in 1..Len(todo') : \/ l \in 1..Len(h.items)
                                \/ \E m \in 1..Len(t) : l = Len(h.items) + m
  <2> DEFINE a == h.items
  <2>1. a \in Seq(Items) /\ t \in Seq(Items) /\ todo' = a \o t
    BY <1>1, <1>3, <1>4
  <2> HIDE DEF a
  <2>2. a \o t \in Seq(Items)
    BY <2>1, ConcatParts
  <2>3. \A l \in 1..Len(a) : l \in 1..Len(a \o t) /\ (a \o t)[l] = a[l]
    BY <2>1, ConcatParts
  <2>4. \A l \in 1..Len(t) : Len(a) + l \in 1..Len(a \o t) /\ (a \o t)[Len(a) + l] = t[l]
    BY <2>1, ConcatParts
  <2>5. \A l \in 1..Len(a \o t) : l \in 1..Len(a) \/ \E m \in 1..Len(t) : l = Len(a) + m
    BY <2>1, ConcatParts
  <2> QED  BY <2>1, <2>2, <2>3, <2>4, <2>5 DEF a
<1>6. \A l \in 1..Len(todo') : \/ l \in 1..Len(h.items) /\ todo'[l] = h.items[l]
                               \/ \E m \in 1..Len(todo) : todo'[l] = todo[m]
  <2>1. \A m \in 1..Len(t) : m + 1 \in 1..Len(todo) /\ t[m] = todo[m + 1]
    BY <1>3
  <2>2. ASSUME NEW m \in 1..Len(t) PROVE \E k \in 1..Len(todo) : todo'[Len(h.items) + m] = todo[k]
    BY <1>5, <2>1
  <2>3. ASSUME NEW l \in 1..Len(h.items) PROVE todo'[l] = h.items[l]
    BY <1>5
  <2>4. ASSUME NEW l \in 1..Len(todo')
        PROVE  \/ l \in 1..Len(h.items) /\ todo'[l] = h.items[l]
               \/ \E m \in 1..Len(todo) : todo'[l] = todo[m]
    <3>1. CASE l \in 1..Len(h.items)
      BY <2>3, <3>1
    <3>2. CASE \E m \in 1..Len(t) : l = Len(h.items) + m
      BY <2>2, <3>2
    <3> QED  BY <1>5, <3>1, <3>2
  <2> QED  BY <2>4
<1>7. \A m \in 1..Len(todo) : m # 1 => \E l \in 1..Len(todo') : todo'[l] = todo[m]
  <2> SUFFICES ASSUME NEW m \in 1..Len(todo), m # 1
               PROVE  \E l \in 1..Len(todo') : todo'[l] = todo[m]
    OBVIOUS
  <2>1. m - 1 \in 1..Len(t) /\ t[m - 1] = todo[m]
    BY <1>3
  <2>2. /\ Len(h.items) + (m - 1) \in 1..Len(todo')
        /\ todo'[Len(h.items) + (m - 1)] = t[m - 1]
    BY <1>5, <2>1
  <2> QED  BY <2>1, <2>2
<1>8. /\ \A l \in 1..Len(h.items) : leaves[h.items[l]] \subseteq leaves[h]
      /\ \A j \in leaves[h] : \E l \in 1..Len(h.items) : j \in leaves[h.items[l]]
  BY <1>1, <1>3, FolderIsItsItems
<1>9. IntakeTypeOK'
  BY <1>1, <1>2, <1>3, <1>5 DEF IntakeTypeOK, WellFormed, File
<1>10. MatrixInv'
  BY <1>1, StepPreserves DEF matrixVars, IntakeInv
<1>11. OwnersAttributed'
  BY <1>1, CapturesStay DEF IntakeInv, OwnersAttributed
<1>12. LeftIsInFile'
  <2>1. \A m \in 1..Len(todo) : \E n \in 1..Len(File.items) : leaves[todo[m]] \subseteq leaves[File.items[n]]
    BY DEF IntakeInv, LeftIsInFile
  <2>2. \A l \in 1..Len(todo') : \E m \in 1..Len(todo) : leaves[todo'[l]] \subseteq leaves[todo[m]]
    <3> SUFFICES ASSUME NEW l \in 1..Len(todo')
                 PROVE  \E m \in 1..Len(todo) : leaves[todo'[l]] \subseteq leaves[todo[m]]
      OBVIOUS
    <3>1. CASE l \in 1..Len(h.items) /\ todo'[l] = h.items[l]
      BY <1>3, <1>8, <3>1
    <3>2. CASE \E m \in 1..Len(todo) : todo'[l] = todo[m]
      BY <3>2
    <3> QED  BY <1>6, <3>1, <3>2
  <2>3. \A l \in 1..Len(todo') : \E n \in 1..Len(File.items) : leaves[todo'[l]] \subseteq leaves[File.items[n]]
    BY <2>1, <2>2
  <2> QED  BY <1>1, <2>3 DEF LeftIsInFile, File
<1>13. FirstsKept'
  <2>1. File.format # "har"
    <3> SUFFICES ASSUME File.format = "har" PROVE FALSE
      OBVIOUS
    <3>1. Len(File.items) - Len(todo) \in Nat /\ todo[1] = File.items[Len(File.items) - Len(todo) + 1]
      BY <1>3 DEF IntakeInv, FirstsKept
    <3>2. /\ Len(File.items) \in Nat
          /\ \A n \in 1..Len(File.items) : File.items[n].kind # "folder"
      BY <1>2, <1>3, InputTypes DEF File
    <3>3. Len(File.items) - Len(todo) + 1 \in 1..Len(File.items)
      BY <1>3, <3>1, <3>2
    <3> QED  BY <1>1, <1>3, <3>1, <3>2, <3>3
  <2> QED  BY <1>1, <2>1 DEF FirstsKept, File
<1>14. \A r : Covered(r) => Covered(r)'
  BY <1>1 DEF Covered, Fingerprint, Wanted, Tagged
<1>15. ASSUME NEW r, Ahead(r) PROVE Ahead(r)'
  <2>1. PICK m \in 1..Len(todo) : \E i \in leaves[todo[m]] :
          Replayable(File.format, i) /\ r = Request(File.owner, i)
    BY <1>15 DEF Ahead
  <2>2. PICK i \in leaves[todo[m]] : Replayable(File.format, i) /\ r = Request(File.owner, i)
    BY <2>1
  <2>3. \E l \in 1..Len(todo') : i \in leaves[todo'[l]]
    <3>1. CASE m = 1
      <4>1. PICK l \in 1..Len(h.items) : i \in leaves[h.items[l]]
        BY <1>3, <1>8, <2>2, <3>1
      <4>2. l \in 1..Len(todo') /\ todo'[l] = h.items[l]
        BY <1>5
      <4> QED  BY <4>1, <4>2
    <3>2. CASE m # 1
      BY <1>7, <2>2, <3>2
    <3> QED  BY <3>1, <3>2
  <2>4. File' = File
    BY <1>1 DEF File
  <2> QED  BY <2>2, <2>3, <2>4 DEF Ahead, Replayable, Request
<1>16. NoneLost'
  BY <1>1, <1>14, <1>15, StillNoneLost DEF IntakeInv
<1> QED
  BY <1>9, <1>10, <1>11, <1>12, <1>13, <1>16 DEF IntakeInv

(* An item is done with: what else was ahead is ahead, and what was left   *)
(* is in the file.                                                         *)
LEMMA NextItem ==
  ASSUME IntakeInv, AtItem, Head(todo).kind # "folder",
         todo' = Tail(todo), UNCHANGED <<given, at, stage>>,
         stage' = "reading", UNCHANGED <<row, col, seen, tasks>>
  PROVE  /\ IntakeTypeOK'
         /\ LeftIsInFile'
         /\ \A r : Ahead(r) => \/ Ahead(r)'
                               \/ /\ Replayable(File.format, Head(todo))
                                  /\ r = Request(File.owner, Head(todo))
<1> DEFINE h == Head(todo)
           t == Tail(todo)
<1>1. IntakeTypeOK /\ File' = File
  BY DEF IntakeInv, File
<1>2. /\ h = todo[1] /\ h \in Items /\ Len(todo) \in Nat
      /\ t \in Seq(Items) /\ Len(t) = Len(todo) - 1
      /\ \A l \in 1..(Len(todo) - 1) : t[l] = todo[l + 1]
      /\ at > 0
  BY <1>1, TodoParts
<1>3. leaves[h] = {h}
  BY <1>2, LeafIsItself
<1>4. IntakeTypeOK'
  BY <1>1, <1>2 DEF IntakeTypeOK, WellFormed
<1> HIDE DEF h, t
<1>5. todo' = t
  BY DEF t
<1>6. LeftIsInFile'
  <2>1. \A m \in 1..Len(todo) : \E n \in 1..Len(File.items) : leaves[todo[m]] \subseteq leaves[File.items[n]]
    BY DEF IntakeInv, LeftIsInFile
  <2>2. \A l \in 1..Len(t) : l + 1 \in 1..Len(todo) /\ t[l] = todo[l + 1]
    BY <1>2
  <2>3. \A l \in 1..Len(t) : \E n \in 1..Len(File.items) : leaves[t[l]] \subseteq leaves[File.items[n]]
    BY <2>1, <2>2
  <2> QED  BY <1>1, <1>5, <2>3 DEF LeftIsInFile
<1>7. ASSUME NEW r, Ahead(r)
      PROVE  Ahead(r)' \/ (Replayable(File.format, h) /\ r = Request(File.owner, h))
  <2>1. PICK m \in 1..Len(todo) : \E i \in leaves[todo[m]] :
          Replayable(File.format, i) /\ r = Request(File.owner, i)
    BY <1>7 DEF Ahead
  <2>2. CASE m = 1
    BY <1>2, <1>3, <2>1, <2>2
  <2>3. CASE m # 1
    <3>1. m - 1 \in 1..Len(t) /\ t[m - 1] = todo[m]
      BY <1>2, <2>3
    <3>2. \E l \in 1..Len(todo') : \E i \in leaves[todo'[l]] :
            Replayable(File'.format, i) /\ r = Request(File'.owner, i)
      BY <1>1, <1>5, <2>1, <3>1
    <3> QED  BY <3>2 DEF Ahead, Replayable, Request
  <2> QED  BY <2>2, <2>3
<1> QED
  BY <1>4, <1>6, <1>7 DEF h

(* An item of a HAR file is at its place in the file.                      *)
LEMMA HarItem ==
  ASSUME IntakeInv, AtItem, File.format = "har"
  PROVE  LET past == Len(File.items) - Len(todo)
         IN  /\ past \in Nat /\ past + 1 \in 1..Len(File.items)
             /\ File.items[past + 1] = Head(todo)
             /\ Len(File.items) - Len(Tail(todo)) = past + 1
             /\ \A l \in 1..Len(Tail(todo)) : Tail(todo)[l] = File.items[past + 1 + l]
<1>1. /\ Head(todo) = todo[1] /\ Len(todo) \in Nat /\ Len(todo) >= 1
      /\ Len(Tail(todo)) = Len(todo) - 1
      /\ \A l \in 1..(Len(todo) - 1) : Tail(todo)[l] = todo[l + 1]
      /\ at > 0 /\ at \in 1..Len(given.inputs)
  BY TodoParts DEF IntakeInv
<1>2. Len(File.items) \in Nat
  BY <1>1, InputTypes DEF IntakeInv, File
<1>3. PICK past \in Nat : past = Len(File.items) - Len(todo)
  BY <1>1 DEF IntakeInv, FirstsKept
<1>4. \A l \in 1..Len(todo) : todo[l] = File.items[past + l]
  BY <1>1, <1>3 DEF IntakeInv, FirstsKept
<1>5. past + 1 \in 1..Len(File.items) /\ Len(File.items) - Len(Tail(todo)) = past + 1
  <2>1. PICK p \in Nat : Len(File.items) = p
    BY <1>2
  <2>2. PICK q \in Nat : Len(todo) = q
    BY <1>1
  <2>3. past + 1 \in 1..p /\ p - (q - 1) = past + 1
    BY <1>1, <1>3, <2>1, <2>2
  <2> QED  BY <1>1, <2>1, <2>2, <2>3
<1>6. File.items[past + 1] = Head(todo)
  BY <1>1, <1>4
<1>7. ASSUME NEW l \in 1..Len(Tail(todo)) PROVE Tail(todo)[l] = File.items[past + 1 + l]
  <2>1. l + 1 \in 1..Len(todo) /\ Tail(todo)[l] = todo[l + 1]
    BY <1>1
  <2>2. past + (l + 1) = past + 1 + l
    OBVIOUS
  <2> QED  BY <1>4, <2>1, <2>2
<1> QED
  BY <1>3, <1>5, <1>6, <1>7

(* An item is passed over: it makes no request, or har.parse has kept one  *)
(* with its fingerprint.  The first such either is as good, or hides it.   *)
LEMMA SkipKeeps ==
  ASSUME IntakeInv, SkipItem
  PROVE  IntakeInv'
<1> DEFINE h == Head(todo)
<1>1. /\ stage = "reading" /\ AtItem /\ h.kind # "folder"
      /\ ~Replayable(File.format, h) \/ (File.format = "har" /\ h.target \in kept)
      /\ todo' = Tail(todo)
      /\ UNCHANGED <<observed, row, col, seen, tasks, stage, given, at, kept>>
  BY DEF SkipItem, AtItem, matrixVars
<1>2. IntakeTypeOK
  BY DEF IntakeInv
<1>3. File' = File
  BY <1>1 DEF File
<1>4. /\ IntakeTypeOK' /\ LeftIsInFile'
      /\ \A r : Ahead(r) => Ahead(r)' \/ (Replayable(File.format, h) /\ r = Request(File.owner, h))
  BY <1>1, NextItem
<1>5. MatrixInv'
  BY <1>1, StepPreserves DEF matrixVars, IntakeInv
<1>6. OwnersAttributed'
  BY <1>1, CapturesStay DEF IntakeInv, OwnersAttributed
<1>7. \A r : Covered(r)' <=> Covered(r)
  BY <1>1 DEF Covered, Fingerprint, Wanted, Tagged
<1>8. at > 0 /\ at \in 1..Len(given.inputs)
  BY <1>1, <1>2, TodoParts
<1> HIDE DEF h
<1>9. FirstsKept'
  <2> SUFFICES ASSUME File.format = "har" PROVE FirstsKept'
    BY <1>3 DEF FirstsKept
  <2>1. PICK past \in Nat : past = Len(File.items) - Len(todo)
    BY <1>1, HarItem
  <2>2. /\ Len(File.items) - Len(todo') = past + 1
        /\ \A l \in 1..Len(todo') : todo'[l] = File.items[past + 1 + l]
        /\ File.items[past + 1] = h
    BY <1>1, <2>1, HarItem DEF h
  <2>3. /\ \A l \in 1..past : Replayable("har", File.items[l]) => File.items[l].target \in kept
        /\ \A t \in kept : \E l \in 1..past :
             /\ First(File, l)
             /\ File.items[l].target = t
             /\ Wanted(Request(File.owner, File.items[l])) => Covered(Request(File.owner, File.items[l]))
    BY <1>8, <2>1 DEF IntakeInv, FirstsKept
  <2>4. /\ 1..(past + 1) = (1..past) \cup {past + 1} /\ past + 1 \in Nat
    OBVIOUS
  <2>5. \A l \in 1..(past + 1) : Replayable("har", File.items[l]) => File.items[l].target \in kept
    BY <1>1, <2>2, <2>3, <2>4
  <2>6. \A t \in kept : \E l \in 1..(past + 1) :
          /\ First(File, l)
          /\ File.items[l].target = t
          /\ Wanted(Request(File.owner, File.items[l])) => Covered(Request(File.owner, File.items[l]))'
    BY <1>3, <1>7, <2>3, <2>4, ItemStaysCovered
  <2>10. /\ (Len(File.items) - Len(todo))' = past + 1
         /\ \A l \in 1..Len(todo') : todo'[l] = File'.items[past + 1 + l]
    BY <1>3, <2>2
  <2>11. \A l \in 1..(past + 1) : Replayable("har", File.items[l])' => File'.items[l].target \in kept'
    BY <1>1, <1>3, <2>5, FileStays
  <2>12. \A t \in kept' : \E l \in 1..(past + 1) :
           /\ First(File, l)'
           /\ File'.items[l].target = t
           /\ Wanted(Request(File.owner, File.items[l]))'
                => Covered(Request(File.owner, File.items[l]))'
    BY <1>1, <1>3, <2>6, FileStays
  <2> QED  BY <2>4, <2>10, <2>11, <2>12 DEF FirstsKept
<1>10. ASSUME NEW n \in 1..Len(File.items), \A l \in 1..Len(File.items) : ~Hides(File, l, n),
              NEW r \in InFile(File, n), Wanted(r), Ahead(r)
       PROVE  Covered(r) \/ Ahead(r)'
  <2> SUFFICES ASSUME Replayable(File.format, h), r = Request(File.owner, h) PROVE Covered(r)
    BY <1>4, <1>10
  <2>1. File.format = "har" /\ h.target \in kept
    BY <1>1
  <2>2. PICK past \in Nat : past = Len(File.items) - Len(todo)
    BY <1>1, <2>1, HarItem
  <2>3. PICK l \in 1..past :
          /\ First(File, l)
          /\ File.items[l].target = h.target
          /\ Wanted(Request(File.owner, File.items[l])) => Covered(Request(File.owner, File.items[l]))
    BY <1>8, <2>1, <2>2 DEF IntakeInv, FirstsKept
  <2>4. /\ Len(File.items) \in Nat
        /\ File.items[n] \in Items /\ File.items[n].kind # "folder"
    BY <1>2, <1>8, <1>10, <2>1, InputTypes DEF File
  <2>5. past + 1 \in 1..Len(File.items)
    BY <1>1, <2>1, <2>2, HarItem
  <2>6. l \in 1..Len(File.items)
    BY <2>4, <2>5
  <2>7. Replayable("har", File.items[n]) /\ r = Request(File.owner, File.items[n])
    BY <1>10, <2>1, <2>4, LeafIsItself DEF InFile
  <2>8. r.owner = File.owner /\ r.target = h.target /\ File.items[n].target = h.target
    BY <2>7 DEF Request
  <2>9. CASE Wanted(Request(File.owner, File.items[l]))
    <3>1. Covered(Request(File.owner, File.items[l]))
      BY <2>3, <2>9
    <3> QED  BY <2>3, <2>8, <3>1 DEF Covered, Fingerprint, Request
  <2>10. CASE ~Wanted(Request(File.owner, File.items[l]))
    <3>1. n # l
      BY <1>10, <2>7, <2>10
    <3>2. ~(l < n)
      BY <1>10, <2>1, <2>3, <2>6, <2>7, <2>8, <2>10 DEF Hides, First
    <3>3. n \in 1..(l - 1)
      BY <2>4, <2>6, <3>1, <3>2
    <3> QED  BY <2>3, <2>7, <2>8, <3>3 DEF First
  <2> QED  BY <2>9, <2>10
<1>11. NoneLost'
  BY <1>1, <1>7, <1>10, StillNoneLost DEF IntakeInv
<1> QED
  BY <1>4, <1>5, <1>6, <1>9, <1>11 DEF IntakeInv

(* An item becomes a request: it is covered by itself, and in a HAR file   *)
(* it is the first of its fingerprint.                                     *)
LEMMA KeepKeeps ==
  ASSUME IntakeInv, KeepItem
  PROVE  IntakeInv'
<1> DEFINE h == Head(todo)
           q == Request(File.owner, h)
<1>1. /\ stage = "reading" /\ AtItem /\ h.kind = "request" /\ Replayable(File.format, h)
      /\ File.format = "har" => h.target \notin kept
      /\ observed' = Append(observed, q)
      /\ kept' = IF File.format = "har" THEN kept \cup {h.target} ELSE kept
      /\ todo' = Tail(todo)
      /\ UNCHANGED <<row, col, seen, tasks, stage, given, at>>
  BY DEF KeepItem, AtItem, Owner, Replayable
<1>2. IntakeTypeOK /\ MatrixInv
  BY DEF IntakeInv
<1>3. File' = File
  BY <1>1 DEF File
<1>4. /\ h = todo[1] /\ h \in Items /\ 1 \in 1..Len(todo)
      /\ at > 0 /\ at \in 1..Len(given.inputs) /\ File.owner \in Configured
  BY <1>1, <1>2, TodoParts
<1>5. q \in Observable
  BY <1>1, <1>4, IntakeAssumption DEF Replayable
<1>6. /\ IntakeTypeOK' /\ LeftIsInFile'
      /\ \A r : Ahead(r) => Ahead(r)' \/ (Replayable(File.format, h) /\ r = q)
  BY <1>1, NextItem
<1> HIDE DEF h, q
<1>7. /\ observed' \in Seq(Observable) /\ Len(observed) \in Nat
      /\ Len(observed') = Len(observed) + 1 /\ observed'[Len(observed) + 1] = q
      /\ \A m \in 1..Len(observed) : observed'[m] = observed[m]
      /\ \A r : Covered(r) => Covered(r)'
  BY <1>1, <1>2, <1>5, ListedStays DEF MatrixInv
<1>8. \A m \in 1..Len(observed') : m \in 1..Len(observed) \/ m = Len(observed) + 1
  BY <1>7
<1>9. MatrixInv'
  <2>1. row = 1 /\ col = 1 /\ seen = {} /\ tasks = <<>>
    BY <1>1, <1>2 DEF IntakeTypeOK
  <2>2. row' = 1 /\ col' = 1 /\ seen' = {} /\ tasks' = <<>>
    BY <1>1, <2>1
  <2>3. MatrixTypeOK'
    BY <1>7, <2>2, ColumnsAreActors, ConstantsStay DEF MatrixTypeOK
  <2>4. EachCellOnce'
    BY <2>2 DEF EachCellOnce
  <2>5. FirstCaptureReplayed'
    BY <2>2 DEF FirstCaptureReplayed
  <2>6. NoCellMissed'
    BY <1>7, <2>2, ColumnsAreActors, ConstantsStay DEF NoCellMissed, Visited
  <2> QED  BY <2>3, <2>4, <2>5, <2>6 DEF MatrixInv
<1>10. OwnersAttributed'
  <2>1. PICK n \in 1..Len(File.items) : leaves[h] \subseteq leaves[File.items[n]]
    BY <1>4 DEF IntakeInv, LeftIsInFile
  <2>2. h \in leaves[File.items[n]]
    BY <1>1, <1>4, <2>1, LeafIsItself
  <2>3. q \in InFile(File, n)
    BY <1>1, <2>2 DEF InFile, q
  <2>4. n \in DOMAIN File.items /\ at \in DOMAIN given.inputs
    BY <1>2, <1>4, InputTypes DEF File
  <2>5. q \in Capture
    BY <2>3, <2>4 DEF Capture, File
  <2>6. \A m \in 1..Len(observed') : observed'[m] \in FromConfig \cup Capture
    BY <1>7, <1>8, <2>5 DEF IntakeInv, OwnersAttributed
  <2> QED  BY <1>1, <2>6, CapturesStay DEF OwnersAttributed
<1>11. ASSUME NEW r, r = q, Wanted(r) PROVE Covered(r)'
  <2>1. Len(observed) + 1 \in 1..Len(observed')
    BY <1>7
  <2> QED  BY <1>7, <1>11, <2>1 DEF Covered, Fingerprint, Wanted, Tagged
<1>12. FirstsKept'
  <2> SUFFICES ASSUME File.format = "har" PROVE FirstsKept'
    BY <1>3 DEF FirstsKept
  <2>1. PICK past \in Nat : past = Len(File.items) - Len(todo)
    BY <1>1, HarItem
  <2>2. /\ Len(File.items) - Len(todo') = past + 1
        /\ \A l \in 1..Len(todo') : todo'[l] = File.items[past + 1 + l]
        /\ File.items[past + 1] = h
    BY <1>1, <2>1, HarItem DEF h
  <2>3. /\ \A l \in 1..past : Replayable("har", File.items[l]) => File.items[l].target \in kept
        /\ \A t \in kept : \E l \in 1..past :
             /\ First(File, l)
             /\ File.items[l].target = t
             /\ Wanted(Request(File.owner, File.items[l])) => Covered(Request(File.owner, File.items[l]))
    BY <1>4, <2>1 DEF IntakeInv, FirstsKept
  <2>4. /\ 1..(past + 1) = (1..past) \cup {past + 1} /\ past + 1 \in Nat
        /\ 1..((past + 1) - 1) = 1..past
    OBVIOUS
  <2>5. kept' = kept \cup {h.target} /\ h.target \notin kept
    BY <1>1
  <2>6. \A l \in 1..(past + 1) : Replayable("har", File.items[l]) => File.items[l].target \in kept'
    BY <2>2, <2>3, <2>4, <2>5
  <2>7. \A t \in kept : \E l \in 1..(past + 1) :
          /\ First(File, l)
          /\ File.items[l].target = t
          /\ Wanted(Request(File.owner, File.items[l])) => Covered(Request(File.owner, File.items[l]))'
    BY <1>3, <1>7, <2>3, <2>4, ItemStaysCovered
  <2>8. /\ First(File, past + 1)
        /\ Wanted(Request(File.owner, File.items[past + 1]))
             => Covered(Request(File.owner, File.items[past + 1]))'
    <3>1. First(File, past + 1)
      BY <1>1, <2>2, <2>3, <2>4, <2>5 DEF First
    <3>2. PICK r : r = q
      OBVIOUS
    <3>3. r = Request(File.owner, File.items[past + 1])
      BY <2>2, <3>2 DEF q
    <3>4. Wanted(r) => Covered(r)'
      BY <1>11, <3>2
    <3> QED  BY <1>3, <3>1, <3>3, <3>4 DEF Covered, Fingerprint, Request
  <2>9. \A t \in kept' : \E l \in 1..(past + 1) :
          /\ First(File, l)
          /\ File.items[l].target = t
          /\ Wanted(Request(File.owner, File.items[l])) => Covered(Request(File.owner, File.items[l]))'
    BY <2>2, <2>4, <2>5, <2>7, <2>8
  <2>10. /\ (Len(File.items) - Len(todo))' = past + 1
         /\ \A l \in 1..Len(todo') : todo'[l] = File'.items[past + 1 + l]
    BY <1>3, <2>2
  <2>11. \A l \in 1..(past + 1) : Replayable("har", File.items[l])' => File'.items[l].target \in kept'
    BY <1>1, <1>3, <2>6, FileStays
  <2>12. \A t \in kept' : \E l \in 1..(past + 1) :
           /\ First(File, l)'
           /\ File'.items[l].target = t
           /\ Wanted(Request(File.owner, File.items[l]))'
                => Covered(Request(File.owner, File.items[l]))'
    BY <1>1, <1>3, <2>9, FileStays
  <2> QED  BY <2>4, <2>10, <2>11, <2>12 DEF FirstsKept
<1>13. NoneLost'
  BY <1>1, <1>6, <1>7, <1>11, StillNoneLost DEF IntakeInv
<1> QED
  BY <1>6, <1>9, <1>10, <1>12, <1>13 DEF IntakeInv

(* At first nothing was opened, and the list is the configuration's.       *)
LEMMA NothingOpened == Init => IntakeInv
<1> SUFFICES ASSUME Init PROVE IntakeInv
  OBVIOUS
<1>1. /\ WellFormed(given) /\ observed = given.config /\ MatrixInit
      /\ stage \in {"reading", "broken"} /\ at = 0 /\ todo = <<>> /\ kept = {}
  BY IntakeAssumption DEF Init
<1>2. given.inputs \in Seq({given.inputs[n] : n \in DOMAIN given.inputs})
  BY <1>1 DEF WellFormed
<1>3. 0 \in 0..Len(given.inputs)
  BY <1>2
<1>4. todo \in Seq(Items)
  BY <1>1, EmptySeq
<1>5. IntakeTypeOK
  BY <1>1, <1>3, <1>4 DEF IntakeTypeOK, MatrixInit
<1>6. MatrixInv
  BY <1>1, InitEstablishes
<1>7. given.config \in Seq(Observable) /\ DOMAIN given.config = 1..Len(given.config)
  BY <1>1, MatrixAssumption DEF WellFormed
<1>8. OwnersAttributed
  BY <1>1, <1>7 DEF OwnersAttributed, FromConfig
<1>9. LeftIsInFile /\ FirstsKept
  BY <1>1 DEF LeftIsInFile, FirstsKept
<1>10. \A r \in FromConfig : Wanted(r) => Covered(r)
  BY <1>1, <1>7 DEF FromConfig, Covered
<1>11. NoneLost
  BY <1>1, <1>10 DEF NoneLost
<1> QED
  BY <1>5, <1>6, <1>8, <1>9, <1>11 DEF IntakeInv

(* Every step from the options to the matrix keeps the invariant.          *)
LEMMA IntakeStep ==
  ASSUME IntakeInv, [Next]_allVars
  PROVE  IntakeInv'
<1>1. CASE UnknownIdentity \/ Undetected \/ Malformed \/ NothingObserved \/ StartMatrix
  <2>1. /\ stage = "reading"
        /\ \E place \in {"building", "refused", "broken"} :
             End(place) /\ (place = "building" => todo = <<>> /\ at = Len(given.inputs))
    BY <1>1 DEF UnknownIdentity, Undetected, Malformed, NothingObserved, StartMatrix,
                AtOption, AtItem, AllRead
  <2> QED  BY <2>1, EndKeeps
<1>2. CASE OpenFile
  BY <1>2, OpenKeeps
<1>3. CASE EnterFolder
  BY <1>3, FolderKeeps
<1>4. CASE SkipItem
  BY <1>4, SkipKeeps
<1>5. CASE KeepItem
  BY <1>5, KeepKeeps
<1>6. CASE BuildMatrix
  BY <1>6, BuildKeeps DEF BuildMatrix
<1>7. CASE UNCHANGED allVars
  BY <1>7, BuildKeeps DEF allVars
<1> QED
  BY <1>1, <1>2, <1>3, <1>4, <1>5, <1>6, <1>7 DEF Next

(* The invariant of the intake: what was read is in the list, what is left *)
(* is in the file, and nothing else was in it (main.py:108-133, har.py:30- *)
(* 47, postman.py:12-41, matrix.py:27-46).                                 *)
THEOREM IntakeInvariant == Spec => []IntakeInv
<1>1. IntakeInv /\ [Next]_allVars => IntakeInv'
  BY IntakeStep
<1> QED
  BY <1>1, NothingOpened, PTL DEF Spec

(* The loops of build_matrix keep their invariant on any list that the     *)
(* files give (matrix.py:27-46).                                           *)
THEOREM LoopsKeepTheirs == Spec => [](MatrixTypeOK /\ EachCellOnce /\ FirstCaptureReplayed /\ NoCellMissed)
<1>1. IntakeInv => MatrixTypeOK /\ EachCellOnce /\ FirstCaptureReplayed /\ NoCellMissed
  BY DEF IntakeInv, MatrixInv
<1> QED
  BY <1>1, IntakeInvariant, PTL

(* Every request is observed for an identity whose capture holds it        *)
(* (main.py:109-121).                                                      *)
THEOREM OwnersAreKept == Spec => []OwnersAttributed
<1>1. IntakeInv => OwnersAttributed
  BY DEF IntakeInv
<1> QED
  BY <1>1, IntakeInvariant, PTL

(* Every object reference in the configuration and in the files is         *)
(* replayed by every identity but its owner, up to the fingerprint, unless *)
(* an untagged request of its own HAR file hides it: in whatever order the *)
(* files come, and however deep its folder is (har.py:43-47, postman.py:   *)
(* 13-17, main.py:108-121, matrix.py:29-45).                               *)
THEOREM NoReferenceIsLost == Spec => []ReferencesReplayed
<1>1. ASSUME IntakeInv, Done,
             NEW r \in FromConfig \cup Visible, NEW a \in Actors, a # r.owner, Wanted(r)
      PROVE  \E k \in 1..Len(tasks) : TaskKey(k) = Key(r, a)
  <2>1. /\ IntakeTypeOK /\ todo = <<>> /\ at = Len(given.inputs)
        /\ ~(row <= Len(observed)) /\ Len(observed) \in Nat /\ row \in Nat
    BY <1>1, RowIsARequest DEF IntakeInv, IntakeTypeOK, Done, Building, MatrixInv, MatrixTypeOK
  <2>2. Covered(r)
    <3>1. CASE r \in FromConfig
      BY <1>1, <3>1 DEF IntakeInv, NoneLost
    <3>2. CASE r \in Visible
      <4>1. PICK k \in DOMAIN given.inputs :
              \E n \in DOMAIN given.inputs[k].items :
                /\ \A l \in DOMAIN given.inputs[k].items : ~Hides(given.inputs[k], l, n)
                /\ r \in InFile(given.inputs[k], n)
        BY <3>2 DEF Visible
      <4>2. /\ k \in 1..at
            /\ DOMAIN given.inputs[k].items = 1..Len(given.inputs[k].items)
        BY <2>1, <4>1, InputTypes
      <4>3. ~Ahead(r)
        BY <2>1 DEF Ahead
      <4> QED  BY <1>1, <4>1, <4>2, <4>3 DEF IntakeInv, NoneLost
    <3> QED  BY <1>1, <3>1, <3>2
  <2>3. PICK m \in 1..Len(observed) : /\ observed[m].owner = r.owner
                                      /\ Fingerprint(observed[m]) = Fingerprint(r)
                                      /\ Wanted(observed[m])
    BY <2>2 DEF Covered
  <2>4. PICK n \in 1..Len(Columns) : a = Columns[n]
    BY <1>1 DEF Actors
  <2>5. Visited(m, n) /\ Eligible(m, n)
    BY <1>1, <2>1, <2>3, <2>4 DEF Visited, Eligible
  <2>6. PICK k \in 1..Len(tasks) : TaskKey(k) = Key(observed[m], Columns[n])
    BY <1>1, <2>5 DEF IntakeInv, MatrixInv, NoCellMissed
  <2> QED  BY <2>3, <2>4, <2>6 DEF Key
<1>2. IntakeInv => ReferencesReplayed
  BY <1>1 DEF ReferencesReplayed
<1> QED
  BY <1>2, IntakeInvariant, PTL

=============================================================================
