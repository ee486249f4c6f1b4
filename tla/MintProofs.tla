----------------------------- MODULE MintProofs -----------------------------
(***************************************************************************)
(* Theorems about canaries and their keys, for every set of key ids and of *)
(* owners and any number of canaries: that of the invariant, what is read  *)
(* from a text, and from both what is attributed.                          *)
(***************************************************************************)
EXTENDS Mint, FiniteSetTheorems, TLAPS

(* With nothing minted and nothing saved the invariant holds.              *)
LEMMA InitMint == Init => MintInv
<1> SUFFICES ASSUME Init PROVE MintInv
  OBVIOUS
<1>1. IsFiniteSet(minted)
  BY FS_EmptySet DEF Init
<1> QED  BY <1>1 DEF Init, MintInv, MintTypeOK, Up

(* A ring begins with one key, or is the one that was saved (canary.py:    *)
(* 68-74, 93-95).                                                          *)
LEMMA BeginKeeps == ASSUME MintInv, Begin PROVE MintInv'
<1>1. /\ ~Up /\ mine = {} /\ registry = {}
      /\ UNCHANGED <<registry, saved, minted, mine, safe>>
  BY DEF Begin, MintInv
<1>2. CASE saved = NoRing
  <2>1. PICK k \in Kids \ drawn : /\ ring' = [keys |-> {k}, active |-> k]
                                  /\ drawn' = drawn \cup {k}
    BY <1>2 DEF Begin
  <2>2. ring' \in Rings /\ Up'
    BY <2>1, MintAssumption DEF Rings, Up
  <2>3. MintTypeOK'
    BY <1>1, <2>1, <2>2 DEF MintInv, MintTypeOK
  <2>4. safe' \cup {ring'.active} \subseteq ring'.keys /\ ring'.keys \subseteq drawn'
    BY <1>1, <1>2, <2>1 DEF MintInv
  <2> QED  BY <1>1, <1>2, <2>2, <2>3, <2>4 DEF MintInv
<1>3. CASE saved # NoRing
  <2>1. ring' = saved /\ drawn' = drawn /\ Up'
    BY <1>3 DEF Begin, Up
  <2>2. MintTypeOK'
    BY <1>1, <2>1 DEF MintInv, MintTypeOK
  <2> QED  BY <1>1, <1>3, <2>1, <2>2 DEF MintInv
<1> QED  BY <1>2, <1>3

(* What is minted carries the active key, and is registered if it cannot   *)
(* say so (canary.py:117-141).                                             *)
LEMMA MintingKeeps ==
  ASSUME MintInv, NEW o \in Owners, NEW t \in CanaryType, Mint(o, t)
  PROVE  MintInv'
<1> DEFINE c == [kid |-> ring.active, ctype |-> t, owner |-> o,
                 nonce |-> Cardinality(minted) + 1]
<1>1. /\ Up /\ Cardinality(minted) < MaxMinted
      /\ minted' = minted \cup {c} /\ mine' = mine \cup {c}
      /\ registry' = IF t \in SelfDescribing THEN registry ELSE registry \cup {c}
      /\ UNCHANGED <<ring, saved, safe, drawn>>
  BY DEF Mint
<1>2. ring \in Rings
  BY <1>1 DEF MintInv, MintTypeOK, Up
<1>3. ring.active \in Kids
  BY <1>2 DEF Rings
<1>4. Cardinality(minted) + 1 \in 1..MaxMinted
  BY <1>1, MintAssumption, FS_CardinalityType DEF MintInv
<1>5. c \in Canaries /\ c.kid = ring.active /\ c.ctype = t
  BY <1>3, <1>4 DEF Canaries
<1> HIDE DEF c
<1>6. MintTypeOK'
  BY <1>1, <1>5 DEF MintInv, MintTypeOK
<1>7. IsFiniteSet(minted')
  BY <1>1, FS_AddElement DEF MintInv
<1>8. registry' = {d \in mine' : d.ctype \notin SelfDescribing}
  BY <1>1, <1>5 DEF MintInv
<1>9. \A d \in mine' : d.kid \in ring.keys
  BY <1>1, <1>5 DEF MintInv
<1> QED  BY <1>1, <1>6, <1>7, <1>8, <1>9 DEF MintInv, Up

(* A new key joins the others (canary.py:83-88).                           *)
LEMMA RotateKeeps ==
  ASSUME MintInv, NEW k \in Kids, Rotate(k)
  PROVE  MintInv'
<1>1. /\ Up /\ ring' = [keys |-> ring.keys \cup {k}, active |-> k]
      /\ drawn' = drawn \cup {k}
      /\ UNCHANGED <<registry, saved, minted, mine, safe>>
  BY DEF Rotate
<1>2. ring \in Rings
  BY <1>1 DEF MintInv, MintTypeOK, Up
<1>3. ring' \in Rings /\ Up'
  BY <1>1, <1>2, MintAssumption DEF Rings, Up
<1>4. MintTypeOK'
  BY <1>1, <1>3 DEF MintInv, MintTypeOK
<1>5. /\ safe' \cup {ring'.active} \subseteq ring'.keys /\ ring'.keys \subseteq drawn'
      /\ \A c \in mine' : c.kid \in ring'.keys
  BY <1>1 DEF MintInv
<1> QED  BY <1>1, <1>3, <1>4, <1>5 DEF MintInv

(* A save takes all keys of the process, among them those saved before     *)
(* (canary.py:90-91, main.py:50-57).                                       *)
LEMMA SaveKeeps == ASSUME MintInv, Save PROVE MintInv'
<1>1. /\ Up /\ saved' = ring /\ safe' = safe \cup ring.keys
      /\ UNCHANGED <<ring, registry, minted, mine, drawn>>
  BY DEF Save, Export
<1>2. MintTypeOK' /\ saved' # NoRing
  BY <1>1 DEF MintInv, MintTypeOK, Up
<1> QED  BY <1>1, <1>2 DEF MintInv, Up

(* The end of the process leaves what was saved and what was minted.       *)
LEMMA StopKeeps == ASSUME MintInv, Stop PROVE MintInv'
<1>1. MintTypeOK' /\ ~Up'
  BY DEF Stop, MintInv, MintTypeOK, Up
<1> QED  BY <1>1 DEF Stop, MintInv

(* Whatever was saved stays valid, over rotations, kills and restarts      *)
(* (canary.py:68-105).                                                     *)
THEOREM MintInvariant == Spec => []MintInv
<1>1. MintInv /\ [Next]_vars => MintInv'
  <2> SUFFICES ASSUME MintInv, [Next]_vars PROVE MintInv'
    OBVIOUS
  <2>1. CASE UNCHANGED vars
    BY <2>1 DEF vars, MintInv, MintTypeOK, Up
  <2> QED
    BY <2>1, BeginKeeps, MintingKeeps, RotateKeeps, SaveKeeps, StopKeeps DEF Next
<1> QED  BY <1>1, InitMint, PTL DEF Spec

----------------------------------------------------------------------------
(* What is read from a text.                                               *)

(* What holds of 0, and of each number up to n if of the one before, holds *)
(* of n: otherwise the numbers it holds of would be as many without 0 as   *)
(* with it.                                                                *)
LEMMA CountingUp ==
  ASSUME NEW n \in Nat, NEW T \in SUBSET (0..n), 0 \in T,
         \A x \in T : x < n => x + 1 \in T
  PROVE  n \in T
<1> DEFINE next == [x \in T |-> x + 1]
<1>1. SUFFICES ASSUME n \notin T PROVE FALSE
  OBVIOUS
<1>2. IsFiniteSet(T)
  <2>1. IsFiniteSet(0..n)
    BY FS_Interval
  <2> QED  BY <2>1, FS_Subset
<1>3. \A x \in T : x + 1 \in T \ {0}
  BY <1>1
<1>4. next \in Injection(T, T \ {0})
  <2>1. next \in [T -> T \ {0}]
    BY <1>3
  <2>2. \A a, b \in T : next[a] = next[b] => a = b
    OBVIOUS
  <2> QED  BY <2>1, <2>2 DEF Injection, IsInjective
<1> HIDE DEF next
<1>5. IsFiniteSet(T \ {0}) /\ Cardinality(T \ {0}) = Cardinality(T) - 1
  BY <1>2, FS_RemoveElement
<1>6. Cardinality(T) <= Cardinality(T \ {0})
  BY <1>4, <1>5, FS_Injection
<1> QED  BY <1>2, <1>5, <1>6, FS_CardinalityType

(* The matches of a text are found from left to right: they exist, and are *)
(* where they begin (canary.py:37-39, 146).                                *)
LEMMA MatchesAreFound ==
  ASSUME NEW text, Len(text) \in Nat
  PROVE  /\ Matches(text) \subseteq 1..Len(text)
         /\ \A n \in 1..Len(text) : n \in Matches(text) <=> Begins(text, Matches(text), n)
<1> DEFINE Found(S, k) == \A n \in 1..k : n \in S <=> Begins(text, S, n)
           T == {k \in 0..Len(text) : \E S \in SUBSET (1..k) : Found(S, k)}
<1>1. 0 \in T
  <2>1. {} \in SUBSET (1..0) /\ Found({}, 0)
    OBVIOUS
  <2> QED  BY <2>1
<1>2. ASSUME NEW k \in T, k < Len(text) PROVE k + 1 \in T
  <2>1. PICK S \in SUBSET (1..k) : Found(S, k)
    OBVIOUS
  <2> DEFINE R == IF Begins(text, S, k + 1) THEN S \cup {k + 1} ELSE S
  <2>2. k \in Nat /\ k + 1 \in 0..Len(text) /\ R \in SUBSET (1..(k + 1))
    BY <1>2
  <2>3. \A m : m < k + 1 => (m \in R <=> m \in S)
    BY <2>2
  <2>4. \A n \in 1..(k + 1) : \A m : m < n => (m \in R <=> m \in S)
    BY <2>2, <2>3
  <2>5. \A n \in 1..(k + 1) : Begins(text, R, n) <=> Begins(text, S, n)
    BY <2>4 DEF Begins
  <2>6. \A n \in 1..(k + 1) : n \in R <=> Begins(text, S, n)
    <3>1. k + 1 \notin S
      BY <2>2
    <3>2. k + 1 \in R <=> Begins(text, S, k + 1)
      BY <3>1
    <3>3. \A n \in 1..k : n \in R <=> n \in S
      BY <2>2, <2>3
    <3>4. \A n \in 1..k : n \in S <=> Begins(text, S, n)
      BY <2>1
    <3>5. \A n \in 1..(k + 1) : n \in 1..k \/ n = k + 1
      BY <2>2
    <3> HIDE DEF R
    <3> QED  BY <3>2, <3>3, <3>4, <3>5
  <2> QED  BY <2>2, <2>5, <2>6
<1>3. Len(text) \in T
  <2>1. T \in SUBSET (0..Len(text))
    OBVIOUS
  <2> HIDE DEF T
  <2> QED  BY <1>1, <1>2, <2>1, CountingUp
<1>4. \E S \in SUBSET (1..Len(text)) : Found(S, Len(text))
  BY <1>3
<1> QED  BY <1>4 DEF Matches

(* A token is read if nothing before it can run into it, nothing after it  *)
(* is taken for its tag, and the ring has its key (canary.py:143-154).     *)
LEMMA TokenIsRead ==
  ASSUME NEW text, Len(text) \in Nat, NEW n \in 1..Len(text), NEW c,
         text[n] = Token(c, c), c.owner \in Matchable, c.ctype \in CanaryType,
         c.kid \in ring.keys, TagEnds(text, n),
         \A m \in 1..(n - 1) : text[m].piece # "token"
  PROVE  c.owner \in attribute(text)
<1>1. text[n].piece = "token" /\ text[n].says = c /\ text[n].tag = Tag(c)
  BY DEF Token
<1>2. \A m \in Matches(text) : m < n => FALSE
  BY MatchesAreFound DEF Begins
<1>3. n \in Matches(text)
  BY <1>1, <1>2, MatchesAreFound DEF Begins
<1>4. Valid(text[n])
  BY <1>1 DEF Valid
<1> QED  BY <1>1, <1>3, <1>4 DEF attribute

(* A text in three parts, piece by piece.                                  *)
LEMMA ThreeParts ==
  ASSUME NEW P, NEW s \in Seq(P), NEW t \in Seq(P), NEW u \in Seq(P)
  PROVE  /\ s \o t \o u \in Seq(P)
         /\ Len(s \o t \o u) = Len(s) + Len(t) + Len(u)
         /\ \A n \in 1..Len(s) : (s \o t \o u)[n] = s[n]
         /\ \A n \in 1..Len(t) : (s \o t \o u)[Len(s) + n] = t[n]
         /\ \A n \in 1..Len(u) : (s \o t \o u)[Len(s) + Len(t) + n] = u[n]
OBVIOUS

(* What surrounds a canary, and what is written of one, are pieces.        *)
LEMMA AroundArePieces ==
  /\ \A s \in Around : s \in Seq(Pieces) /\ Len(s) \in {0, 1}
  /\ \A c \in minted : Written(c) \in Seq(Pieces)
<1>1. ASSUME NEW s \in Around PROVE s \in Seq(Pieces) /\ Len(s) \in {0, 1}
  <2>1. s = <<>> \/ \E p \in Pieces : s = <<p>>
    BY DEF Around
  <2>2. ASSUME NEW p \in Pieces, s = <<p>> PROVE s \in Seq(Pieces) /\ Len(s) = 1
    BY <2>2
  <2>3. ASSUME s = <<>> PROVE s \in Seq(Pieces) /\ Len(s) = 0
    BY <2>3
  <2> QED  BY <2>1, <2>2, <2>3
<1>2. ASSUME NEW c \in minted PROVE Written(c) \in Seq(Pieces)
  <2>1. Token(c, c) \in Pieces /\ ExactValue(c) \in Pieces /\ Delimiter \in Pieces
    <3>1. c \in UNION {Altered(e) : e \in minted}
      BY DEF Altered
    <3> QED  BY <3>1 DEF Pieces
  <2> QED  BY <2>1 DEF Written
<1> QED  BY <1>1, <1>2

(* A canary whose key was saved, or which the process itself minted, is    *)
(* attributed (canary.py:83-95, 143-154).                                  *)
THEOREM SavedKeysValidate == Spec => []RetiredKeysValidate
<1>1. MintInv => RetiredKeysValidate
  <2> SUFFICES ASSUME MintInv, NEW c \in minted, NEW before \in Around, NEW after \in Around,
                      Up, c.ctype \in SelfDescribing, c.owner \in Matchable,
                      c.kid \in safe \/ c \in mine, Apart(before, after)
               PROVE  c.owner \in attribute(before \o Written(c) \o after)
    BY DEF RetiredKeysValidate
  <2> DEFINE text == before \o Written(c) \o after
  <2>1. c.kid \in ring.keys /\ c.ctype \in CanaryType
    BY DEF MintInv, CanaryType
  <2>2. before \in Seq(Pieces) /\ Written(c) \in Seq(Pieces) /\ after \in Seq(Pieces)
    BY AroundArePieces
  <2>3. Len(before) \in {0, 1} /\ Len(after) \in {0, 1}
    BY AroundArePieces
  <2>4. Len(text) = Len(before) + Len(Written(c)) + Len(after)
    BY <2>2, ThreeParts
  <2>5. /\ \A n \in 1..Len(before) : text[n] = before[n]
        /\ \A n \in 1..Len(Written(c)) : text[Len(before) + n] = Written(c)[n]
        /\ \A n \in 1..Len(after) : text[Len(before) + Len(Written(c)) + n] = after[n]
    BY <2>2, ThreeParts
  <2>6. \A n \in 1..Len(before) : before[n].piece # "token"
    BY <2>3 DEF Apart
  <2>7. Len(after) = 1 => after[1] = Delimiter
    BY <2>3 DEF Apart
  <2>8. Delimiter.piece # "token"
    BY DEF Delimiter
  <2> SUFFICES c.owner \in attribute(text)
    OBVIOUS
  <2> HIDE DEF text
  <2>9. CASE c.ctype = "txt"
    <3>1. Written(c) = <<Token(c, c)>>
      BY <2>9 DEF Written
    <3>2. Len(text) \in Nat /\ Len(before) + 1 \in 1..Len(text)
      BY <2>3, <2>4, <3>1
    <3>3. text[Len(before) + 1] = Token(c, c)
      BY <2>5, <3>1
    <3>4. TagEnds(text, Len(before) + 1)
      BY <2>3, <2>4, <2>5, <2>7, <3>1 DEF TagEnds
    <3>5. \A m \in 1..((Len(before) + 1) - 1) : text[m].piece # "token"
      BY <2>3, <2>5, <2>6
    <3> QED  BY <2>1, <3>2, <3>3, <3>4, <3>5, TokenIsRead
  <2>10. CASE c.ctype = "eml"
    <3>1. Written(c) = <<Token(c, c), Delimiter>>
      BY <2>10 DEF Written
    <3>2. Len(text) \in Nat /\ Len(before) + 1 \in 1..Len(text)
      BY <2>3, <2>4, <3>1
    <3>3. text[Len(before) + 1] = Token(c, c) /\ text[Len(before) + 2] = Delimiter
      BY <2>5, <3>1
    <3>4. TagEnds(text, Len(before) + 1)
      BY <2>3, <3>3 DEF TagEnds
    <3>5. \A m \in 1..((Len(before) + 1) - 1) : text[m].piece # "token"
      BY <2>3, <2>5, <2>6
    <3> QED  BY <2>1, <3>2, <3>3, <3>4, <3>5, TokenIsRead
  <2>11. CASE c.ctype = "jsn"
    <3>1. Written(c) = <<Delimiter, Token(c, c), Delimiter>>
      BY <2>11 DEF Written
    <3>2. Len(text) \in Nat /\ Len(before) + 2 \in 1..Len(text)
      BY <2>3, <2>4, <3>1
    <3>3. /\ text[Len(before) + 1] = Delimiter
          /\ text[Len(before) + 2] = Token(c, c)
          /\ text[Len(before) + 3] = Delimiter
      BY <2>5, <3>1
    <3>4. TagEnds(text, Len(before) + 2)
      BY <2>3, <3>3 DEF TagEnds
    <3>5. \A m \in 1..((Len(before) + 2) - 1) : text[m].piece # "token"
      BY <2>3, <2>5, <2>6, <2>8, <3>3
    <3> QED  BY <2>1, <3>2, <3>3, <3>4, <3>5, TokenIsRead
  <2> QED  BY <2>9, <2>10, <2>11 DEF SelfDescribing
<1> QED  BY <1>1, MintInvariant, PTL

(* A number or UUID stands alone in a text: it is attributed if it is in   *)
(* the registry, and nothing else is (canary.py:143-158).                  *)
LEMMA ValueIsRead ==
  ASSUME NEW text, Len(text) \in Nat, NEW c, NEW n \in 1..Len(text),
         text[n] = ExactValue(c), \A m \in 1..Len(text) : text[m] \in {Delimiter, ExactValue(c)}
  PROVE  attribute(text) = IF c \in registry THEN {c.owner} ELSE {}
<1>1. \A m \in 1..Len(text) : text[m].piece # "token"
  BY DEF Delimiter, ExactValue
<1>2. Matches(text) = {}
  BY <1>1, MatchesAreFound DEF Begins
<1>3. \A d \in registry : (\E m \in 1..Len(text) : text[m] = ExactValue(d)) <=> d = c
  <2>1. ASSUME NEW d, NEW m \in 1..Len(text), text[m] = ExactValue(d) PROVE d = c
    <3>1. text[m].piece = "value" /\ text[m].of = d
      BY <2>1 DEF ExactValue
    <3>2. text[m] = ExactValue(c)
      BY <3>1 DEF Delimiter
    <3> QED  BY <3>1, <3>2 DEF ExactValue
  <2> QED  BY <2>1
<1> QED
  BY <1>2, <1>3 DEF attribute

(* The process finds its numbers and UUIDs where they stand alone, and no  *)
(* other process does (canary.py:104, 129-137, 155-158).                   *)
THEOREM RegisteredAreFound == Spec => []RegistryAttributes
<1>1. MintInv => RegistryAttributes
  <2> SUFFICES ASSUME MintInv, NEW c \in minted, c.ctype \notin SelfDescribing,
                      NEW before \in {<<>>, <<Delimiter>>}, NEW after \in {<<>>, <<Delimiter>>}
               PROVE  c.owner \in attribute(before \o Written(c) \o after) <=> c \in mine
    BY DEF RegistryAttributes
  <2> DEFINE text == before \o Written(c) \o after
             P == {Delimiter, ExactValue(c)}
  <2>1. c \in registry <=> c \in mine
    BY DEF MintInv
  <2>2. Written(c) = <<ExactValue(c)>>
    BY DEF Written, SelfDescribing
  <2>3. /\ before \in Seq(P) /\ Written(c) \in Seq(P) /\ after \in Seq(P)
        /\ Len(before) \in {0, 1} /\ Len(Written(c)) = 1 /\ Len(after) \in {0, 1}
    <3>1. Delimiter \in P /\ ExactValue(c) \in P
      OBVIOUS
    <3> HIDE DEF P
    <3>2. \A q \in P : <<q>> \in Seq(P) /\ Len(<<q>>) = 1
      OBVIOUS
    <3>3. <<>> \in Seq(P) /\ Len(<<>>) = 0
      OBVIOUS
    <3> QED  BY <2>2, <3>1, <3>2, <3>3
  <2>4. text \in Seq(P) /\ Len(text) = Len(before) + Len(Written(c)) + Len(after)
    <3> HIDE DEF P
    <3>1. before \in Seq(P) /\ Written(c) \in Seq(P) /\ after \in Seq(P)
      BY <2>3
    <3>2. text \in Seq(P)
      BY <3>1, ThreeParts
    <3>3. Len(text) = Len(before) + Len(Written(c)) + Len(after)
      BY <3>1, ThreeParts
    <3> QED  BY <3>2, <3>3
  <2>5. text[Len(before) + 1] = ExactValue(c)
    <3> HIDE DEF P
    <3>1. \A n \in 1..Len(Written(c)) : text[Len(before) + n] = Written(c)[n]
      BY <2>3, ThreeParts
    <3> HIDE DEF text
    <3> QED  BY <2>2, <3>1
  <2> SUFFICES c.owner \in attribute(text) <=> c \in mine
    OBVIOUS
  <2> HIDE DEF text
  <2>6. Len(text) \in Nat /\ Len(before) + 1 \in 1..Len(text)
    BY <2>3, <2>4
  <2>7. \A m \in 1..Len(text) : text[m] \in P
    BY <2>4
  <2>8. attribute(text) = IF c \in registry THEN {c.owner} ELSE {}
    BY <2>5, <2>6, <2>7, ValueIsRead
  <2> QED  BY <2>1, <2>8
<1> QED  BY <1>1, MintInvariant, PTL

(* A tag authenticates all that its token says: a token of which it is the *)
(* tag was minted as it stands (canary.py:107-115, 150).                   *)
LEMMA ValidWasMinted ==
  ASSUME minted \subseteq Canaries, NEW p \in Pieces, p.piece = "token", Valid(p)
  PROVE  \E c \in minted : p = Token(c, c) /\ c.owner = p.says.owner
<1>1. PICK c \in minted, d \in UNION {Altered(e) : e \in minted} : p = Token(d, c)
  BY DEF Pieces, Delimiter, Letters, ExactValue
<1>2. p.says = d /\ Tag(d) = Tag(c)
  BY <1>1 DEF Token, Valid
<1>3. d.kid = c.kid /\ d.ctype = c.ctype /\ d.owner = c.owner /\ d.nonce = c.nonce
  BY <1>2 DEF Tag
<1>4. PICK e \in minted : d \in Altered(e)
  BY <1>1
<1>5. e \in Canaries /\ c \in Canaries
  OBVIOUS
<1>6. d = [kid |-> d.kid, ctype |-> d.ctype, owner |-> d.owner, nonce |-> d.nonce]
  BY <1>4, <1>5 DEF Altered, Canaries
<1>7. c = [kid |-> c.kid, ctype |-> c.ctype, owner |-> c.owner, nonce |-> c.nonce]
  BY <1>5 DEF Canaries
<1>8. d = c
  BY <1>3, <1>6, <1>7
<1> QED  BY <1>1, <1>2, <1>8

(* Whatever is attributed of a text of any length stands in it and was     *)
(* minted (canary.py:143-158).                                             *)
LEMMA AttributedStands ==
  ASSUME MintInv, NEW text \in Seq(Pieces), NEW o \in attribute(text)
  PROVE  \E c \in minted : /\ c.owner = o
                           /\ \E n \in 1..Len(text) : text[n] \in {Token(c, c), ExactValue(c)}
<1>1. Len(text) \in Nat /\ \A n \in 1..Len(text) : text[n] \in Pieces
  OBVIOUS
<1>2. \/ \E n \in Matches(text) : Valid(text[n]) /\ text[n].says.owner = o
      \/ \E d \in registry : d.owner = o /\ \E n \in 1..Len(text) : text[n] = ExactValue(d)
  BY DEF attribute
<1>3. ASSUME NEW n \in Matches(text), Valid(text[n]), text[n].says.owner = o
      PROVE  n \in 1..Len(text) /\ \E c \in minted : c.owner = o /\ text[n] = Token(c, c)
  <2>1. n \in 1..Len(text) /\ text[n].piece = "token"
    BY <1>1, MatchesAreFound DEF Begins
  <2>2. PICK c \in minted : text[n] = Token(c, c) /\ c.owner = text[n].says.owner
    BY <1>1, <1>3, <2>1, ValidWasMinted DEF MintInv, MintTypeOK
  <2> QED  BY <1>3, <2>1, <2>2
<1>4. registry \subseteq minted
  BY DEF MintInv, MintTypeOK
<1> QED  BY <1>2, <1>3, <1>4

(* The proof of provenance: no text makes one up (canary.py:3-6, 143-158). *)
THEOREM NothingIsForged == Spec => []AttributedWasMinted
<1>1. MintInv => AttributedWasMinted
  <2> SUFFICES ASSUME MintInv, NEW p \in Pieces, NEW q \in Pieces,
                      NEW o \in attribute(<<p, q>>)
               PROVE  \E c \in minted :
                        c.owner = o /\ {Token(c, c), ExactValue(c)} \cap {p, q} # {}
    BY DEF AttributedWasMinted
  <2> DEFINE text == <<p, q>>
  <2>1. text \in Seq(Pieces) /\ Len(text) = 2 /\ \A n \in 1..Len(text) : text[n] \in {p, q}
    OBVIOUS
  <2>2. o \in attribute(text)
    OBVIOUS
  <2> HIDE DEF text
  <2>3. PICK c \in minted, n \in 1..Len(text) :
          c.owner = o /\ text[n] \in {Token(c, c), ExactValue(c)}
    BY <2>1, <2>2, AttributedStands
  <2>4. text[n] \in {p, q}
    BY <2>1
  <2> QED  BY <2>3, <2>4
<1> QED  BY <1>1, MintInvariant, PTL

=============================================================================
