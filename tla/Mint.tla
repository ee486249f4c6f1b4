-------------------------------- MODULE Mint --------------------------------
(***************************************************************************)
(* Canaries and their keys over the life of a mint: KeyRing and CanaryMint *)
(* of authdiff/core/canary.py, with rotate(), which StateFile and Commands *)
(* leave out because no command calls it, and with all types of canary.    *)
(*                                                                         *)
(* One process at a time has the mint: it draws a ring or reads the one    *)
(* that was saved, mints, rotates, saves, and ends or is killed at any     *)
(* point.  A key is drawn with its id and named by it; neither a key id    *)
(* nor a nonce is drawn twice.  A tag is the tuple of what it authenticates*)
(* and so can be made with the key only.                                   *)
(*                                                                         *)
(* A text that is searched for canaries is a sequence of pieces: a token,  *)
(* a number or UUID, Letters (of the alphabet A-Z2-7 of tags) or Delimiter *)
(* (anything else).  The search cares how tokens touch: the expression     *)
(* takes every letter after a tag for a part of it; a token begins with    *)
(* the letters AUTHDIFF, and a number is taken to begin with one, the      *)
(* digits 2 to 7 being letters here, but not to hold letters only.         *)
(***************************************************************************)
EXTENDS Naturals, Sequences, FiniteSets

CONSTANTS
  Kids,       \* the key ids that may be drawn
  Owners,     \* the ids of identities
  Matchable,  \* those of letters, digits, _ and -, which the expression matches
  MaxMinted,  \* bound: how many canaries are minted
  NoRing      \* nothing has been saved; no process has the mint

ASSUME MintAssumption ==
  /\ Matchable \subseteq Owners
  /\ MaxMinted \in Nat
  /\ NoRing \notin [keys : SUBSET Kids, active : Kids]

VARIABLES
  ring,      \* of the process: its keys and the active one, or NoRing
  registry,  \* _registry: the number and UUID canaries of the process
  saved,     \* what export() gave at the last save, or NoRing
  minted,    \* history: the canaries minted
  mine,      \* history: of these, the ones the process minted
  safe,      \* history: the key ids saved so far
  drawn      \* history: the key ids drawn

vars == <<ring, registry, saved, minted, mine, safe, drawn>>

SelfDescribing == {"txt", "eml", "jsn"}
CanaryType == SelfDescribing \cup {"num", "uid"}
Rings == [keys : SUBSET Kids, active : Kids]
Canaries == [kid : Kids, ctype : CanaryType, owner : Owners, nonce : 1..MaxMinted]

Init ==
  /\ ring = NoRing
  /\ registry = {}
  /\ saved = NoRing
  /\ minted = {}
  /\ mine = {}
  /\ safe = {}
  /\ drawn = {}

Up == ring # NoRing

----------------------------------------------------------------------------

(* KeyRing() draws a key; from_export() reads the ring that was saved.     *)
Begin ==
  /\ ~Up
  /\ \/ /\ saved = NoRing
        /\ \E k \in Kids \ drawn : /\ ring' = [keys |-> {k}, active |-> k]
                                   /\ drawn' = drawn \cup {k}
     \/ /\ saved # NoRing
        /\ ring' = saved
        /\ UNCHANGED drawn
  /\ UNCHANGED <<registry, saved, minted, mine, safe>>

(* mint(); a number or UUID is remembered in the registry.                 *)
Mint(owner, ctype) ==
  LET c == [kid |-> ring.active, ctype |-> ctype, owner |-> owner,
            nonce |-> Cardinality(minted) + 1]
  IN  /\ Up
      /\ Cardinality(minted) < MaxMinted
      /\ minted' = minted \cup {c}
      /\ mine' = mine \cup {c}
      /\ registry' = IF ctype \in SelfDescribing THEN registry ELSE registry \cup {c}
      /\ UNCHANGED <<ring, saved, safe, drawn>>

(* Mutants: the new key replaces the others; the registry starts anew.     *)
RotateAway(k) ==
  /\ Up
  /\ ring' = [keys |-> {k}, active |-> k]
  /\ drawn' = drawn \cup {k}
  /\ UNCHANGED <<registry, saved, minted, mine, safe>>
RotateRegistry(k) ==
  /\ Up
  /\ ring' = [keys |-> ring.keys \cup {k}, active |-> k]
  /\ drawn' = drawn \cup {k}
  /\ registry' = {}
  /\ UNCHANGED <<saved, minted, mine, safe>>

(* rotate()                                                                *)
Rotate(k) ==
  /\ Up
  /\ ring' = [keys |-> ring.keys \cup {k}, active |-> k]
  /\ drawn' = drawn \cup {k}
  /\ UNCHANGED <<registry, saved, minted, mine, safe>>

(* Mutant: the id of the active key is forgotten.                          *)
ExportKeys == [ring EXCEPT !.active = NoRing]

(* export(), and active_kid with it.                                       *)
Export == ring

Save ==
  /\ Up
  /\ saved' = Export
  /\ safe' = safe \cup ring.keys
  /\ UNCHANGED <<ring, registry, minted, mine, drawn>>

(* The process ends, whatever it had.                                      *)
Stop ==
  /\ Up
  /\ ring' = NoRing
  /\ registry' = {}
  /\ mine' = {}
  /\ UNCHANGED <<saved, minted, safe, drawn>>

Next ==
  \/ Begin
  \/ \E o \in Owners, t \in CanaryType : Mint(o, t)
  \/ \E k \in Kids \ drawn : Rotate(k)
  \/ Save
  \/ Stop

Spec == Init /\ [][Next]_vars

----------------------------------------------------------------------------

Delimiter == [piece |-> "delimiter"]
Letters == [piece |-> "letters"]

(* Mutant: the owner is left out of what the tag authenticates.            *)
TagWithoutOwner(c) == <<c.kid, c.ctype, c.nonce>>

(* _tag                                                                    *)
Tag(c) == <<c.kid, c.ctype, c.owner, c.nonce>>

(* A token that says c with the tag of d; an unaltered one if c = d.       *)
Token(c, d) == [piece |-> "token", says |-> c, tag |-> Tag(d)]
ExactValue(c) == [piece |-> "value", of |-> c]

(* What is written into the field, Canary.value.                           *)
Written(c) ==
  CASE c.ctype = "txt" -> <<Token(c, c)>>
    [] c.ctype = "eml" -> <<Token(c, c), Delimiter>>
    [] c.ctype = "jsn" -> <<Delimiter, Token(c, c), Delimiter>>
    [] OTHER -> <<ExactValue(c)>>

(* A match begins at the token n of the text, if those of S have begun:    *)
(* the id of its owner can be matched, and none of those before it runs    *)
(* over letters only into its first ones.                                  *)
Begins(text, S, n) ==
  /\ text[n].piece = "token"
  /\ text[n].says.owner \in Matchable
  /\ ~ \E m \in S : m < n /\ \A l \in (m + 1)..(n - 1) : text[l] = Letters

(* findall: the matches from left to right, none of which overlap.         *)
Matches(text) ==
  CHOOSE S \in SUBSET (1..Len(text)) :
    \A n \in 1..Len(text) : n \in S <=> Begins(text, S, n)

(* What the match takes for the tag is the tag and nothing more.           *)
TagEnds(text, n) == n = Len(text) \/ text[n + 1] = Delimiter

(* The key is known, the type is one, and the tag is right.                *)
Valid(token) ==
  /\ token.says.kid \in ring.keys
  /\ token.says.ctype \in CanaryType
  /\ token.tag = Tag(token.says)

attribute(text) ==
  {text[n].says.owner : n \in {m \in Matches(text) : TagEnds(text, m) /\ Valid(text[m])}}
    \cup {c.owner : c \in {d \in registry : \E n \in 1..Len(text) : text[n] = ExactValue(d)}}

----------------------------------------------------------------------------

(* Types of the variables (canary.py:68-74, 94-105).                       *)
MintTypeOK ==
  /\ ring \in Rings \cup {NoRing}
  /\ saved \in Rings \cup {NoRing}
  /\ minted \subseteq Canaries
  /\ mine \subseteq minted
  /\ registry \subseteq mine
  /\ safe \subseteq drawn
  /\ drawn \subseteq Kids

(* The texts that can be made of what was minted, whole or altered.        *)
Altered(c) ==
  {[c EXCEPT !.owner = o] : o \in Owners} \cup {[c EXCEPT !.ctype = "unknown"]} \cup minted
Pieces ==
  {Delimiter, Letters} \cup {Token(d, c) : c \in minted, d \in UNION {Altered(e) : e \in minted}}
    \cup {ExactValue(c) : c \in minted}
Around == {<<>>} \cup {<<p>> : p \in Pieces}

(* No token touches what follows `before`, and no letters precede `after`. *)
Apart(before, after) ==
  /\ before = <<>> \/ before[Len(before)].piece # "token"
  /\ after = <<>> \/ after[1] = Delimiter

(* What canary.py:12-14 promises: a canary that carries its key id is      *)
(* attributed by every process after it, over rotations and restarts, if   *)
(* its key was saved, or by the process that minted it; wherever it stands *)
(* in a text, if no letter of the alphabet of tags and no other token      *)
(* touches it, and if the owner's id is of letters, digits, _ and -        *)
(* (canary.py:83-95, 143-154).                                             *)
RetiredKeysValidate ==
  \A c \in minted : \A before, after \in Around :
    /\ Up
    /\ c.ctype \in SelfDescribing
    /\ c.owner \in Matchable
    /\ c.kid \in safe \/ c \in mine
    /\ Apart(before, after)
    => c.owner \in attribute(before \o Written(c) \o after)

(* What canary.py:16-17 promises of numbers and UUIDs, a "per-run registry"*)
(* and "exact-value match": the process that minted one attributes it where*)
(* it stands alone, rotations or not, and no other process ever does       *)
(* (canary.py:104, 133-137, 155-158).                                      *)
RegistryAttributes ==
  \A c \in minted : \A before, after \in {<<>>, <<Delimiter>>} :
    c.ctype \notin SelfDescribing =>
      (c.owner \in attribute(before \o Written(c) \o after) <=> c \in mine)

(* The proof of provenance, canary.py:3-6: an owner that is attributed     *)
(* stands in the text with a canary that was minted for him.  Neither an   *)
(* altered token nor two tokens that run into each other make one          *)
(* (canary.py:107-108, 143-158).                                           *)
AttributedWasMinted ==
  Up =>
    \A p, q \in Pieces : \A o \in attribute(<<p, q>>) :
      \E c \in minted :
        /\ c.owner = o
        /\ {Token(c, c), ExactValue(c)} \cap {p, q} # {}

(* The inductive invariant behind the theorems of MintProofs (canary.py:   *)
(* 68-105, 117-141): what was saved is never dropped from a ring, a        *)
(* process has the keys of what it minted, and its registry is exactly     *)
(* what carries no key id of that.                                         *)
MintInv ==
  /\ MintTypeOK
  /\ IsFiniteSet(minted)
  /\ saved = NoRing => safe = {}
  /\ saved # NoRing => /\ safe \cup {saved.active} \subseteq saved.keys
                       /\ saved.keys \subseteq drawn
  /\ Up => /\ safe \cup {ring.active} \subseteq ring.keys
           /\ ring.keys \subseteq drawn
           /\ \A c \in mine : c.kid \in ring.keys
  /\ ~Up => mine = {}
  /\ registry = {c \in mine : c.ctype \notin SelfDescribing}

=============================================================================
