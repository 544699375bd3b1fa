----------------------------- MODULE DynSections ------------------------------
(***************************************************************************)
(* The parts of the documentation's pages that are opened and closed       *)
(* (dynsections.js): the rows of a directory such as files.html, and the   *)
(* sections whose heading has a small image of an open or a closed box.    *)
(*                                                                         *)
(* A row is the sequence of numbers in its id, row_0_1_ is <<0, 1>>.  A    *)
(* definition marked "Slip" is the next one with a mistake in it.          *)
(***************************************************************************)
EXTENDS Integers, Sequences, FiniteSets

CONSTANTS
  FRows,      \* the rows of the directory
  Foldables   \* the sections that can be opened and closed

Children(r) == {c \in FRows : Len(c) = Len(r) + 1 /\ SubSeq(c, 1, Len(r)) = r}
Below(r) == {c \in FRows : Len(c) > Len(r) /\ SubSeq(c, 1, Len(r)) = r}

ASSUME DynSectionsAssumption ==
  /\ IsFiniteSet(FRows) /\ FRows \subseteq Seq(Nat) \ {<<>>}
  /\ \A r \in FRows : /\ Len(r) > 1 => SubSeq(r, 1, Len(r) - 1) \in FRows
                      /\ Children(r) # {} => Append(r, 0) \in FRows

VARIABLES
  frow,       \* each row: is it displayed, does its arrow point down
  feven,      \* the rows with the style "even"
  fsection    \* each section: is it displayed, and its image

fvars == <<frow, feven, fsection>>

Shown(row) == {r \in FRows : row[r].shown}

(* The order of the rows in the table.                                      *)
Above(a, b) ==
  \/ Len(a) < Len(b) /\ SubSeq(b, 1, Len(a)) = a
  \/ \E i \in DOMAIN a \cap DOMAIN b :
       a[i] < b[i] /\ SubSeq(a, 1, i - 1) = SubSeq(b, 1, i - 1)

-----------------------------------------------------------------------------
(* updateStripes: every other of the displayed rows.                        *)
Stripes(row) ==
  {r \in Shown(row) : Cardinality({a \in Shown(row) : Above(a, r)}) % 2 = 0}

RowsBecome(row) == frow' = row /\ feven' = Stripes(row)

(* A row at the level that is asked for is closed, those deeper are hidden  *)
(* as they are.                                                             *)
ToggleLevel(level) ==
  /\ RowsBecome([r \in FRows |-> IF Len(r) <= level
                                THEN [shown |-> TRUE, open |-> Len(r) < level]
                                ELSE [frow[r] EXCEPT !.shown = FALSE]])
  /\ UNCHANGED fsection

(* Slip: the rows below the children stay.                                  *)
HideChildren(row, r) ==
  [x \in FRows |-> IF x = r THEN [row[x] EXCEPT !.open = FALSE]
                  ELSE [row[x] EXCEPT !.shown = @ /\ x \notin Children(r)]]

Hide(row, r) ==
  [x \in FRows |-> IF x = r THEN [row[x] EXCEPT !.open = FALSE]
                  ELSE [row[x] EXCEPT !.shown = @ /\ x \notin Below(r)]]

(* The children are displayed closed.                                       *)
Show(row, r) ==
  [x \in FRows |-> IF x = r THEN [row[x] EXCEPT !.open = TRUE]
                  ELSE IF x \in Children(r) THEN [shown |-> TRUE, open |-> FALSE]
                  ELSE row[x]]

(* The first child says which it is.                                        *)
ToggleFolder(r) ==
  /\ frow[r].shown /\ Children(r) # {}
  /\ RowsBecome(IF frow[Append(r, 0)].shown THEN Hide(frow, r) ELSE Show(frow, r))
  /\ UNCHANGED fsection

-----------------------------------------------------------------------------
(* Foldables: the name of the image is cut and the other one is put in its   *)
(* place; path is the length of what is left before it.                     *)

NameLength(name) == IF name = "open.png" THEN 8 ELSE 10

Replaced(image, cut, name) ==
  [path |-> image.path + NameLength(image.name) - cut, name |-> name]

(* toggleVisibility, and toggleInherit for the rows of a base class.        *)
Toggled(section) ==
  [shown |-> ~section.shown,
   image |-> IF section.shown THEN Replaced(section.image, 8, "closed.png")
                              ELSE Replaced(section.image, 10, "open.png")]

ToggleSection(s) ==
  /\ fsection' = [fsection EXCEPT ![s] = Toggled(@)]
  /\ UNCHANGED <<frow, feven>>

-----------------------------------------------------------------------------
PathLength == 6   \* of "../../", say

(* As the pages are generated: directories open, sections closed.           *)
FInit ==
  /\ frow = [r \in FRows |-> [shown |-> TRUE, open |-> Children(r) # {}]]
  /\ feven = Stripes(frow)
  /\ fsection = [s \in Foldables |->
       [shown |-> FALSE, image |-> [path |-> PathLength, name |-> "closed.png"]]]

FNext ==
  \/ \E level \in {Len(r) : r \in FRows} : ToggleLevel(level)
  \/ \E r \in FRows : ToggleFolder(r)
  \/ \E s \in Foldables : ToggleSection(s)

-----------------------------------------------------------------------------
(* Properties.                                                              *)

(* The rows that are displayed are the tree: a row is displayed just when   *)
(* its parent is and has its arrow down, whichever levels were asked for    *)
(* and whatever was hidden with its own rows open (lines 52-105).           *)
FTreeIsOpen ==
  \A r \in FRows : \A c \in Children(r) :
    frow[c].shown <=> frow[r].shown /\ frow[r].open

(* The image of a section is there and fits the section, however often it   *)
(* is opened and closed (lines 31-42, 112-119).                             *)
FImageFits ==
  \A s \in Foldables :
    fsection[s].image = [path |-> PathLength,
                         name |-> IF fsection[s].shown THEN "open.png" ELSE "closed.png"]
=============================================================================
