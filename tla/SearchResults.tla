---------------------------- MODULE SearchResults ----------------------------
(***************************************************************************)
(* The page of search results in the frame of the search box               *)
(* (SearchResults, createResults and convertToId in                        *)
(* src/docs/documentation/html/search/search.js): which rows are shown,    *)
(* and how keys move the focus over them.                                  *)
(*                                                                         *)
(* Row e is item e of searchData: a name, and the number of its children   *)
(* if it stands for more than one result, else 0.  A place for the focus   *)
(* is <<e>>, <<e, c>> for a child, or <<>> for the field of the search     *)
(* box.  A character is its code, in lower case.  A definition marked      *)
(* "Slip" is the next one with a mistake in it.                            *)
(***************************************************************************)
EXTENDS Integers, Sequences, SequencesExt

CONSTANTS
  RNames,     \* the name of each row, from 1 on: sorted
  RNumbers,   \* the number of each in the whole documentation, in digits
  RChildren,  \* the number of children of each row
  RQueries    \* what is searched for

ASSUME SearchResultsAssumption ==
  /\ RNames \in Seq(Seq(Nat))
  /\ RNumbers \in [DOMAIN RNames -> Seq(48 .. 57)]   \* '0' .. '9'
  /\ RChildren \in [DOMAIN RNames -> Nat]
  /\ RQueries \subseteq Seq(Nat)

VARIABLES
  rquery,     \* the text of the page's location
  rshown,     \* rows displayed as 'block'
  ropen,      \* rows whose children are
  rfocus, rheld,   \* the focus; the key held down
  lastKey, repeatOn

rvars == <<rquery, rshown, ropen, rfocus, rheld, lastKey, repeatOn>>

-----------------------------------------------------------------------------
(* Identifiers.                                                             *)

Underscore == 95
HexDigit(d) == IF d < 10 THEN 48 + d ELSE 87 + d   \* '0' .. '9', 'a' .. 'f'
Plain(c) == c \in 97 .. 122 \/ c \in 48 .. 57 \/ c >= 128

(* Slip: a number below 16 is one digit.                                    *)
EscapedShort(c) ==
  <<Underscore>> \o IF c < 16 THEN <<HexDigit(c)>> ELSE <<HexDigit(c \div 16), HexDigit(c % 16)>>

Escaped(c) ==
  <<Underscore>> \o IF c < 16 THEN <<HexDigit(0), HexDigit(c)>>
                    ELSE <<HexDigit(c \div 16), HexDigit(c % 16)>>

convertToId(text) ==
  FlattenSeq([i \in DOMAIN text |-> IF Plain(text[i]) THEN <<text[i]>> ELSE Escaped(text[i])])

(* What createResults calls row e, without "SR_": Doxygen has put the       *)
(* name's identifier and the row's number into searchData.                  *)
RowId(e) == convertToId(RNames[e]) \o <<Underscore>> \o RNumbers[e]

RMatches(id, query) == IsPrefix(convertToId(query), id)

-----------------------------------------------------------------------------
(* The page is loaded: createResults, then Search.                          *)

Rows == DOMAIN RNames

(* searchData is sorted: what a query finds stands together.                *)
ASSUME ResultsTogether ==
  \A query \in RQueries : \A e, f, g \in Rows :
    e < f /\ f < g /\ RMatches(RowId(e), query) /\ RMatches(RowId(g), query) => RMatches(RowId(f), query)

(* Only a row with several results has the element.                         *)
FindChildElement(e) == RChildren[e] > 0

RInit ==
  /\ rquery \in RQueries
  /\ rshown = {e \in Rows : RMatches(RowId(e), rquery)}
  /\ ropen = {} /\ rfocus = <<>> /\ rheld = "none"
  /\ lastKey = "none" /\ repeatOn = FALSE

-----------------------------------------------------------------------------
(* From one place to the next.                                              *)

NavNext(e) ==
  LET at == {f \in rshown : f >= e} IN
  IF at = {} THEN <<>> ELSE <<CHOOSE f \in at : \A g \in at : f <= g>>

NavPrev(e) ==
  LET at == {f \in rshown : f <= e} IN
  IF at = {} THEN <<>> ELSE <<CHOOSE f \in at : \A g \in at : f >= g>>

(* Up from a row: the children looked for are those of row e - 1.           *)
RowUp(e) ==
  LET found == NavPrev(e - 1) IN
  IF found # <<>> /\ found[1] \in ropen /\ RChildren[e - 1] > 0
  THEN <<e - 1, RChildren[e - 1]>> ELSE found

RowDown(e) == IF e \in ropen THEN <<e, 1>> ELSE NavNext(e + 1)

(* Slip: behind the last child is the row itself.                           *)
ChildDownSame(e, c) == IF c < RChildren[e] THEN <<e, c + 1>> ELSE NavNext(e)

ChildUp(e, c) == IF c > 1 THEN <<e, c - 1>> ELSE <<e>>
ChildDown(e, c) == IF c < RChildren[e] THEN <<e, c + 1>> ELSE NavNext(e + 1)

Up(at) == IF Len(at) = 1 THEN RowUp(at[1]) ELSE ChildUp(at[1], at[2])
Down(at) == IF Len(at) = 1 THEN RowDown(at[1]) ELSE ChildDown(at[1], at[2])

Visible(at) == at[1] \in rshown /\ (Len(at) = 2 => at[1] \in ropen)

(* Nothing that is not displayed gets the focus.                            *)
FocusedAt(at) == IF at = <<>> \/ Visible(at) THEN at ELSE rfocus

-----------------------------------------------------------------------------
(* Keys.                                                                    *)

Move(key) ==
  CASE key = "up" -> rfocus' = FocusedAt(Up(rfocus))
    [] key = "down" -> rfocus' = IF Down(rfocus) = <<>> THEN rfocus ELSE FocusedAt(Down(rfocus))
    [] key = "escape" -> rfocus' = <<>>
    [] OTHER -> UNCHANGED rfocus

(* A key in row e, and in a child, once ProcessKeys has let the event       *)
(* through.                                                                 *)
Nav(key, e) ==
  /\ Move(key)
  /\ ropen' = CASE key = "right" /\ FindChildElement(e) -> ropen \cup {e}
                [] key = "left" -> ropen \ {e}
                [] OTHER -> ropen
NavChild(key) == Move(key) /\ UNCHANGED ropen

Act(key) == IF Len(rfocus) = 1 THEN Nav(key, rfocus[1]) ELSE NavChild(key)

pageVars == <<rquery, rshown>>

KeyDown(key) ==
  /\ rfocus # <<>> /\ rheld \in {"none", key}
  /\ rheld' = key
  /\ lastKey' = key /\ repeatOn' = FALSE
  /\ Act(key)
  /\ UNCHANGED pageVars

(* The first one after a keydown is ignored.                                *)
KeyPress ==
  /\ rfocus # <<>> /\ rheld # "none"
  /\ IF ~repeatOn THEN /\ repeatOn' = (lastKey # "none")
                       /\ UNCHANGED <<rfocus, ropen>>
     ELSE Act(lastKey) /\ UNCHANGED repeatOn
  /\ UNCHANGED <<pageVars, rheld, lastKey>>

(* In the field the key's release is no event of this page.                 *)
KeyUp ==
  /\ rheld # "none"
  /\ rheld' = "none"
  /\ IF rfocus = <<>> THEN UNCHANGED <<lastKey, repeatOn>>
     ELSE lastKey' = "none" /\ repeatOn' = FALSE
  /\ UNCHANGED <<pageVars, rfocus, ropen>>

(* The message "take_focus", while no key is held or while one is.          *)
RTakeFocus ==
  /\ rfocus = <<>> /\ NavNext(0) # <<>>
  /\ rfocus' = NavNext(0)
  /\ UNCHANGED <<pageVars, ropen, rheld, lastKey, repeatOn>>

(* A click on a row with children, which takes the focus.                   *)
Toggle(e) ==
  /\ e \in rshown /\ FindChildElement(e)
  /\ rfocus' = <<e>>
  /\ ropen' = IF e \in ropen THEN ropen \ {e} ELSE ropen \cup {e}
  /\ UNCHANGED <<pageVars, rheld, lastKey, repeatOn>>

RNext ==
  \/ \E key \in {"up", "down", "left", "right", "escape"} : KeyDown(key)
  \/ KeyPress \/ KeyUp \/ RTakeFocus
  \/ \E e \in Rows : Toggle(e)

-----------------------------------------------------------------------------
(* Properties.                                                              *)

(* The rows shown are those whose name begins with the query, although both *)
(* are compared as identifiers, in which a special character is three and   *)
(* the row's number stands behind the name (search.js:25-46, 503-531).      *)
(* Only a query that goes on behind a whole name may take a number for it.  *)
RShowsMatches ==
  /\ {e \in Rows : IsPrefix(rquery, RNames[e])} \subseteq rshown
  /\ \A e \in rshown : IsPrefix(rquery, RNames[e]) \/ IsPrefix(RNames[e], rquery)

(* Up takes back what Down has done, from every place, whichever rows are   *)
(* hidden and whichever are open (search.js:547-587, 618-665, 696-720).     *)
RUpUndoesDown ==
  \A e \in rshown : \A at \in {<<e>>} \cup (IF e \in ropen THEN {<<e, c>> : c \in 1 .. RChildren[e]} ELSE {}) :
    Down(at) # <<>> => Visible(Down(at)) /\ Up(Down(at)) = at

=============================================================================
