-------------------------------- MODULE Marks --------------------------------
(***************************************************************************)
(* What the documentation's pages show for a moment: the icon of a button  *)
(* that copies a listing (doxygen-awesome-fragment-copy-button.js), and    *)
(* the glow of what a link has led to (glowEffect in navtree.js).  Both    *)
(* may be asked for again before they are over.  The pages generated so    *)
(* far have no such buttons: DoxygenAwesomeFragmentCopyButton.init is for  *)
(* the header to call.                                                     *)
(*                                                                         *)
(* A listing is a sequence of nodes <<class, text>>, a text a sequence of  *)
(* characters, of which "n" is the newline.  A definition marked "Slip" is *)
(* the next one with a mistake in it.                                      *)
(***************************************************************************)
EXTENDS Integers, Sequences, SequencesExt

CONSTANTS
  Fragments,    \* the listings of a page
  MAnchors,     \* its anchors
  AnchorParent, \* what each is in: a class, or ":header", or anything else
  RowsOf,       \* the rows of the table that belong to an anchor, as cells
  MaxPending    \* bound: timers of a button or an element

ASSUME MarksAssumption ==
  Fragments \in Seq(Seq({"line", "lineno", "ttc"} \X Seq(STRING)))

VARIABLES
  mclipboard,   \* history: the listing copied, and the text in the clipboard
  mwrites,      \* calls of writeText that have not ended
  msuccess,     \* buttons with the class "success" and the icon of it
  mtimers,      \* timers of each button that have not run out
  mglow,        \* elements with the class "glow"
  mqueue        \* delays and removals in the queue of each element

mvars == <<mclipboard, mwrites, msuccess, mtimers, mglow, mqueue>>

-----------------------------------------------------------------------------
(* The buttons.                                                             *)

(* Without the line numbers and the tooltips.                               *)
TextContent(fragment) ==
  FlattenSeq([i \in DOMAIN fragment |-> IF fragment[i][1] \in {"lineno", "ttc"} THEN <<>> ELSE fragment[i][2]])

(* Slip: one newline at most.                                               *)
WithoutNewline(text) ==
  IF text # <<>> /\ Last(text) = "n" THEN Front(text) ELSE text

(* charAt is "" in front of the text, and the loop ends there.              *)
WithoutNewlines(text) ==
  LET keeps == {k \in DOMAIN text : text[k] # "n"} IN
  SubSeq(text, 1, IF keeps = {} THEN 0 ELSE CHOOSE k \in keeps : \A j \in keeps : j <= k)

copyContent(b) ==
  /\ mtimers[b] < MaxPending /\ Len(mwrites) < MaxPending
  /\ mwrites' = Append(mwrites, <<b, WithoutNewlines(TextContent(Fragments[b]))>>)
  /\ msuccess' = msuccess \cup {b}
  /\ mtimers' = [mtimers EXCEPT ![b] = @ + 1]
  /\ UNCHANGED <<mclipboard, mglow, mqueue>>

(* The browser may refuse to write: nobody asks.                            *)
WriteEnds ==
  /\ mwrites # <<>>
  /\ mwrites' = Tail(mwrites)
  /\ mclipboard' \in {mclipboard, Head(mwrites)}
  /\ UNCHANGED <<msuccess, mtimers, mglow, mqueue>>

SuccessOver(b) ==
  /\ mtimers[b] > 0
  /\ mtimers' = [mtimers EXCEPT ![b] = @ - 1]
  /\ msuccess' = msuccess \ {b}
  /\ UNCHANGED <<mclipboard, mwrites, mglow, mqueue>>

-----------------------------------------------------------------------------
(* The glow.  jQuery runs the entries of an element's queue one after the   *)
(* other; "sentinel" stands at its head until the entry calls next.         *)

(* What the heading, the row or the rows of an anchor are.                  *)
Marked(a) ==
  CASE AnchorParent[a] = "memItemLeft" -> RowsOf[a]
    [] AnchorParent[a] \in {"fieldname", "fieldtype"} -> {<<"row", a>>}
    [] AnchorParent[a] = ":header" -> {<<"header", a>>}
    [] OTHER -> {<<"next", a>>}
Elements == UNION {Marked(a) : a \in MAnchors}

glowEffect(elements) ==
  /\ \A n \in elements : Len(mqueue[n]) < 2 * MaxPending
  /\ mglow' = mglow \cup elements
  /\ mqueue' = [n \in Elements |-> IF n \in elements THEN mqueue[n] \o <<"delay", "removeClass">> ELSE mqueue[n]]

highlightAnchor(a) ==
  /\ glowEffect(Marked(a))
  /\ UNCHANGED <<mclipboard, mwrites, msuccess, mtimers>>

(* Slip: next is not called, and the queue stands.                          *)
GlowOverStuck(n) ==
  /\ mqueue[n] # <<>> /\ Head(mqueue[n]) = "delay"
  /\ mglow' = mglow \ {n}
  /\ mqueue' = [mqueue EXCEPT ![n] = <<"sentinel">> \o Tail(Tail(@))]
  /\ UNCHANGED <<mclipboard, mwrites, msuccess, mtimers>>

(* The delay has passed: the class goes, and the next delay begins.         *)
GlowOver(n) ==
  /\ mqueue[n] # <<>> /\ Head(mqueue[n]) = "delay"
  /\ mglow' = mglow \ {n}
  /\ mqueue' = [mqueue EXCEPT ![n] = Tail(Tail(@))]
  /\ UNCHANGED <<mclipboard, mwrites, msuccess, mtimers>>

-----------------------------------------------------------------------------

MInit ==
  /\ mclipboard = <<>> /\ mwrites = <<>>
  /\ msuccess = {} /\ mtimers = [b \in DOMAIN Fragments |-> 0]
  /\ mglow = {} /\ mqueue = [n \in Elements |-> <<>>]

Buttons == WriteEnds \/ \E b \in DOMAIN Fragments : copyContent(b) \/ SuccessOver(b)
Glow == (\E a \in MAnchors : highlightAnchor(a)) \/ (\E n \in Elements : GlowOver(n))

-----------------------------------------------------------------------------
(* Properties.                                                              *)

(* Whatever is clicked again before it is over, a mark always has a timer   *)
(* running that takes it away, so none is left on the page                  *)
(* (copy-button.js:76-82, navtree.js:288-292).                              *)
MMarkHasTimer ==
  /\ \A b \in msuccess : mtimers[b] > 0
  /\ \A n \in mglow : IsPrefix(<<"delay", "removeClass">>, mqueue[n])

(* What is pasted is the code of a listing as it stands there, from its     *)
(* first line to the last that is not empty (copy-button.js:62-75).         *)
MPastesCode ==
  mclipboard # <<>> =>
    LET fragment == Fragments[mclipboard[1]]
        all == FlattenSeq([i \in DOMAIN fragment |-> IF fragment[i][1] = "line" THEN fragment[i][2] ELSE <<>>])
        rest == SubSeq(all, Len(mclipboard[2]) + 1, Len(all))
    IN /\ IsPrefix(mclipboard[2], all)
       /\ \A i \in DOMAIN rest : rest[i] = "n"
       /\ mclipboard[2] # <<>> => Last(mclipboard[2]) # "n"
=============================================================================
