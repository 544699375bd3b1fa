------------------------------ MODULE SearchBox ------------------------------
(***************************************************************************)
(* The search box of the documentation's pages (SearchBox and init_search  *)
(* in src/docs/documentation/html/search/search.js): one event at a time   *)
(* is handled, and between any two of them a timer may go off.             *)
(*                                                                         *)
(* The instance and its DOM elements are the record box.  A text is a      *)
(* sequence of characters in lower case.  A definition marked "Slip" is    *)
(* the next one with a mistake in it.                                      *)
(***************************************************************************)
EXTENDS Integers, Sequences, FiniteSets, SequencesExt

CONSTANTS
  Texts,      \* bound: what is typed
  Sections,   \* the number of sections, from 0 on, that can be searched
  Indexed,    \* the first characters each section has a results page for
  MaxTimers   \* bound: timers that run at the same time

searchLabel == <<"s", "Search">>   \* the "Search" of an empty box

ASSUME SearchBoxAssumption ==
  Sections \in Nat \ {0} /\ MaxTimers \in Nat

VARIABLES
  box,
  bfocus,   \* "field", "select" (a section's link), "results" or "page"
  bkey,     \* the key pressed in the field and not yet released
  bhover,   \* the mouse is over the magnifying glass or the sections
  bposted,  \* the message "take_focus" is on its way to the results
  bmissed   \* history: a key was pressed in the field and released elsewhere

bvars == <<box, bfocus, bkey, bhover, bposted, bmissed>>
userVars == <<bkey, bhover, bposted, bmissed>>

BInit ==
  /\ box = [value |-> searchLabel, searchActive |-> FALSE, active |-> FALSE,
            lastSearchValue |-> <<>>, searchIndex |-> 0, mark |-> 0,
            keyTimeout |-> 0, hideTimeout |-> 0, timers |-> {},
            results |-> FALSE, select |-> FALSE, location |-> <<>>]
  /\ bfocus = "page" /\ bkey = "none" /\ bhover = FALSE /\ bposted = FALSE
  /\ bmissed = FALSE

-----------------------------------------------------------------------------
(* Timers: id and what it will call.  Those given to clearTimeout may have  *)
(* gone off long ago.                                                       *)

UnusedId(b) ==
  LET used == {t[1] : t \in b.timers} \cup {b.keyTimeout, b.hideTimeout}
  IN CHOOSE i \in 1 .. MaxTimers + 3 : i \notin used
CanSet(b) == Cardinality(b.timers) < MaxTimers
Cleared(b, id) == [b EXCEPT !.timers = {t \in @ : t[1] # id}]

-----------------------------------------------------------------------------
(* Methods, from the box they find to the box they leave.                   *)

NoSpaces(text) ==
  FlattenSeq([i \in DOMAIN text |-> IF text[i] = " " THEN <<>> ELSE <<text[i]>>])

(* Nobody types the label itself.                                           *)
ASSUME TextsAssumption ==
  Texts \subseteq Seq(STRING) /\ \A t \in Texts : NoSpaces(t) # searchLabel

NoLeading(text) ==
  LET spaces == {i \in DOMAIN text : \A j \in 1 .. i : text[j] = " "}
  IN SubSeq(text, Cardinality(spaces) + 1, Len(text))

(* The page of results: indexOf('') is 0, the section's first.              *)
ResultsPage(section, text) ==
  IF text = <<>> THEN <<section, "first", text>>
  ELSE IF Head(text) \in Indexed[section] THEN <<section, Head(text), text>>
  ELSE <<"nomatches">>

(* Search: keyTimeout is forgotten, not cleared.  Behind the last section   *)
(* it throws before anything else is done.                                  *)
Throws(b) == b.searchIndex >= Sections
Search(b) ==
  LET text == NoLeading(b.value) IN
  IF Throws(b) THEN [b EXCEPT !.keyTimeout = 0]
  ELSE [b EXCEPT !.keyTimeout = 0, !.results = TRUE,
                 !.location = ResultsPage(b.searchIndex, text),
                 !.lastSearchValue = text]

Activate(b, isActive) ==
  CASE isActive \/ b.results ->
         [b EXCEPT !.active = TRUE,
                   !.searchActive = @ \/ b.value = searchLabel,
                   !.value = IF @ = searchLabel THEN <<>> ELSE @]
    [] OTHER ->
         [b EXCEPT !.active = FALSE, !.searchActive = FALSE,
                   !.value = searchLabel, !.lastSearchValue = <<>>]

(* The events blur and focus of the field come with the change of focus.    *)
Left(b, to) == IF bfocus = "field" /\ to # "field" THEN Activate(b, FALSE) ELSE b
Entered(b, to) == IF to = "field" /\ bfocus # "field" THEN Activate(b, TRUE) ELSE b
Focused(b, to) == Entered(Left(b, to), to)

CloseResultsWindow(b) == Activate([b EXCEPT !.results = FALSE], FALSE)

OnSearchSelectShow(b) ==
  LET shown == [b EXCEPT !.select = TRUE]
  IN IF b.hideTimeout = 0 THEN shown
     ELSE [Cleared(shown, b.hideTimeout) EXCEPT !.hideTimeout = 0]

OnSearchSelectHide(b) ==
  [b EXCEPT !.hideTimeout = UnusedId(b), !.timers = @ \cup {<<UnusedId(b), "hide">>}]

SearchWanted(b) == NoSpaces(b.value) # <<>> /\ b.searchActive

(* The links that init_search makes, and which of them gets the mark.       *)
Items == 0 .. Sections - 1
SelectItemCount == Cardinality(Items)
SelectItemSet(b, id) == [b EXCEPT !.mark = IF id \in Items THEN id ELSE -1]

(* Slip: no search if the text has not changed.                             *)
SelectIfChanged(b, id) ==
  LET chosen == [SelectItemSet(b, id) EXCEPT !.searchIndex = id]
  IN IF SearchWanted(b) /\ NoSpaces(b.value) # b.lastSearchValue THEN Search(chosen) ELSE chosen

OnSelectItem(b, id) ==
  LET chosen == [SelectItemSet(b, id) EXCEPT !.searchIndex = id]
  IN IF SearchWanted(b) THEN Search(chosen) ELSE chosen

(* The end of OnSearchFieldChange: what was typed is compared with what was *)
(* last searched for.                                                       *)
Compared(b) ==
  LET text == NoSpaces(b.value) IN
  CASE text = b.lastSearchValue -> b
    [] text # b.lastSearchValue /\ text # <<>> ->
         [b EXCEPT !.keyTimeout = UnusedId(b), !.timers = @ \cup {<<UnusedId(b), "search">>}]
    [] OTHER -> [b EXCEPT !.results = FALSE, !.lastSearchValue = <<>>]

(* Slip: the timer that was killed still looks as if it ran.                *)
KillKeepsId(b) == Cleared(b, b.keyTimeout)

KillRunning(b) ==
  IF b.keyTimeout = 0 THEN b ELSE [Cleared(b, b.keyTimeout) EXCEPT !.keyTimeout = 0]

-----------------------------------------------------------------------------
(* The field.                                                               *)

FocusTo(to) ==
  /\ bfocus # to
  /\ bfocus' = to
  /\ box' = Focused(box, to)
  /\ UNCHANGED userVars

Press(key) ==
  /\ bfocus = "field" /\ bkey = "none"
  /\ bkey' = key
  /\ IF key = "char" THEN \E text \in Texts : box' = [box EXCEPT !.value = text]
                     ELSE UNCHANGED box
  /\ UNCHANGED <<bfocus, bhover, bposted, bmissed>>

(* OnSearchFieldChange, when the key is released.                           *)
ReleaseChar ==
  /\ bfocus = "field" /\ bkey = "char"
  /\ box' = Compared(KillRunning(box))
  /\ bkey' = "none"
  /\ UNCHANGED <<bfocus, bhover, bposted, bmissed>>

(* Enter or Down.                                                           *)
ReleaseEnter ==
  /\ bfocus = "field" /\ bkey = "enter"
  /\ box' = Compared(KillRunning(box))
  /\ bposted' = TRUE
  /\ bkey' = "none"
  /\ UNCHANGED <<bfocus, bhover, bmissed>>

(* With Shift: the focus goes to the first section.                         *)
ReleaseShift ==
  /\ bfocus = "field" /\ bkey = "shift"
  /\ box' = Focused(OnSearchSelectShow(KillRunning(box)), "select")
  /\ bfocus' = "select"
  /\ bkey' = "none"
  /\ UNCHANGED <<bhover, bposted, bmissed>>

ReleaseEscape ==
  /\ bfocus = "field" /\ bkey = "escape"
  /\ box' = Activate([Focused(KillRunning(box), "page") EXCEPT
                        !.results = FALSE, !.lastSearchValue = <<>>], FALSE)
  /\ bfocus' = "page"
  /\ bkey' = "none"
  /\ UNCHANGED <<bhover, bposted, bmissed>>

(* The key is released where the focus has gone meanwhile.                  *)
ReleaseElsewhere ==
  /\ bfocus # "field" /\ bkey # "none"
  /\ bkey' = "none"
  /\ bmissed' = TRUE
  /\ UNCHANGED <<box, bfocus, bhover, bposted>>

Release == ReleaseChar \/ ReleaseEnter \/ ReleaseShift \/ ReleaseEscape \/ ReleaseElsewhere

-----------------------------------------------------------------------------
(* The sections.                                                            *)

MouseOver ==
  /\ ~bhover
  /\ bhover' = TRUE
  /\ box' = OnSearchSelectShow(box)
  /\ UNCHANGED <<bfocus, bkey, bposted, bmissed>>

MouseOut ==
  /\ bhover
  /\ bhover' = FALSE
  /\ box' = OnSearchSelectHide(box)
  /\ UNCHANGED <<bfocus, bkey, bposted, bmissed>>

(* A click on a section's link: it has the focus first.                     *)
ClickItem(id) ==
  /\ box.select /\ bhover
  /\ bfocus' = "select"
  /\ box' = OnSelectItem(Focused(box, "select"), id)
  /\ UNCHANGED userVars

(* OnSearchSelectKey.                                                       *)
SelectDown ==
  /\ bfocus = "select" /\ box.searchIndex < SelectItemCount
  /\ box' = OnSelectItem(box, box.searchIndex + 1)
  /\ UNCHANGED <<bfocus, userVars>>

SelectUp ==
  /\ bfocus = "select" /\ box.searchIndex > 0
  /\ box' = OnSelectItem(box, box.searchIndex - 1)
  /\ UNCHANGED <<bfocus, userVars>>

(* Enter or Escape, which is released in the field.                         *)
SelectDone ==
  LET chosen == OnSelectItem(box, box.searchIndex)
      thrown == SearchWanted(box) /\ Throws(box) IN
  /\ bfocus = "select" /\ bkey = "none"
  /\ IF thrown THEN box' = chosen /\ UNCHANGED <<bfocus, bkey>>
     ELSE /\ box' = Focused([chosen EXCEPT !.select = FALSE], "field")
          /\ bfocus' = "field"
          /\ bkey' \in {"enter", "escape"}
  /\ UNCHANGED <<bhover, bposted, bmissed>>

-----------------------------------------------------------------------------
(* The results.                                                             *)

TakeFocus ==
  /\ bposted
  /\ bposted' = FALSE
  /\ \/ UNCHANGED <<box, bfocus>>            \* nothing is found, or shown
     \/ /\ box.results /\ box.location # <<"nomatches">>
        /\ bfocus' = "results"
        /\ box' = Focused(box, "results")
  /\ UNCHANGED <<bkey, bhover, bmissed>>

(* Escape in a result, or Up in the first: released in the field.           *)
EscapeResults ==
  /\ bfocus = "results" /\ bkey = "none"
  /\ bfocus' = "field"
  /\ box' = Focused(CloseResultsWindow(box), "field")
  /\ bkey' = "escape"
  /\ UNCHANGED <<bhover, bposted, bmissed>>

UpFromResults ==
  /\ bfocus = "results" /\ bkey = "none"
  /\ bfocus' = "field"
  /\ box' = Focused(box, "field")
  /\ bkey' = "char"
  /\ UNCHANGED <<bhover, bposted, bmissed>>

ClickClose ==
  /\ box.results
  /\ bfocus' = "page"
  /\ box' = CloseResultsWindow(Focused(box, "page"))
  /\ UNCHANGED userVars

-----------------------------------------------------------------------------
(* A timer goes off.                                                        *)

SearchTimer ==
  \E t \in box.timers :
    /\ t[2] = "search"
    /\ box' = Search(Cleared(box, t[1]))
    /\ UNCHANGED <<bfocus, userVars>>

CloseSelectionWindow ==
  \E t \in box.timers :
    /\ t[2] = "hide"
    /\ box' = [Cleared(box, t[1]) EXCEPT !.select = FALSE]
    /\ UNCHANGED <<bfocus, userVars>>

BNext ==
  \/ /\ CanSet(box)
     /\ Release \/ MouseOut
  \/ \E to \in {"field", "results", "page"} : (to = "results" => box.results) /\ FocusTo(to)
  \/ \E key \in {"char", "enter", "shift", "escape"} : Press(key)
  \/ MouseOver
  \/ \E id \in Items : ClickItem(id)
  \/ SelectDown \/ SelectUp \/ SelectDone
  \/ TakeFocus \/ EscapeResults \/ UpFromResults \/ ClickClose
  \/ SearchTimer \/ CloseSelectionWindow

(* Timers go off.                                                           *)
BFairness == WF_bvars(SearchTimer) /\ WF_bvars(CloseSelectionWindow)

-----------------------------------------------------------------------------
(* Properties.                                                              *)

(* The results shown for the text in the field are those of the section     *)
(* that is marked, whichever of a click, a key and a timer came last        *)
(* (search.js:281-290, 330-393), if the field has seen each key released.   *)
BResultsCurrent ==
  /\ ~bmissed /\ box.results /\ box.searchActive /\ box.mark # -1
  /\ NoSpaces(box.value) # <<>> /\ NoSpaces(box.value) = NoSpaces(box.lastSearchValue)
  => box.location = ResultsPage(box.mark, box.lastSearchValue)

(* A text whose search is due is searched for, whatever timers were killed  *)
(* or forgotten before, unless the reader goes on typing or leaves the      *)
(* field (search.js:180-231): keyTimeout never names a timer that is gone.  *)
BTypedIsSearched ==
  \A text \in Texts :
    /\ bfocus = "field" /\ bkey = "none" /\ box.keyTimeout # 0 /\ box.value = text
    ~> bfocus # "field" \/ bkey # "none" \/ Throws(box) \/ box.lastSearchValue = NoLeading(text)

-----------------------------------------------------------------------------
(* What the repository says and the code does not do.                       *)

(* "directly remove the panel" (search.js:415): an inactive box shows no    *)
(* results.  Its timer is not stopped.                                      *)
BInactiveShowsNothing == box.active \/ ~box.results

(* "set item with index id as the active item" (search.js:280): there is    *)
(* one.                                                                     *)
BIndexIsItem == box.searchIndex < Sections
=============================================================================
