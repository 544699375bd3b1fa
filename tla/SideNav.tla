------------------------------- MODULE SideNav --------------------------------
(***************************************************************************)
(* The panel beside the documentation's pages (resize.js): its width, the  *)
(* margin the page leaves for it, and the cookie that remembers the width  *)
(* from page to page.  It is dragged, folded by a double click and folded  *)
(* or unfolded when the window becomes narrow or wide.                     *)
(*                                                                         *)
(* Widths are in pixels.  wpinned says that the style sheet                *)
(* doxygen-awesome-sidebar-only.css is there, which pins the panel of a    *)
(* wide window and hides that of a narrow one; without it the script works *)
(* with navtree.css, for which it was written.  A definition marked "Slip" *)
(* is the next one with a mistake in it.                                   *)
(***************************************************************************)
EXTENDS Integers

CONSTANTS
  Windows,   \* bound: the widths the window has
  Drags,     \* bound: the widths the panel is dragged to
  barWidth   \* of the bar beside the panel: 6, or 20 on a touch screen

desktop_vp == 768
StyleWidth == 435   \* of the panel, in both style sheets
none == -1          \* no cookie, or nothing dragged yet

ASSUME SideNavAssumption ==
  Windows \subseteq Nat \ {0} /\ Drags \subseteq Nat /\ barWidth \in Nat

VARIABLES
  wpanel,    \* the panel's width style, the page's margin, what is remembered
  wwindow,   \* the width of the window
  wpinned,
  wshown     \* history: the panel's width on the first page or last dragged to

wvars == <<wpanel, wwindow, wpinned, wshown>>

-----------------------------------------------------------------------------
(* Functions of the page, from the panel they find to the one they leave.   *)

Width(p, window) == IF wpinned /\ window >= desktop_vp THEN StyleWidth ELSE p.width

(* The style sheet that pins the panel leaves no room for the bar.          *)
OuterWidth(p, window) == Width(p, window) + (IF wpinned THEN 0 ELSE barWidth)

WriteCookie(p, width) == [p EXCEPT !.cookie = width]

ResizeWidth(p, window) ==
  [WriteCookie(p, OuterWidth(p, window) - barWidth) EXCEPT !.margin = OuterWidth(p, window)]

RestoreWidth(p, width) == [p EXCEPT !.margin = width + barWidth, !.width = width]

(* Slip: folding is remembered like dragging.                               *)
CollapseRemembered(p, window) ==
  IF Width(p, window) > 0 THEN [RestoreWidth(p, 0) EXCEPT !.collapsed = TRUE, !.cookie = 0]
  ELSE [RestoreWidth(p, IF p.cookie > 200 /\ p.cookie < window THEN p.cookie ELSE 200)
        EXCEPT !.collapsed = FALSE]

CollapseExpand(p, window) ==
  IF Width(p, window) > 0 THEN [RestoreWidth(p, 0) EXCEPT !.collapsed = TRUE]
  ELSE [RestoreWidth(p, IF p.cookie > 200 /\ p.cookie < window THEN p.cookie ELSE 200)
        EXCEPT !.collapsed = FALSE]

(* resizeHeight, which also fits the heights: collapsedWidth is the width   *)
(* of the window when it was last looked at.                                *)
ResizeHeight(p, window) ==
  LET narrowed == window < desktop_vp /\ p.collapsedWidth >= desktop_vp
      widened == window > desktop_vp /\ p.collapsedWidth < desktop_vp
      follows == (narrowed /\ ~p.collapsed) \/ (widened /\ p.collapsed)
  IN [IF follows THEN CollapseExpand(p, window) ELSE p EXCEPT !.collapsedWidth = window]

(* initResizable on a new page, which knows of the last one by the cookie.  *)
InitResizable(cookie, window) ==
  LET p == [width |-> StyleWidth, margin |-> 0, cookie |-> cookie,
            collapsed |-> FALSE, collapsedWidth |-> 0]
  IN ResizeHeight(IF cookie # none THEN RestoreWidth(p, cookie) ELSE ResizeWidth(p, window),
                  window)

-----------------------------------------------------------------------------
WInit ==
  /\ wpinned \in BOOLEAN /\ wwindow \in Windows
  /\ wpanel = InitResizable(none, wwindow)
  /\ wshown = StyleWidth

OnScreen == wpinned => wwindow >= desktop_vp

(* The reader drags the bar: the panel gets the width, if it may.           *)
Drag(width) ==
  /\ OnScreen /\ width < wwindow
  /\ wpanel' = ResizeWidth([wpanel EXCEPT !.width = width], wwindow)
  /\ wshown' = Width([wpanel EXCEPT !.width = width], wwindow)
  /\ UNCHANGED <<wwindow, wpinned>>

DoubleClick ==
  /\ OnScreen
  /\ wpanel' = CollapseExpand(wpanel, wwindow)
  /\ UNCHANGED <<wwindow, wpinned, wshown>>

ResizeWindow(width) ==
  /\ width # wwindow
  /\ wwindow' = width
  /\ wpanel' = ResizeHeight(wpanel, width)
  /\ UNCHANGED <<wpinned, wshown>>

NextPage ==
  /\ wpanel' = InitResizable(wpanel.cookie, wwindow)
  /\ UNCHANGED <<wwindow, wpinned, wshown>>

WNext ==
  \/ \E width \in Drags : Drag(width)
  \/ \E width \in Windows : ResizeWindow(width)
  \/ DoubleClick \/ NextPage

-----------------------------------------------------------------------------
(* Properties.                                                              *)

(* The page begins where the panel and its bar end, whichever of dragging,  *)
(* folding, a new page and a new window width came last (lines 59-72).      *)
WPageBesidePanel == ~wpinned => wpanel.margin = wpanel.width + barWidth

(* The next page has the panel as it was last dragged, however often it was *)
(* folded and the window changed since then (lines 48-65, 129-130).         *)
WDraggedIsKept == ~wpinned => InitResizable(wpanel.cookie, wwindow).width = wshown

(* A new width of the window folds or unfolds the panel only when it passes *)
(* desktop_vp (lines 82-94).                                                *)
WFoldsAtViewport ==
  [][wwindow' # wwindow /\ wpanel'.width # wpanel.width
     => \/ wwindow < desktop_vp /\ wwindow' > desktop_vp
        \/ wwindow >= desktop_vp /\ wwindow' < desktop_vp]_wvars

-----------------------------------------------------------------------------
(* What the repository says and the code does not do: a panel that is       *)
(* folded when the window narrows is there again when it widens (lines      *)
(* 84-91).  It is not if the window's width rests at desktop_vp, nor if the *)
(* panel was dragged meanwhile.                                             *)
WWideIsUnfolded == wwindow > desktop_vp => ~wpanel.collapsed
=============================================================================
