------------------------------ MODULE DocsProofs ------------------------------
(***************************************************************************)
(* Proofs about the scripts of the documentation's pages: the theme of the *)
(* tabs, the panel, the pin of the navigation tree and what is selected in *)
(* it, the directories and sections that are opened and closed, the search *)
(* box and the page of results, the marks that are shown for a moment.     *)
(* Each holds for every number of tabs, every width, every tree of links   *)
(* and every index of it, every directory, every text, every list of names *)
(* and every listing.                                                      *)
(***************************************************************************)
EXTENDS DarkMode, SideNav, DynSections, NavTree, SearchBox, SearchResults, Marks, DataLemmas

DSpec == DInit /\ [][DNext]_dvars
WSpec == WInit /\ [][WNext]_wvars
FSpec == FInit /\ [][FNext]_fvars
NSpec == NInit /\ [][NNext]_nvars
BSpec == BInit /\ [][BNext]_bvars
RSpec == RInit /\ [][RNext]_rvars
MSpec == MInit /\ [][Buttons \/ Glow]_mvars

-----------------------------------------------------------------------------
(* The theme.  A tab in front with nothing to handle shows what is chosen:  *)
(* whatever changes the choice is done in that tab, or leaves it an event.  *)

Pages == [open : BOOLEAN, darkModeEnabled : BOOLEAN, theme : BOOLEAN, button : BOOLEAN,
          icon : BOOLEAN, events : SUBSET {"change", "visibilitychange"}]

DTypes ==
  /\ dsystem \in BOOLEAN /\ doverride \in [BOOLEAN -> BOOLEAN]
  /\ dtab \in [Tabs -> Pages]

PageInv(t) ==
  /\ dfront = t => dtab[t].open
  /\ UpToDate(t) => dtab[t].theme = userPreference
  /\ dtab[t].darkModeEnabled = dtab[t].theme
  /\ dtab[t].button => dtab[t].icon = dtab[t].theme

DInv == DTypes /\ \A t \in Tabs : PageInv(t)

(* What the setter stores is what the getter then finds (lines 99-118).     *)
LEMMA StoredIsChosen ==
  ASSUME NEW s \in BOOLEAN, NEW o \in [BOOLEAN -> BOOLEAN], NEW p \in BOOLEAN
  PROVE  /\ Chosen(s, o) \in BOOLEAN
         /\ Chosen(s, [o EXCEPT ![s] = p # s]) = p
BY DEF Chosen

(* What the two functions of a page change, and what they keep.             *)
LEMMA EnableFacts ==
  ASSUME NEW p \in Pages, NEW e \in BOOLEAN
  PROVE  LET page == EnableDarkMode(p, e) IN
         /\ page \in Pages /\ page.open = p.open /\ page.events = p.events
         /\ page.button = p.button /\ page.theme = e /\ page.darkModeEnabled = e
BY DEF EnableDarkMode, Pages

LEMMA IconFacts ==
  ASSUME NEW p \in Pages
  PROVE  LET page == UpdateIcon(p) IN
         /\ page \in Pages /\ page.open = p.open /\ page.events = p.events
         /\ page.button = p.button /\ page.theme = p.theme
         /\ page.darkModeEnabled = p.darkModeEnabled
         /\ page.button => page.icon = page.darkModeEnabled
BY DEF UpdateIcon, Pages

LEMMA FreshFacts ==
  ASSUME NEW p \in Pages, NEW e \in BOOLEAN
  PROVE  LET page == UpdateIcon(EnableDarkMode(p, e)) IN
         /\ page \in Pages /\ page.open = p.open /\ page.theme = e
         /\ page.darkModeEnabled = e /\ (page.button => page.icon = e)
<1>. DEFINE enabled == EnableDarkMode(p, e)
            page == UpdateIcon(enabled)
<1>1. /\ enabled \in Pages /\ enabled.open = p.open
      /\ enabled.theme = e /\ enabled.darkModeEnabled = e
  BY EnableFacts
<1>. HIDE DEF enabled
<1>2. /\ page \in Pages /\ page.open = p.open /\ page.theme = e
      /\ page.darkModeEnabled = e /\ (page.button => page.icon = e)
  BY <1>1, IconFacts
<1>. QED  BY <1>2 DEF enabled

LEMMA DInitially == DInit => DInv
<1>. SUFFICES ASSUME DInit PROVE DInv
  OBVIOUS
<1>1. Closed \in Pages
  BY DEF Closed, Pages
<1>2. DTypes
  BY <1>1 DEF DInit, DTypes
<1>3. ASSUME NEW t \in Tabs PROVE PageInv(t)
  <2>1. dfront # t /\ dtab[t] = Closed
    BY DarkModeAssumption DEF DInit
  <2>2. Closed.darkModeEnabled = Closed.theme /\ ~Closed.button
    BY DEF Closed
  <2>. QED  BY <2>1, <2>2 DEF PageInv, UpToDate
<1>. QED  BY <1>2, <1>3 DEF DInv

(* A step that leaves the choice and the other tabs alone, by the page of   *)
(* one tab.                                                                 *)
LEMMA PageStep ==
  ASSUME DInv, NEW t \in Tabs, NEW page \in Pages, dtab' = [dtab EXCEPT ![t] = page],
         UNCHANGED <<dsystem, doverride>>,
         \A u \in Tabs \ {t} : dfront' = u => dfront = u,
         dfront' = t => page.open,
         dfront' = t /\ page.events = {} => page.theme = userPreference,
         page.darkModeEnabled = page.theme,
         page.button => page.icon = page.theme
  PROVE  DInv'
<1>1. DTypes'
  BY DEF DInv, DTypes
<1>2. userPreference' = userPreference
  BY DEF userPreference
<1>3. dtab'[t] = page
  BY DEF DInv, DTypes
<1>4. PageInv(t)'
  BY <1>2, <1>3 DEF PageInv, UpToDate
<1>5. ASSUME NEW u \in Tabs \ {t} PROVE PageInv(u)'
  <2>1. dtab'[u] = dtab[u]
    BY DEF DInv, DTypes
  <2>2. PageInv(u) /\ (dfront' = u => dfront = u)
    BY DEF DInv
  <2>. QED  BY <1>2, <2>1, <2>2 DEF PageInv, UpToDate
<1>. QED  BY <1>1, <1>4, <1>5 DEF DInv

LEMMA DStep == DInv /\ [DNext]_dvars => DInv'
<1>. SUFFICES ASSUME DInv, [DNext]_dvars PROVE DInv'
  OBVIOUS
<1>0. /\ dsystem \in BOOLEAN /\ doverride \in [BOOLEAN -> BOOLEAN]
      /\ dtab \in [Tabs -> Pages] /\ userPreference \in BOOLEAN
  BY StoredIsChosen DEF DInv, DTypes, userPreference
<1>1. ASSUME NEW t \in Tabs, LoadScript(t) PROVE DInv'
  <2>. DEFINE page == EnableDarkMode([Closed EXCEPT !.open = TRUE], userPreference)
  <2>1. /\ page \in Pages /\ page.open /\ ~page.button
        /\ page.theme = userPreference /\ page.darkModeEnabled = page.theme
    BY <1>0 DEF EnableDarkMode, Closed, Pages
  <2>. HIDE DEF page
  <2>. QED  BY <1>1, <2>1, PageStep DEF LoadScript, page
<1>2. ASSUME NEW t \in Tabs, DocumentReady(t) PROVE DInv'
  <2>. DEFINE made == [dtab[t] EXCEPT !.button = TRUE]
              page == UpdateIcon(made)
  <2>1. /\ made \in Pages /\ made.open = dtab[t].open /\ made.events = dtab[t].events
        /\ made.theme = dtab[t].theme /\ made.darkModeEnabled = dtab[t].darkModeEnabled
    BY <1>0 DEF Pages
  <2>2. /\ dfront = t => dtab[t].open
        /\ dfront = t /\ dtab[t].events = {} => dtab[t].theme = userPreference
        /\ dtab[t].darkModeEnabled = dtab[t].theme
    BY DEF DInv, PageInv, UpToDate
  <2>3. /\ dtab' = [dtab EXCEPT ![t] = page]
        /\ dsystem' = dsystem /\ doverride' = doverride /\ dfront' = dfront
    BY <1>2 DEF DocumentReady
  <2>. HIDE DEF made
  <2>4. /\ page \in Pages /\ page.open = dtab[t].open /\ page.events = dtab[t].events
        /\ page.theme = dtab[t].theme /\ page.darkModeEnabled = page.theme
        /\ page.button => page.icon = page.theme
    BY <2>1, <2>2, IconFacts
  <2>. HIDE DEF page
  <2>. QED  BY <2>2, <2>3, <2>4, PageStep
<1>3. ASSUME NEW t \in Tabs, ToggleDarkMode(t) PROVE DInv'
  <2>. DEFINE preference == ~userPreference
              page == UpdateIcon(EnableDarkMode(dtab[t], preference))
  <2>1. /\ page \in Pages /\ page.open = dtab[t].open /\ page.theme = preference
        /\ page.darkModeEnabled = preference /\ (page.button => page.icon = preference)
    BY <1>0, FreshFacts
  <2>2. /\ userPreference' = preference /\ doverride' \in [BOOLEAN -> BOOLEAN]
        /\ dtab' = [dtab EXCEPT ![t] = page] /\ UNCHANGED <<dsystem, dfront>> /\ dfront = t
    BY <1>0, <1>3, StoredIsChosen DEF ToggleDarkMode, Stored, userPreference
  <2>. HIDE DEF page, preference
  <2>3. DTypes'
    BY <1>0, <2>1, <2>2 DEF DTypes
  <2>4. ASSUME NEW u \in Tabs PROVE PageInv(u)'
    <3>1. CASE u = t
      <4>1. dtab'[u] = page /\ PageInv(t)
        BY <1>0, <2>2, <3>1 DEF DInv
      <4>. QED  BY <2>1, <2>2, <3>1, <4>1 DEF PageInv, UpToDate
    <3>2. CASE u # t
      <4>1. dtab'[u] = dtab[u] /\ PageInv(u)
        BY <1>0, <2>2, <3>2 DEF DInv
      <4>. QED  BY <2>2, <3>2, <4>1 DEF PageInv, UpToDate
    <3>. QED  BY <3>1, <3>2
  <2>. QED  BY <2>3, <2>4 DEF DInv
<1>4. ASSUME NEW t \in Tabs, Handle(t) PROVE DInv'
  <2>1. PICK event \in dtab[t].events :
          dtab' = [dtab EXCEPT ![t] =
                     IF event = "visibilitychange" /\ dfront # t
                     THEN [dtab[t] EXCEPT !.events = dtab[t].events \ {event}]
                     ELSE UpdateIcon(OnSystemPreferenceChanged(
                            [dtab[t] EXCEPT !.events = dtab[t].events \ {event}]))]
    BY <1>4 DEF Handle
  <2>2. PageInv(t) /\ UNCHANGED <<dsystem, doverride, dfront>>
    BY <1>4 DEF DInv, Handle
  <2>. DEFINE less == [dtab[t] EXCEPT !.events = dtab[t].events \ {event}]
              fresh == UpdateIcon(OnSystemPreferenceChanged(less))
  <2>3. less \in Pages
    BY <1>0 DEF Pages
  <2>4. CASE event = "visibilitychange" /\ dfront # t
    <3>1. dtab' = [dtab EXCEPT ![t] = less]
      BY <2>1, <2>4
    <3>2. /\ less.open = dtab[t].open /\ less.theme = dtab[t].theme /\ less.icon = dtab[t].icon
          /\ less.button = dtab[t].button /\ less.darkModeEnabled = dtab[t].darkModeEnabled
      BY <1>0 DEF Pages
    <3>. HIDE DEF less
    <3>. QED  BY <2>2, <2>3, <2>4, <3>1, <3>2, PageStep DEF PageInv
  <2>5. CASE ~(event = "visibilitychange" /\ dfront # t)
    <3>1. dtab' = [dtab EXCEPT ![t] = fresh]
      BY <2>1, <2>5
    <3>2. less.open = dtab[t].open
      BY <1>0 DEF Pages
    <3>. HIDE DEF less
    <3>3. /\ fresh \in Pages /\ fresh.open = dtab[t].open /\ fresh.theme = userPreference
          /\ fresh.darkModeEnabled = userPreference
          /\ (fresh.button => fresh.icon = userPreference)
      BY <1>0, <2>3, <3>2, FreshFacts DEF OnSystemPreferenceChanged
    <3>. HIDE DEF fresh
    <3>. QED  BY <2>2, <3>1, <3>3, PageStep DEF PageInv
  <2>. QED  BY <2>4, <2>5
<1>5. ASSUME SystemChange PROVE DInv'
  <2>1. ASSUME NEW t \in Tabs
        PROVE  /\ dtab'[t] \in Pages /\ dtab'[t].open = dtab[t].open
               /\ (dtab[t].open => dtab'[t].events # {})
               /\ dtab'[t].theme = dtab[t].theme /\ dtab'[t].icon = dtab[t].icon
               /\ dtab'[t].button = dtab[t].button
               /\ dtab'[t].darkModeEnabled = dtab[t].darkModeEnabled
    BY <1>0, <1>5 DEF SystemChange, Pages
  <2>2. DTypes'
    BY <1>0, <1>5, <2>1 DEF SystemChange, DTypes
  <2>3. ASSUME NEW t \in Tabs PROVE PageInv(t)'
    BY <1>5, <2>1 DEF SystemChange, DInv, PageInv, UpToDate
  <2>. QED  BY <2>2, <2>3 DEF DInv
<1>6. ASSUME NEW t \in Tabs, BringToFront(t) PROVE DInv'
  <2>. DEFINE page == [dtab[t] EXCEPT !.events = @ \cup {"visibilitychange"}]
  <2>1. /\ page \in Pages /\ page.open = dtab[t].open /\ page.events # {}
        /\ page.theme = dtab[t].theme /\ page.icon = dtab[t].icon
        /\ page.button = dtab[t].button /\ page.darkModeEnabled = dtab[t].darkModeEnabled
    BY <1>0 DEF Pages
  <2>2. dtab' = [dtab EXCEPT ![t] = page] /\ PageInv(t)
    BY <1>6 DEF BringToFront, DInv
  <2>. HIDE DEF page
  <2>. QED  BY <1>6, <2>1, <2>2, PageStep DEF BringToFront, PageInv
<1>7. ASSUME Minimise PROVE DInv'
  BY <1>7, DarkModeAssumption DEF Minimise, DInv, DTypes, PageInv, UpToDate, userPreference
<1>8. ASSUME NEW t \in Tabs, Close(t) PROVE DInv'
  <2>1. /\ Closed \in Pages /\ Closed.darkModeEnabled = Closed.theme /\ ~Closed.button
    BY DEF Closed, Pages
  <2>2. /\ dfront' # t /\ (\A u \in Tabs \ {t} : dfront' = u => dfront = u)
        /\ dtab' = [dtab EXCEPT ![t] = Closed] /\ UNCHANGED <<dsystem, doverride>>
    BY <1>8, DarkModeAssumption DEF Close
  <2>. QED  BY <2>1, <2>2, PageStep
<1>9. ASSUME UNCHANGED dvars PROVE DInv'
  BY <1>9 DEF dvars, DInv, DTypes, PageInv, UpToDate, userPreference
<1>. QED  BY <1>1, <1>2, <1>3, <1>4, <1>5, <1>6, <1>7, <1>8, <1>9 DEF DNext

(* The tab in front shows the theme that is chosen and its button the icon  *)
(* of that theme, however many tabs there are: what another tab stored is   *)
(* read when this one comes to the front (lines 43-55, 65-72).              *)
THEOREM ThemeIsChosen == DSpec => []DFrontIsChosen
<1>1. DInv => DFrontIsChosen
  BY DEF DInv, PageInv, DFrontIsChosen
<1>. QED  BY DInitially, DStep, <1>1, PTL DEF DSpec

(* A choice made under one preference of the system leaves the one made     *)
(* under the other alone (lines 104-118).                                   *)
THEOREM ChoicesApart == DSpec => DChoicesApart
<1>1. ASSUME DInv, [DNext]_dvars
      PROVE  [\A s \in BOOLEAN : doverride'[s] # doverride[s] => s = dsystem]_dvars
  BY <1>1 DEF DInv, DTypes, DNext, LoadScript, DocumentReady, ToggleDarkMode, Handle,
              SystemChange, BringToFront, Minimise, Close, Stored
<1>. QED  BY DInitially, DStep, <1>1, PTL DEF DSpec, DChoicesApart

-----------------------------------------------------------------------------
(* The panel.  What it was last dragged to is in the cookie from then on,   *)
(* for folding does not write it, and the width of the window when it was   *)
(* last looked at is the one it has.                                        *)

Panels == [width : Int, margin : Int, cookie : Int, collapsed : BOOLEAN,
           collapsedWidth : Nat]

WInv ==
  /\ wpanel \in Panels /\ wshown \in Nat /\ wwindow \in Nat /\ wpinned \in BOOLEAN
  /\ wpanel.collapsedWidth = wwindow
  /\ ~wpinned => wpanel.cookie = wshown /\ wpanel.margin = wpanel.width + barWidth

(* What the functions of the page do to a panel.                            *)
LEMMA RestoreFacts ==
  ASSUME NEW p \in Panels, NEW width \in Int
  PROVE  LET q == RestoreWidth(p, width) IN
         /\ q \in Panels /\ q.cookie = p.cookie /\ q.width = width /\ q.margin = width + barWidth
         /\ q.collapsed = p.collapsed /\ q.collapsedWidth = p.collapsedWidth
<1>1. width + barWidth \in Int
  BY SideNavAssumption
<1>. QED  BY <1>1 DEF RestoreWidth, Panels

LEMMA CollapseFacts ==
  ASSUME NEW p \in Panels, NEW w \in Nat
  PROVE  LET q == CollapseExpand(p, w) IN
         /\ q \in Panels /\ q.cookie = p.cookie
         /\ q.margin = q.width + barWidth /\ q.collapsedWidth = p.collapsedWidth
<1>1. CASE Width(p, w) > 0
  <2>. DEFINE q == RestoreWidth(p, 0)
  <2>1. CollapseExpand(p, w) = [q EXCEPT !.collapsed = TRUE]
    BY <1>1 DEF CollapseExpand
  <2>2. /\ q \in Panels /\ q.cookie = p.cookie /\ q.width = 0 /\ q.margin = 0 + barWidth
        /\ q.collapsedWidth = p.collapsedWidth
    <3>. 0 \in Int
      OBVIOUS
    <3>. QED  BY RestoreFacts
  <2>. HIDE DEF q
  <2>. QED  BY <2>1, <2>2 DEF Panels
<1>2. CASE ~(Width(p, w) > 0)
  <2>. DEFINE width == IF p.cookie > 200 /\ p.cookie < w THEN p.cookie ELSE 200
  <2>1. CollapseExpand(p, w) = [RestoreWidth(p, width) EXCEPT !.collapsed = FALSE]
    BY <1>2 DEF CollapseExpand
  <2>2. width \in Int
    BY DEF Panels
  <2>. HIDE DEF width
  <2>. DEFINE q == RestoreWidth(p, width)
  <2>3. /\ q \in Panels /\ q.cookie = p.cookie /\ q.margin = q.width + barWidth
        /\ q.collapsedWidth = p.collapsedWidth
    BY <2>2, RestoreFacts
  <2>4. CollapseExpand(p, w) = [q EXCEPT !.collapsed = FALSE]
    BY <2>1
  <2>. HIDE DEF q
  <2>. QED  BY <2>3, <2>4 DEF Panels
<1>. QED  BY <1>1, <1>2

LEMMA ResizeWidthFacts ==
  ASSUME NEW p \in Panels, NEW w \in Nat
  PROVE  LET q == ResizeWidth(p, w) IN
         /\ q \in Panels /\ q.width = p.width /\ q.collapsed = p.collapsed
         /\ q.collapsedWidth = p.collapsedWidth
         /\ ~wpinned => q.cookie = p.width /\ q.margin = p.width + barWidth
<1>1. /\ OuterWidth(p, w) \in Int /\ OuterWidth(p, w) - barWidth \in Int
      /\ ~wpinned => OuterWidth(p, w) = p.width + barWidth
  BY SideNavAssumption DEF OuterWidth, Width, Panels, StyleWidth
<1>2. p.width \in Int
  BY DEF Panels
<1>. DEFINE o == OuterWidth(p, w)
<1>3. ResizeWidth(p, w) = [[p EXCEPT !.cookie = o - barWidth] EXCEPT !.margin = o]
  BY DEF ResizeWidth, WriteCookie
<1>4. o \in Int /\ o - barWidth \in Int /\ (~wpinned => o = p.width + barWidth /\ o - barWidth = p.width)
  BY <1>1, <1>2, SideNavAssumption
<1>. HIDE DEF o
<1>. QED  BY <1>3, <1>4 DEF Panels

(* A panel is folded or unfolded only where its window passes desktop_vp,   *)
(* and then only if it was not on a new page.                               *)
LEMMA ResizeHeightFacts ==
  ASSUME NEW p \in Panels, NEW w \in Nat
  PROVE  LET q == ResizeHeight(p, w) IN
         /\ q \in Panels /\ q.cookie = p.cookie /\ q.collapsedWidth = w
         /\ \/ q.margin = p.margin /\ q.width = p.width
            \/ q.margin = q.width + barWidth
         /\ \/ q.width = p.width
            \/ w < desktop_vp /\ p.collapsedWidth >= desktop_vp
            \/ w > desktop_vp /\ p.collapsedWidth < desktop_vp /\ p.collapsed
<1>. DEFINE follows == \/ w < desktop_vp /\ p.collapsedWidth >= desktop_vp /\ ~p.collapsed
                       \/ w > desktop_vp /\ p.collapsedWidth < desktop_vp /\ p.collapsed
            mid == IF follows THEN CollapseExpand(p, w) ELSE p
<1>1. ResizeHeight(p, w) = [mid EXCEPT !.collapsedWidth = w]
  BY DEF ResizeHeight
<1>2. /\ mid \in Panels /\ mid.cookie = p.cookie
      /\ \/ mid.margin = p.margin /\ mid.width = p.width
         \/ mid.margin = mid.width + barWidth
      /\ ~follows => mid.width = p.width
  BY CollapseFacts
<1>3. mid \in Panels => /\ [mid EXCEPT !.collapsedWidth = w] \in Panels
                        /\ [mid EXCEPT !.collapsedWidth = w].collapsedWidth = w
                        /\ [mid EXCEPT !.collapsedWidth = w].cookie = mid.cookie
                        /\ [mid EXCEPT !.collapsedWidth = w].margin = mid.margin
                        /\ [mid EXCEPT !.collapsedWidth = w].width = mid.width
  BY DEF Panels
<1>4. p.collapsedWidth \in Nat /\ ResizeHeight(p, w).collapsedWidth = w
  BY <1>1, <1>2, <1>3 DEF Panels
<1>5. ~follows => mid = p
  OBVIOUS
<1>. HIDE DEF mid
<1>6. /\ ResizeHeight(p, w) \in Panels /\ ResizeHeight(p, w).cookie = p.cookie
      /\ ResizeHeight(p, w).width = mid.width /\ ResizeHeight(p, w).margin = mid.margin
  BY <1>1, <1>2, <1>3
<1>7. \/ ResizeHeight(p, w).margin = p.margin /\ ResizeHeight(p, w).width = p.width
      \/ ResizeHeight(p, w).margin = ResizeHeight(p, w).width + barWidth
  BY <1>2, <1>6
<1>8. ~follows => ResizeHeight(p, w).width = p.width
  BY <1>2, <1>6
<1>. QED  BY <1>4, <1>6, <1>7, <1>8

LEMMA InitResizableFacts ==
  ASSUME NEW cookie \in Int, NEW w \in Nat
  PROVE  LET q == InitResizable(cookie, w) IN
         /\ q \in Panels /\ q.collapsedWidth = w
         /\ ~wpinned => /\ q.margin = q.width + barWidth
                        /\ cookie = none => q.cookie = StyleWidth /\ q.width = StyleWidth
                        /\ cookie # none => q.cookie = cookie /\ q.width = cookie
<1>. DEFINE p == [width |-> StyleWidth, margin |-> 0, cookie |-> cookie,
                  collapsed |-> FALSE, collapsedWidth |-> 0]
            mid == IF cookie # none THEN RestoreWidth(p, cookie) ELSE ResizeWidth(p, w)
<1>1. /\ p \in Panels /\ p.width = StyleWidth /\ p.cookie = cookie
      /\ ~p.collapsed /\ p.collapsedWidth = 0
  BY DEF Panels, StyleWidth
<1>2. InitResizable(cookie, w) = ResizeHeight(mid, w)
  BY DEF InitResizable
<1>. HIDE DEF p
<1>3. /\ mid \in Panels /\ ~mid.collapsed /\ mid.collapsedWidth = 0
      /\ ~wpinned => /\ mid.margin = mid.width + barWidth
                     /\ cookie = none => mid.cookie = StyleWidth /\ mid.width = StyleWidth
                     /\ cookie # none => mid.cookie = cookie /\ mid.width = cookie
  <2>1. CASE cookie # none
    BY <1>1, <2>1, RestoreFacts DEF RestoreWidth, Panels
  <2>2. CASE cookie = none
    BY <1>1, <2>2, ResizeWidthFacts
  <2>. QED  BY <2>1, <2>2
<1>. HIDE DEF mid
<1>4. /\ ResizeHeight(mid, w).width = mid.width
      /\ ResizeHeight(mid, w).margin = mid.margin \/
            ResizeHeight(mid, w).margin = ResizeHeight(mid, w).width + barWidth
  BY <1>3, ResizeHeightFacts DEF desktop_vp
<1>. QED  BY <1>2, <1>3, <1>4, ResizeHeightFacts

LEMMA WInitially == WInit => WInv
<1>. SUFFICES ASSUME WInit PROVE WInv
  OBVIOUS
<1>1. wwindow \in Nat /\ none \in Int /\ StyleWidth \in Nat
  BY SideNavAssumption DEF WInit, none, StyleWidth
<1>. QED  BY <1>1, InitResizableFacts DEF WInit, WInv

LEMMA WStep == WInv /\ [WNext]_wvars => WInv'
<1>. SUFFICES ASSUME WInv, [WNext]_wvars PROVE WInv'
  OBVIOUS
<1>1. ASSUME NEW width \in Drags, Drag(width) PROVE WInv'
  <2>. DEFINE p == [wpanel EXCEPT !.width = width]
  <2>1. /\ width \in Nat /\ p \in Panels /\ p.width = width
        /\ p.collapsedWidth = wpanel.collapsedWidth
    BY SideNavAssumption DEF WInv, Panels
  <2>2. wpanel' = ResizeWidth(p, wwindow) /\ wshown' = Width(p, wwindow)
        /\ wwindow' = wwindow /\ wpinned' = wpinned
    BY <1>1 DEF Drag
  <2>. HIDE DEF p
  <2>3. Width(p, wwindow) \in Nat /\ (~wpinned => Width(p, wwindow) = width)
    BY <2>1 DEF Width, StyleWidth
  <2>4. wwindow \in Nat /\ wpinned \in BOOLEAN /\ wpanel.collapsedWidth = wwindow
    BY DEF WInv
  <2>5. /\ wpanel' \in Panels /\ wpanel'.width = width /\ wpanel'.collapsedWidth = wwindow
        /\ ~wpinned => wpanel'.cookie = width /\ wpanel'.margin = width + barWidth
    BY <2>1, <2>2, <2>4, ResizeWidthFacts
  <2>. QED  BY <2>2, <2>3, <2>4, <2>5 DEF WInv
<1>2. ASSUME NEW width \in Windows, ResizeWindow(width) PROVE WInv'
  <2>1. width \in Nat
    BY SideNavAssumption
  <2>. QED  BY <1>2, <2>1, ResizeHeightFacts DEF ResizeWindow, WInv
<1>3. ASSUME DoubleClick PROVE WInv'
  BY <1>3, CollapseFacts DEF DoubleClick, WInv
<1>4. ASSUME NextPage PROVE WInv'
  <2>1. wpanel.cookie \in Int /\ (~wpinned => wpanel.cookie # none)
    BY DEF WInv, Panels, none
  <2>. QED  BY <1>4, <2>1, InitResizableFacts DEF NextPage, WInv
<1>5. ASSUME UNCHANGED wvars PROVE WInv'
  BY <1>5 DEF wvars, WInv
<1>. QED  BY <1>1, <1>2, <1>3, <1>4, <1>5 DEF WNext

(* The page begins where the panel and its bar end, whatever came last      *)
(* (lines 59-72).                                                           *)
THEOREM PageBesidePanel == WSpec => []WPageBesidePanel
<1>1. WInv => WPageBesidePanel
  BY DEF WInv, WPageBesidePanel
<1>. QED  BY WInitially, WStep, <1>1, PTL DEF WSpec

(* The next page has the panel as it was last dragged, whatever the widths  *)
(* of the window and of the panel (lines 48-65, 129-130).                   *)
THEOREM DraggedIsKept == WSpec => []WDraggedIsKept
<1>1. WInv => WDraggedIsKept
  <2>. SUFFICES ASSUME WInv, ~wpinned PROVE InitResizable(wpanel.cookie, wwindow).width = wshown
    BY DEF WDraggedIsKept
  <2>1. wpanel.cookie \in Int /\ wpanel.cookie = wshown /\ wpanel.cookie # none /\ wwindow \in Nat
    BY DEF WInv, none
  <2>. QED  BY <2>1, InitResizableFacts
<1>. QED  BY WInitially, WStep, <1>1, PTL DEF WSpec

(* A new width of the window folds or unfolds the panel only where it       *)
(* passes desktop_vp (lines 82-94).                                         *)
THEOREM FoldsAtViewport == WSpec => WFoldsAtViewport
<1>. DEFINE Folds == wwindow' # wwindow /\ wpanel'.width # wpanel.width
                     => \/ wwindow < desktop_vp /\ wwindow' > desktop_vp
                        \/ wwindow >= desktop_vp /\ wwindow' < desktop_vp
<1>1. ASSUME WInv, [WNext]_wvars PROVE [Folds]_wvars
  <2>1. ASSUME NEW width \in Windows, ResizeWindow(width) PROVE Folds
    <3>1. width \in Nat /\ wpanel \in Panels /\ wpanel.collapsedWidth = wwindow
      BY <1>1, SideNavAssumption DEF WInv
    <3>. QED  BY <2>1, <3>1, ResizeHeightFacts DEF ResizeWindow
  <2>2. ASSUME UNCHANGED wwindow PROVE Folds
    BY <2>2
  <2>3. (\E width \in Windows : ResizeWindow(width)) \/ UNCHANGED wwindow
    BY <1>1 DEF WNext, Drag, DoubleClick, NextPage, wvars
  <2>. QED  BY <2>1, <2>2, <2>3
<1>. QED  BY WInitially, WStep, <1>1, PTL DEF WSpec, WFoldsAtViewport

-----------------------------------------------------------------------------
(* Directories and sections.  The parent of a row is the row without its    *)
(* last number, so no row has two, and what is below a row is below its     *)
(* parent.                                                                  *)

FRowsOK == [FRows -> [shown : BOOLEAN, open : BOOLEAN]]

FInv == frow \in FRowsOK /\ FTreeIsOpen

LEMMA RowFacts ==
  ASSUME NEW r \in FRows
  PROVE  /\ r \in Seq(Nat) /\ Len(r) \in Nat
         /\ Children(r) # {} => Append(r, 0) \in Children(r)
         /\ r \notin Children(r) /\ r \notin Below(r)
         /\ Children(r) \subseteq Below(r)
<1>1. r \in Seq(Nat) /\ Len(r) \in Nat
  BY DynSectionsAssumption
<1>2. ASSUME Children(r) # {} PROVE Append(r, 0) \in Children(r)
  <2>1. Append(r, 0) \in FRows
    BY <1>2, DynSectionsAssumption
  <2>2. Len(Append(r, 0)) = Len(r) + 1 /\ SubSeq(Append(r, 0), 1, Len(r)) = r
    BY <1>1
  <2>. QED  BY <2>1, <2>2 DEF Children
<1>3. r \notin Children(r) /\ r \notin Below(r)
  BY <1>1 DEF Children, Below
<1>4. ASSUME NEW c \in Children(r) PROVE c \in Below(r)
  <2>1. Len(c) \in Nat
    BY <1>4, DynSectionsAssumption DEF Children
  <2>. QED  BY <1>1, <1>4, <2>1 DEF Children, Below
<1>. QED  BY <1>1, <1>2, <1>3, <1>4

LEMMA OneParent ==
  ASSUME NEW r \in FRows, NEW q \in FRows, NEW c \in FRows, c \in Children(r), c \in Children(q)
  PROVE  r = q
<1>1. Len(r) \in Nat /\ Len(q) \in Nat
  BY RowFacts
<1>. QED  BY <1>1 DEF Children

LEMMA BelowParent ==
  ASSUME NEW q \in FRows, NEW r \in FRows, NEW c \in Children(r)
  PROVE  c \in Below(q) <=> r = q \/ r \in Below(q)
<1>1. /\ c \in FRows /\ c \in Seq(Nat) /\ r \in Seq(Nat) /\ q \in Seq(Nat)
      /\ Len(c) = Len(r) + 1 /\ SubSeq(c, 1, Len(r)) = r
      /\ Len(c) \in Nat /\ Len(r) \in Nat /\ Len(q) \in Nat
  BY RowFacts DEF Children
<1>2. ASSUME Len(q) <= Len(r) PROVE SubSeq(r, 1, Len(q)) = SubSeq(c, 1, Len(q))
  BY <1>1, <1>2
<1>3. SubSeq(r, 1, Len(r)) = r
  BY <1>1
<1>4. ASSUME c \in Below(q) PROVE r = q \/ r \in Below(q)
  <2>1. Len(q) <= Len(r) /\ SubSeq(c, 1, Len(q)) = q
    BY <1>1, <1>4 DEF Below
  <2>2. SubSeq(r, 1, Len(q)) = q
    BY <1>2, <2>1
  <2>3. CASE Len(q) = Len(r)
    BY <1>3, <2>2, <2>3
  <2>4. CASE Len(q) < Len(r)
    BY <2>2, <2>4 DEF Below
  <2>5. Len(q) = Len(r) \/ Len(q) < Len(r)
    <3>1. Len(q) \in Nat /\ Len(r) \in Nat
      BY <1>1
    <3>2. Len(q) <= Len(r)
      BY <2>1
    <3>. QED  BY <3>1, <3>2
  <2>. QED  BY <2>3, <2>4, <2>5, Zenon
<1>5. ASSUME r = q PROVE c \in Below(q)
  BY <1>5, RowFacts
<1>6. ASSUME r \in Below(q) PROVE c \in Below(q)
  <2>1. Len(q) < Len(r) /\ SubSeq(r, 1, Len(q)) = q
    BY <1>1, <1>6 DEF Below
  <2>2. SubSeq(c, 1, Len(q)) = q
    BY <1>1, <1>2, <2>1
  <2>. QED  BY <1>1, <2>1, <2>2 DEF Below
<1>. QED  BY <1>4, <1>5, <1>6

LEMMA FInitially == FInit => FInv
<1>. SUFFICES ASSUME FInit PROVE FInv
  OBVIOUS
<1>1. frow \in FRowsOK
  BY DEF FInit, FRowsOK
<1>2. \A r \in FRows : Children(r) \subseteq FRows
  BY DEF Children
<1>. QED  BY <1>1, <1>2 DEF FInit, FInv, FTreeIsOpen

(* Any of the three functions leaves the rows a tree.                       *)
LEMMA FStep == FInv /\ [FNext]_fvars => FInv'
<1>. SUFFICES ASSUME FInv, [FNext]_fvars PROVE FInv'
  OBVIOUS
<1>0. frow \in FRowsOK /\ \A r \in FRows : Children(r) \subseteq FRows
  BY DEF FInv, Children
<1>1. ASSUME NEW level \in {Len(r) : r \in FRows}, ToggleLevel(level) PROVE FInv'
  <2>1. level \in Nat /\ \A r \in FRows : Len(r) \in Nat
    BY RowFacts
  <2>2. ASSUME NEW r \in FRows
        PROVE  /\ frow'[r] \in [shown : BOOLEAN, open : BOOLEAN]
               /\ frow'[r].shown <=> Len(r) <= level
               /\ Len(r) <= level => (frow'[r].open <=> Len(r) < level)
    <3>1. frow'[r] = IF Len(r) <= level THEN [shown |-> TRUE, open |-> Len(r) < level]
                                       ELSE [frow[r] EXCEPT !.shown = FALSE]
      BY <1>1 DEF ToggleLevel, RowsBecome
    <3>2. CASE Len(r) < level
      <4>1. Len(r) <= level /\ (Len(r) < level) = TRUE
        BY <2>1, <3>2
      <4>2. frow'[r] = [shown |-> TRUE, open |-> TRUE]
        BY <3>1, <4>1, Zenon
      <4>. QED  BY <3>2, <4>1, <4>2
    <3>3. CASE Len(r) = level
      <4>1. Len(r) <= level /\ (Len(r) < level) = FALSE
        BY <2>1, <3>3
      <4>2. frow'[r] = [shown |-> TRUE, open |-> FALSE]
        BY <3>1, <4>1, Zenon
      <4>. QED  BY <3>3, <4>1, <4>2
    <3>4. CASE ~(Len(r) <= level)
      <4>1. frow'[r] = [frow[r] EXCEPT !.shown = FALSE]
        BY <3>1, <3>4, Zenon
      <4>. QED  BY <1>0, <3>4, <4>1 DEF FRowsOK
    <3>5. Len(r) < level \/ Len(r) = level \/ ~(Len(r) <= level)
      BY <2>1
    <3>. QED  BY <3>2, <3>3, <3>4, <3>5
  <2>3. frow' \in FRowsOK
    <3>1. frow' = [r \in FRows |-> frow'[r]]
      BY <1>1 DEF ToggleLevel, RowsBecome
    <3>. QED  BY <2>2, <3>1 DEF FRowsOK
  <2>4. ASSUME NEW r \in FRows, NEW c \in Children(r)
        PROVE  frow'[c].shown <=> frow'[r].shown /\ frow'[r].open
    <3>1. c \in FRows /\ Len(c) = Len(r) + 1
      BY DEF Children
    <3>2. /\ frow'[c].shown <=> Len(c) <= level
          /\ frow'[r].shown <=> Len(r) <= level
          /\ Len(r) <= level => (frow'[r].open <=> Len(r) < level)
      BY <2>2, <3>1
    <3>3. Len(c) <= level <=> Len(r) < level
      BY <2>1, <3>1
    <3>4. Len(r) < level => Len(r) <= level
      BY <2>1
    <3>. QED  BY <3>2, <3>3, <3>4, Zenon
  <2>. QED  BY <2>3, <2>4 DEF FInv, FTreeIsOpen
<1>2. ASSUME NEW q \in FRows, ToggleFolder(q) PROVE FInv'
  <2>. DEFINE first == Append(q, 0)
  <2>1. first \in Children(q) /\ first \in FRows /\ frow[q].shown
    BY <1>0, <1>2, RowFacts DEF ToggleFolder
  <2>2. frow[first].shown <=> frow[q].open
    BY <2>1 DEF FInv, FTreeIsOpen
  <2>3. CASE frow[first].shown
    <3>1. frow' = Hide(frow, q)
      BY <1>2, <2>3 DEF ToggleFolder, RowsBecome
    <3>2. frow' \in FRowsOK
      BY <1>0, <3>1 DEF Hide, FRowsOK
    <3>3. \A x \in FRows : /\ frow'[x].shown <=> frow[x].shown /\ x \notin Below(q)
                           /\ frow'[x].open <=> frow[x].open /\ x # q
      BY <1>0, <3>1, RowFacts DEF Hide, FRowsOK
    <3>4. ASSUME NEW r \in FRows, NEW c \in Children(r)
          PROVE  frow'[c].shown <=> frow'[r].shown /\ frow'[r].open
      <4>1. frow[c].shown <=> frow[r].shown /\ frow[r].open
        BY DEF FInv, FTreeIsOpen
      <4>2. c \in Below(q) <=> r = q \/ r \in Below(q)
        BY BelowParent
      <4>. QED  BY <1>0, <3>3, <4>1, <4>2
    <3>. QED  BY <3>2, <3>4 DEF FInv, FTreeIsOpen
  <2>4. CASE ~frow[first].shown
    <3>1. frow' = Show(frow, q)
      BY <1>2, <2>4 DEF ToggleFolder, RowsBecome
    <3>2. frow' \in FRowsOK
      BY <1>0, <3>1 DEF Show, FRowsOK
    <3>3. \A x \in FRows : /\ frow'[x].shown <=> frow[x].shown \/ x \in Children(q)
                           /\ frow'[x].open <=> x = q \/ (frow[x].open /\ x \notin Children(q))
      BY <1>0, <3>1, RowFacts DEF Show, FRowsOK
    <3>4. ASSUME NEW r \in FRows, NEW c \in Children(r)
          PROVE  frow'[c].shown <=> frow'[r].shown /\ frow'[r].open
      <4>1. /\ frow[c].shown <=> frow[r].shown /\ frow[r].open
            /\ r \in Children(q) => ~frow[r].shown
        BY <2>2, <2>4 DEF FInv, FTreeIsOpen
      <4>2. c \in Children(q) <=> r = q
        BY <1>0, OneParent
      <4>3. r = q => r \notin Children(q)
        BY RowFacts
      <4>. QED  BY <1>0, <2>1, <3>3, <4>1, <4>2, <4>3
    <3>. QED  BY <3>2, <3>4 DEF FInv, FTreeIsOpen
  <2>. QED  BY <2>3, <2>4
<1>3. ASSUME UNCHANGED frow PROVE FInv'
  BY <1>3 DEF FInv, FTreeIsOpen
<1>. QED  BY <1>1, <1>2, <1>3 DEF FNext, ToggleSection, fvars

(* The rows displayed are the tree, for every directory and whatever was    *)
(* opened, closed or asked for (lines 52-105).                              *)
THEOREM TreeIsOpen == FSpec => []FTreeIsOpen
<1>1. FInv => FTreeIsOpen
  BY DEF FInv
<1>. QED  BY FInitially, FStep, <1>1, PTL DEF FSpec

(* A section has the image that says whether it is displayed, and the path  *)
(* in front of its name is never cut (lines 31-42, 112-119).                *)
THEOREM ImageFits == FSpec => []FImageFits
<1>. DEFINE Section == [shown : BOOLEAN, image : [path : {PathLength}, name : {"open.png", "closed.png"}]]
            Sect == fsection \in [Foldables -> Section]
            Fits(x) == x.image = [path |-> PathLength, name |-> IF x.shown THEN "open.png" ELSE "closed.png"]
<1>1. FInit => Sect /\ FImageFits
  BY DEF FInit, FImageFits
<1>2. Sect /\ FImageFits /\ [FNext]_fvars => (Sect /\ FImageFits)'
  <2>. SUFFICES ASSUME Sect, FImageFits, [FNext]_fvars PROVE (Sect /\ FImageFits)'
    OBVIOUS
  <2>1. ASSUME NEW s \in Foldables, ToggleSection(s) PROVE (Sect /\ FImageFits)'
    <3>1. fsection[s].image = [path |-> PathLength, name |-> IF fsection[s].shown THEN "open.png"
                                                            ELSE "closed.png"]
      BY DEF FImageFits
    <3>2. Toggled(fsection[s]) \in Section /\ Fits(Toggled(fsection[s]))
      <4>1. CASE fsection[s].shown
        <5>1. fsection[s].image = [path |-> PathLength, name |-> "open.png"]
          BY <3>1, <4>1
        <5>2. Replaced(fsection[s].image, 8, "closed.png") = [path |-> PathLength, name |-> "closed.png"]
          BY <5>1 DEF Replaced, NameLength, PathLength
        <5>3. Toggled(fsection[s]) = [shown |-> FALSE, image |-> [path |-> PathLength, name |-> "closed.png"]]
          BY <4>1, <5>2 DEF Toggled
        <5>. QED  BY <5>3
      <4>2. CASE ~fsection[s].shown
        <5>1. fsection[s].image = [path |-> PathLength, name |-> "closed.png"]
          BY <3>1, <4>2
        <5>2. Replaced(fsection[s].image, 10, "open.png") = [path |-> PathLength, name |-> "open.png"]
          BY <5>1 DEF Replaced, NameLength, PathLength
        <5>3. Toggled(fsection[s]) = [shown |-> TRUE, image |-> [path |-> PathLength, name |-> "open.png"]]
          BY <4>2, <5>2 DEF Toggled
        <5>. QED  BY <5>3
      <4>. QED  BY <4>1, <4>2
    <3>3. fsection' = [fsection EXCEPT ![s] = Toggled(fsection[s])]
      BY <2>1 DEF ToggleSection
    <3>. HIDE DEF Section
    <3>4. ASSUME NEW x \in Foldables PROVE Fits(fsection'[x])
      <4>1. Fits(fsection[x])
        BY DEF FImageFits
      <4>. QED  BY <3>2, <3>3, <4>1
    <3>. QED  BY <3>2, <3>3, <3>4 DEF FImageFits
  <2>2. ASSUME UNCHANGED fsection PROVE (Sect /\ FImageFits)'
    BY <2>2 DEF FImageFits
  <2>. QED  BY <2>1, <2>2 DEF FNext, ToggleLevel, ToggleFolder, fvars
<1>. QED  BY <1>1, <1>2, PTL DEF FSpec

-----------------------------------------------------------------------------
(* The pin of the navigation tree: the class of the button, its image and   *)
(* the stored link change together, or with a page that is left.            *)

PinInv ==
  /\ nstorage \in BOOLEAN
  /\ ~nstorage => navpath = <<>> /\ nimage = "none"
  /\ readyTriggered /\ nstorage =>
       /\ nsync <=> navpath = <<>>
       /\ nimage = IF nsync THEN "sync_on" ELSE "sync_off"
  /\ ~readyTriggered => nsync

LEMMA NInitially == NInit => PinInv
BY DEF NInit, PinInv

LEMMA NStep == PinInv /\ [NNext]_nvars => PinInv'
<1>. SUFFICES ASSUME PinInv, [NNext]_nvars PROVE PinInv'
  OBVIOUS
<1>1. CASE Ready
  BY <1>1 DEF Ready, PinInv, placeVars, syncVars, showSync, cachedLink, localStorageSupported
<1>2. ASSUME UNCHANGED <<nstorage, navpath, nsync, nimage, readyTriggered>> PROVE PinInv'
  BY <1>2 DEF PinInv
<1>8. CASE Load
  BY <1>2, <1>8 DEF Load, placeVars, syncVars
<1>9. CASE ScriptArrives
  BY <1>2, <1>9 DEF ScriptArrives, Arrives, placeVars, syncVars
<1>10. CASE AnimationEnds
  BY <1>2, <1>10 DEF AnimationEnds, syncVars
<1>11. CASE UNCHANGED nvars
  BY <1>2, <1>11 DEF nvars
<1>3. ASSUME NEW hash, NewHash(hash) PROVE PinInv'
  BY <1>3 DEF NewHash, PinInv, syncVars
<1>4. ASSUME NEW n \in NNodes \ {<<>>}, ClickAnchor(n) PROVE PinInv'
  <2>1. NUrl[n] # <<>>
    <3>1. IsLink(NUrl[n])
      BY NavTreeAssumption
    <3>. QED  BY <3>1 DEF IsLink
  <2>2. /\ readyTriggered /\ UNCHANGED <<nstorage, nsync, nimage, readyTriggered>>
        /\ navpath' = IF ~nsync /\ nstorage THEN NUrl[n] ELSE navpath
    BY <1>4 DEF ClickAnchor, StoreLink, localStorageSupported, syncVars
  <2>. QED  BY <2>1, <2>2 DEF PinInv
<1>7. ASSUME NEW n \in NNodes \ {<<>>}, ClickArrow(n) PROVE PinInv'
  BY <1>2, <1>7 DEF ClickArrow, placeVars, syncVars
<1>5. CASE toggleSyncButton
  <2>1. Location # <<>>
    BY DEF Location
  <2>. QED  BY <1>5, <2>1 DEF toggleSyncButton, showSync, deleteLink, localStorageSupported, PinInv
<1>6. ASSUME NEW page, NEW hash, Leave(page, hash) PROVE PinInv'
  BY <1>6 DEF Leave, StoreLink, localStorageSupported, PinInv
<1>. QED  BY <1>1, <1>3, <1>4, <1>5, <1>6, <1>7, <1>8, <1>9, <1>10, <1>11 DEF NNext

(* The button says that the tree stays where it is exactly if a link is     *)
(* stored, whichever page stored or removed it (lines 74-95, 458-470,       *)
(* 504-513).                                                                *)
THEOREM PinIsShown == NSpec => []NPinIsShown
<1>1. PinInv => NPinIsShown
  BY DEF PinInv, NPinIsShown
<1>. QED  BY NInitially, NStep, <1>1, PTL DEF NSpec

-----------------------------------------------------------------------------
(* The selection of the navigation tree.  What a reader can ask for is a    *)
(* link that the index has, or one without a hash that the tree knows; and  *)
(* as long as nothing comes between, at most one script is under way: it is *)
(* the next on the way to the link last gone to.                            *)

(* Nothing in the tree has the hash of the link, or the index has the link. *)
Known(link) ==
  /\ IsLink(link)
  /\ link[2] # "" /\ (\E n \in NNodes : NUrl[n][2] = link[2]) => link \in DOMAIN NIndexed

LinksKnown ==
  /\ npage \in NPages
  /\ Known(<<npage, nhash>>) /\ Known(<<npage, nloadUrl>>)
  /\ nanimation = "none" \/ Known(<<npage, nanimation>>)
  /\ navpath = <<>> \/ Known(navpath)

NothingYet ==
  /\ ntarget = <<>> => nvisited = {} /\ nscripts = {} /\ nselected = {}
  /\ ~readyTriggered => ntarget = <<>> /\ nanimation = "none"
  /\ readyTriggered /\ loadTriggered => ntarget # <<>>

(* Only what belongs to the link is selected.                               *)
OnlyOf(link, selected) ==
  /\ selected \subseteq NNodes
  /\ \A n \in selected : \/ n = Place(link[1], link[2])
                         \/ link[2] # "" /\ NUrl[n][2] = link[2]

(* The callback goes on to the link, or there is something selected.        *)
GoesTo(link, crumbs, selected, callback) ==
  \/ /\ callback.what = "index"
     /\ callback.page = link[1] /\ callback.hash = link[2]
  \/ /\ callback.what = "show" /\ crumbs = Place(link[1], link[2])
     /\ callback.node \in Ancestors(crumbs) /\ callback.hash = link[2]
  \/ /\ callback.what = "retry" /\ crumbs = Place(link[1], link[2])
     /\ callback.node = NParent(crumbs) /\ callback.hash = link[2]
  \/ callback.what = "expand" /\ selected # {}

OnTheWay(link, crumbs, selected, scripts) ==
  /\ OnlyOf(link, selected)
  /\ \/ scripts = {} /\ selected # {}
     \/ \E script \in scripts : scripts = {script} /\ GoesTo(link, crumbs, selected, script[2])

SelectInv ==
  /\ LinksKnown /\ NothingYet
  /\ ntarget # <<>> /\ ~ndisturbed => Known(ntarget) /\ OnTheWay(ntarget, breadcrumbs, nselected, nscripts)

(* A set of numbers that has one has a least.                               *)
LEMMA LeastExists ==
  ASSUME NEW S \in SUBSET Nat, S # {}
  PROVE  \E k \in S : \A j \in S : k <= j
<1>. DEFINE Reached(m) == \A T \in SUBSET Nat :
              (\E j \in T : j <= m) => \E k \in T : \A j \in T : k <= j
            N == {m \in Nat : Reached(m)}
<1>1. 0 \in N
  <2>. SUFFICES ASSUME NEW T \in SUBSET Nat, NEW i \in T, i <= 0
                PROVE  \E k \in T : \A j \in T : k <= j
    OBVIOUS
  <2>1. i = 0
    OBVIOUS
  <2>. QED  BY <2>1
<1>2. ASSUME NEW m \in N PROVE m + 1 \in N
  <2>. SUFFICES ASSUME NEW T \in SUBSET Nat, NEW i \in T, i <= m + 1
                PROVE  \E k \in T : \A j \in T : k <= j
    OBVIOUS
  <2>1. CASE \E j \in T : j <= m
    BY <2>1
  <2>2. CASE ~\E j \in T : j <= m
    <3>1. \A j \in T : i <= j
      BY <2>2
    <3>. QED  BY <3>1
  <2>. QED  BY <2>1, <2>2
<1>3. N \in SUBSET Nat
  OBVIOUS
<1>4. N = Nat
  <2>. HIDE DEF N
  <2>. QED  BY <1>1, <1>2, <1>3, SetInduction
<1>5. PICK s \in S : TRUE
  OBVIOUS
<1>6. Reached(s)
  BY <1>4
<1>. QED  BY <1>5, <1>6

(* The place of a link is in the tree, and not above <<0>>; what is there   *)
(* has that link, or one without a hash.                                    *)
LEMMA PlaceFacts ==
  ASSUME NEW page, NEW hash
  PROVE  /\ Place(page, hash) \in NNodes /\ Place(page, hash) \in Seq(Nat)
         /\ Len(Place(page, hash)) \in Nat /\ Len(Place(page, hash)) >= 1
         /\ hash # "" /\ <<page, hash>> \in DOMAIN NIndexed => NUrl[Place(page, hash)] = <<page, hash>>
         /\ NUrl[Place(page, hash)] = <<page, hash>> \/ NUrl[Place(page, hash)][2] = ""
<1>. DEFINE P == Place(page, hash)
<1>1. ASSUME NEW s \in Seq(Nat)
      PROVE  <<0>> \o s \in Seq(Nat) /\ Len(<<0>> \o s) \in Nat /\ Len(<<0>> \o s) >= 1
  <2>1. <<0>> \in Seq(Nat) /\ Len(<<0>>) = 1
    OBVIOUS
  <2>2. <<0>> \o s \in Seq(Nat) /\ Len(<<0>> \o s) = 1 + Len(s)
    BY <2>1, ConcatProperties
  <2>. QED  BY <2>2
<1>2. CASE <<page, hash>> \in DOMAIN NIndexed
  <2>1. P = <<0>> \o NIndexed[<<page, hash>>]
    BY <1>2 DEF Place
  <2>2. /\ NIndexed[<<page, hash>>] \in Seq(Nat) /\ P \in NNodes
        /\ NUrl[P] = <<page, hash>> \/ (<<page, hash>>[2] = "" /\ NUrl[P][2] = "")
    BY <1>2, <2>1, NavTreeAssumption
  <2>3. <<page, hash>>[2] = hash
    OBVIOUS
  <2>. HIDE DEF P
  <2>4. P \in Seq(Nat) /\ Len(P) \in Nat /\ Len(P) >= 1
    BY <1>1, <2>1, <2>2
  <2>5. hash # "" => NUrl[P] = <<page, hash>>
    BY <2>2, <2>3
  <2>6. NUrl[P] = <<page, hash>> \/ NUrl[P][2] = ""
    BY <2>2
  <2>. QED  BY <2>2, <2>4, <2>5, <2>6 DEF P
<1>3. CASE <<page, hash>> \notin DOMAIN NIndexed /\ <<page, "">> \in DOMAIN NIndexed
  <2>1. P = <<0>> \o NIndexed[<<page, "">>]
    BY <1>3 DEF Place
  <2>2. /\ NIndexed[<<page, "">>] \in Seq(Nat) /\ P \in NNodes
        /\ NUrl[P] = <<page, "">> \/ NUrl[P][2] = ""
    BY <1>3, <2>1, NavTreeAssumption
  <2>. HIDE DEF P
  <2>5. <<page, "">>[2] = ""
    OBVIOUS
  <2>3. NUrl[P][2] = ""
    BY <2>2, <2>5, Zenon
  <2>4. P \in Seq(Nat) /\ Len(P) \in Nat /\ Len(P) >= 1
    BY <1>1, <2>1, <2>2
  <2>. QED  BY <1>3, <2>2, <2>3, <2>4 DEF P
<1>4. CASE <<page, hash>> \notin DOMAIN NIndexed /\ <<page, "">> \notin DOMAIN NIndexed
  <2>1. P = <<0>> \o <<>>
    BY <1>4 DEF Place
  <2>2. <<0>> \o <<>> = <<0>>
    OBVIOUS
  <2>3. P = <<0>>
    BY <2>1, <2>2
  <2>. HIDE DEF P
  <2>4. P \in NNodes /\ NUrl[P][2] = ""
    BY <2>3, NavTreeAssumption
  <2>5. P \in Seq(Nat) /\ Len(P) \in Nat /\ Len(P) >= 1
    BY <2>3
  <2>. QED  BY <1>4, <2>4, <2>5 DEF P
<1>. QED  BY <1>2, <1>3, <1>4

(* What is above a node is in the tree, and has children.                   *)
LEMMA AboveFacts ==
  ASSUME NEW to \in NNodes, NEW k \in 0 .. Len(to) - 1
  PROVE  SubSeq(to, 1, k) \in NNodes /\ HasChildren(SubSeq(to, 1, k))
<1>. DEFINE child == SubSeq(to, 1, k + 1)
<1>1. to \in Seq(Nat) /\ Len(to) \in Nat
  <2>1. NNodes \subseteq Seq(Nat)
    BY NavTreeAssumption
  <2>. QED  BY <2>1
<1>2. \A j \in 0 .. Len(to) - 1 : SubSeq(to, 1, j) \in NNodes
  BY NavTreeAssumption DEF Ancestors
<1>3. child \in NNodes
  <2>1. CASE k + 1 = Len(to)
    BY <1>1, <2>1, SubSeqFull
  <2>2. CASE k + 1 < Len(to)
    <3>1. k + 1 \in 0 .. Len(to) - 1
      BY <1>1, <2>2
    <3>. QED  BY <1>2, <3>1
  <2>. QED  BY <1>1, <2>1, <2>2
<1>4. child \in Seq(Nat) /\ Len(child) = k + 1
  <2>1. \A i \in 1 .. k + 1 : to[i] \in Nat
    BY <1>1
  <2>2. 1 \in Nat /\ k + 1 \in Nat /\ 1 <= k + 1
    BY <1>1
  <2>. QED  BY <1>1, <2>1, <2>2, SubSeqProperties
<1>5. child # <<>>
  <2>. HIDE DEF child
  <2>. QED  BY <1>1, <1>4
<1>6. NParent(child) = SubSeq(to, 1, k)
  <2>1. NParent(child) = SubSeq(child, 1, k)
    <3>. HIDE DEF child
    <3>1. Len(child) - 1 = k
      BY <1>1, <1>4
    <3>. QED  BY <3>1 DEF NParent
  <2>2. SubSeq(child, 1, k) = SubSeq(to, 1, k)
    OBVIOUS
  <2>. QED  BY <2>1, <2>2
<1>7. HasChildren(SubSeq(to, 1, k))
  <2>. HIDE DEF child
  <2>. QED  BY <1>3, <1>5, <1>6 DEF HasChildren
<1>. QED  BY <1>2, <1>7

(* A tree is a record, and is still one when it has been changed.           *)
IsTree(t) ==
  t = [data |-> t.data, visited |-> t.visited, expanded |-> t.expanded,
       selected |-> t.selected, scripts |-> t.scripts]

LEMMA RecordTree ==
  ASSUME NEW d, NEW v, NEW e, NEW s, NEW c, NEW t,
         t = [data |-> d, visited |-> v, expanded |-> e, selected |-> s, scripts |-> c]
  PROVE  IsTree(t) /\ t.selected = s /\ t.scripts = c
BY DEF IsTree

LEMMA ShownTree ==
  ASSUME NEW t, IsTree(t), NEW nodes
  PROVE  /\ IsTree(GetAndShow(t, nodes))
         /\ GetAndShow(t, nodes).selected = t.selected
         /\ GetAndShow(t, nodes).scripts = t.scripts
<1>. DEFINE u == [t EXCEPT !.visited = t.visited \cup nodes]
            w == [u EXCEPT !.expanded = t.expanded \cup nodes]
<1>1. GetAndShow(t, nodes) = w
  BY DEF GetAndShow, IsTree
<1>2. u = [data |-> t.data, visited |-> t.visited \cup nodes, expanded |-> t.expanded,
           selected |-> t.selected, scripts |-> t.scripts]
  BY DEF IsTree
<1>3. w = [data |-> t.data, visited |-> t.visited \cup nodes, expanded |-> t.expanded \cup nodes,
           selected |-> t.selected, scripts |-> t.scripts]
  <2>. HIDE DEF u
  <2>. QED  BY <1>2
<1>. HIDE DEF w
<1>4. IsTree(w) /\ w.selected = t.selected /\ w.scripts = t.scripts
  BY <1>3, RecordTree
<1>. QED  BY <1>1, <1>4

LEMMA LoadedTree ==
  ASSUME NEW t, IsTree(t), NEW n
  PROVE  /\ IsTree(getData(t, n))
         /\ getData(t, n).selected = t.selected
         /\ getData(t, n).scripts = t.scripts
<1>1. getData(t, n) = [data |-> t.data \cup {n}, visited |-> t.visited, expanded |-> t.expanded,
                       selected |-> t.selected, scripts |-> t.scripts]
  BY DEF getData, IsTree
<1>. QED  BY <1>1, RecordTree

LEMMA SelectedTree ==
  ASSUME NEW t, IsTree(t), NEW new
  PROVE  /\ [t EXCEPT !.selected = @ \cup new].selected = t.selected \cup new
         /\ [t EXCEPT !.selected = @ \cup new].scripts = t.scripts
BY DEF IsTree

(* A script is loaded, and is the only one under way.                       *)
LEMMA OneScript ==
  ASSUME NEW t, IsTree(t), t.scripts = {}, NEW callback
  PROVE  /\ getScript(t, callback).selected = t.selected
         /\ \E k : getScript(t, callback).scripts = {<<k, callback>>}
<1>. DEFINE k == CHOOSE i \in 1 .. NMaxScripts + 5 : <<i, callback>> \notin t.scripts
            r == getScript(t, callback)
<1>1. r = [t EXCEPT !.scripts = @ \cup {<<k, callback>>}]
  BY DEF getScript
<1>. HIDE DEF k, r
<1>2. r.selected = t.selected /\ r.scripts = t.scripts \cup {<<k, callback>>}
  BY <1>1 DEF IsTree
<1>. QED  BY <1>2 DEF r

(* What is selected at the place of the link belongs to it.                 *)
LEMMA SelectFinds ==
  ASSUME NEW page, NEW hash, NEW t, IsTree(t), t.scripts = {}, OnlyOf(<<page, hash>>, t.selected),
         NEW n \in NNodes, n = Place(page, hash), n # <<>>
  PROVE  LET r == selectAndHighlight(t, hash, n)
         IN OnlyOf(<<page, hash>>, r.selected) /\ r.selected # {} /\ r.scripts = {}
<1>. DEFINE a == IF hash = "" THEN {} ELSE ItemsOf(t, hash)
            new == IF a # {} THEN a ELSE {n} \ {<<>>}
            r == selectAndHighlight(t, hash, n)
<1>1. r = [t EXCEPT !.selected = @ \cup new]
  BY DEF selectAndHighlight
<1>2. new # {} /\ new \subseteq NNodes
  BY DEF ItemsOf
<1>3. ASSUME NEW m \in new PROVE m = n \/ (hash # "" /\ NUrl[m][2] = hash)
  <2>1. m \in a \/ m = n
    OBVIOUS
  <2>2. ASSUME m \in a PROVE hash # "" /\ NUrl[m] = <<npage, hash>>
    BY <2>2 DEF ItemsOf
  <2>. HIDE DEF a, new
  <2>3. <<npage, hash>>[2] = hash
    OBVIOUS
  <2>. QED  BY <2>1, <2>2, <2>3, Zenon
<1>. HIDE DEF new, r
<1>4. r.selected = t.selected \cup new /\ r.scripts = {}
  BY <1>1, SelectedTree
<1>5. <<page, hash>>[1] = page /\ <<page, hash>>[2] = hash
  OBVIOUS
<1>6. OnlyOf(<<page, hash>>, t.selected \cup new)
  BY <1>2, <1>3, <1>5 DEF OnlyOf
<1>. QED  BY <1>2, <1>4, <1>6 DEF r

(* From a node above the place of the link, all nodes on the way have       *)
(* children: it goes on with one script, or something is selected.          *)
LEMMA ShowFinds ==
  ASSUME NEW page, NEW hash, NEW j \in 0 .. Len(Place(page, hash)) - 1,
         NEW t, IsTree(t), t.scripts = {}, OnlyOf(<<page, hash>>, t.selected)
  PROVE  LET to == Place(page, hash)
             r == showNode(t, SubSeq(to, 1, j), to, hash)
         IN OnTheWay(<<page, hash>>, to, r.selected, r.scripts)
<1>. DEFINE to == Place(page, hash)
            link == <<page, hash>>
            node == SubSeq(to, 1, j)
            place(k) == node \o SubSeq(to, Len(node) + 1, k)
            steps == Len(node) .. Len(to) - 1
            stops == {k \in steps : ~HasChildren(place(k)) \/ NeedsData(t, place(k))}
            stop == CHOOSE k \in stops : \A i \in stops : k <= i
            nodes == {place(k) : k \in {i \in steps : \A m \in stops : i < m}}
            shown == GetAndShow(t, nodes)
            r == showNode(t, node, to, hash)
<1>. SUFFICES OnTheWay(link, to, r.selected, r.scripts)
  OBVIOUS
<1>1. to \in NNodes /\ to \in Seq(Nat) /\ Len(to) \in Nat /\ Len(to) >= 1
  BY PlaceFacts
<1>0. j \in 0 .. Len(to) - 1
  OBVIOUS
<1>2. node \in Seq(Nat) /\ Len(node) = j
  <2>. HIDE DEF to
  <2>2. 1 \in Int /\ j \in Int /\ j >= 0 /\ j <= Len(to)
    BY <1>0, <1>1
  <2>1. \A i \in 1 .. j : to[i] \in Nat
    <3>1. \A i \in 1 .. j : i \in 1 .. Len(to)
      BY <1>1, <2>2
    <3>. QED  BY <1>1, <3>1
  <2>3. node \in Seq(Nat) /\ Len(node) = IF 1 <= j THEN j - 1 + 1 ELSE 0
    BY <2>1, <2>2, SubSeqProperties
  <2>. QED  BY <2>2, <2>3
<1>3. ASSUME NEW k \in j .. Len(to) PROVE place(k) = SubSeq(to, 1, k)
  <2>. HIDE DEF to
  <2>1. 1 \in 1 .. Len(to) + 1 /\ j \in 1 - 1 .. Len(to) /\ k \in j .. Len(to)
    BY <1>1
  <2>2. SubSeq(to, 1, j) \o SubSeq(to, j + 1, k) = SubSeq(to, 1, k)
    BY <1>1, <2>1, ConcatAdjacentSubSeq
  <2>. QED  BY <1>2, <2>2
<1>4. steps = j .. Len(to) - 1 /\ steps \subseteq 0 .. Len(to) - 1 /\ steps \subseteq j .. Len(to)
  <2>. HIDE DEF to, node
  <2>. QED  BY <1>1, <1>2
<1>5. ASSUME NEW k \in steps
      PROVE  place(k) = SubSeq(to, 1, k) /\ HasChildren(place(k)) /\ place(k) \in Ancestors(to)
  <2>. HIDE DEF to, node, place, steps
  <2>1. place(k) = SubSeq(to, 1, k)
    BY <1>3, <1>4
  <2>2. k \in 0 .. Len(to) - 1
    BY <1>4
  <2>3. HasChildren(SubSeq(to, 1, k))
    BY <1>1, <2>2, AboveFacts
  <2>. QED  BY <2>1, <2>2, <2>3 DEF Ancestors
<1>6. place(Len(to)) = to
  <2>. HIDE DEF to, node, place
  <2>1. place(Len(to)) = SubSeq(to, 1, Len(to))
    <3>1. Len(to) \in j .. Len(to)
      BY <1>0, <1>1
    <3>. QED  BY <1>3, <3>1
  <2>. QED  BY <1>1, <2>1, SubSeqFull
<1>7. IsTree(shown) /\ shown.selected = t.selected /\ shown.scripts = {}
  <2>. HIDE DEF nodes
  <2>. QED  BY ShownTree
<1>8. /\ stops = {} => r = ShowLast(shown, place(Len(to)), hash)
      /\ stops # {} /\ NeedsData(t, place(stop)) =>
           r = getScript(shown, [what |-> "show", node |-> place(stop), hash |-> hash])
  BY DEF showNode
<1>11. ASSUME NEW k \in stops
       PROVE  NeedsData(t, place(k)) /\ place(k) \in Ancestors(to) /\ k \in steps
  <2>. HIDE DEF place, to, node, steps
  <2>. QED  BY <1>5
<1>12. stops # {} => stop \in stops
  <2>1. stops \in SUBSET Nat
    <3>. HIDE DEF to, node, place
    <3>. QED  BY <1>1, <1>4
  <2>. HIDE DEF stops
  <2>2. stops # {} => \E k \in stops : \A i \in stops : k <= i
    BY <2>1, LeastExists
  <2>. QED  BY <2>2
<1>13. <<page, hash>>[1] = page /\ <<page, hash>>[2] = hash
  OBVIOUS
<1>. HIDE DEF shown, r, place, nodes, stops, stop, node, to, link, steps
<1>9. CASE stops = {}
  <2>1. r = ShowLast(shown, to, hash)
    BY <1>6, <1>8, <1>9
  <2>2. CASE NeedsData(shown, to)
    <3>. DEFINE callback == [what |-> "retry", node |-> NParent(to), load |-> to, hash |-> hash]
    <3>1. r = getScript(shown, callback)
      BY <1>1, <2>1, <2>2 DEF ShowLast
    <3>2. GoesTo(link, to, t.selected, callback)
      BY <1>13 DEF GoesTo, to, link
    <3>. HIDE DEF callback
    <3>3. r.selected = t.selected /\ \E k : r.scripts = {<<k, callback>>}
      BY <1>7, <3>1, OneScript
    <3>. QED  BY <3>2, <3>3 DEF OnTheWay, link
  <2>3. CASE ~NeedsData(shown, to)
    <3>1. r = selectAndHighlight(shown, hash, to)
      BY <1>1, <2>1, <2>3 DEF ShowLast
    <3>2. to = Place(page, hash) /\ to # <<>>
      BY <1>1 DEF to
    <3>3. OnlyOf(<<page, hash>>, r.selected) /\ r.selected # {} /\ r.scripts = {}
      BY <1>1, <1>7, <3>1, <3>2, SelectFinds
    <3>. QED  BY <3>3 DEF OnTheWay, link
  <2>. QED  BY <2>2, <2>3
<1>10. CASE stops # {}
  <2>. DEFINE callback == [what |-> "show", node |-> place(stop), hash |-> hash]
  <2>1. NeedsData(t, place(stop)) /\ place(stop) \in Ancestors(to)
    BY <1>10, <1>11, <1>12
  <2>2. r = getScript(shown, callback)
    BY <1>8, <1>10, <2>1
  <2>3. GoesTo(link, to, t.selected, callback)
    BY <1>13, <2>1 DEF GoesTo, to, link
  <2>. HIDE DEF callback
  <2>4. r.selected = t.selected /\ \E k : r.scripts = {<<k, callback>>}
    BY <1>7, <2>2, OneScript
  <2>. QED  BY <2>3, <2>4 DEF OnTheWay, link
<1>. QED  BY <1>9, <1>10

(* gotoNode goes on with one script, or selects something.                  *)
LEMMA GotoFinds ==
  ASSUME NEW page, NEW hash, NEW t, IsTree(t), t.scripts = {}, OnlyOf(<<page, hash>>, t.selected),
         gotoNode(t, page, hash)
  PROVE  OnTheWay(<<page, hash>>, breadcrumbs', nselected', nscripts')
<1>. DEFINE to == Place(page, hash)
            r == showNode(t, <<>>, to, hash)
<1>1. breadcrumbs' = to /\ nselected' = r.selected /\ nscripts' = r.scripts
  BY DEF gotoNode, Becomes
<1>2. SubSeq(to, 1, 0) = <<>>
  BY SubSeqEmpty
<1>3. 0 \in 0 .. Len(to) - 1
  <2>1. Len(to) \in Nat /\ Len(to) >= 1
    BY PlaceFacts
  <2>. HIDE DEF to
  <2>. QED  BY <2>1
<1>4. OnTheWay(<<page, hash>>, to, showNode(t, SubSeq(to, 1, 0), to, hash).selected,
               showNode(t, SubSeq(to, 1, 0), to, hash).scripts)
  <2>. HIDE DEF to
  <2>. QED  BY <1>3, ShowFinds DEF to
<1>. HIDE DEF to
<1>5. OnTheWay(<<page, hash>>, to, r.selected, r.scripts)
  BY <1>2, <1>4
<1>. QED  BY <1>1, <1>5

(* What is gone to is a link that the index has, or without a hash.         *)
LEMMA LinkIsKnown ==
  ASSUME NEW page, NEW hash, Known(<<page, hash>>), navpath = <<>> \/ Known(navpath)
  PROVE  Known(LinkOf(page, hash))
<1>. DEFINE link == IF cachedLink = <<>> THEN <<page, hash>> ELSE cachedLink
<1>1. Known(link)
  BY DEF cachedLink, localStorageSupported
<1>2. Known(<<link[1], "">>)
  <2>. HIDE DEF link
  <2>1. <<link[1], "">>[1] = link[1] /\ <<link[1], "">>[2] = ""
    OBVIOUS
  <2>. QED  BY <2>1, Zenon DEF Known, IsLink
<1>3. LinkOf(page, hash) = IF link[2] = "line" THEN <<link[1], "">> ELSE link
  BY DEF LinkOf
<1>. HIDE DEF link
<1>. QED  BY <1>1, <1>2, <1>3

(* The step leaves the tree on the way to a link, unless it disturbs one.   *)
Progress ==
  /\ ntarget' # <<>>
  /\ ~ndisturbed' => Known(ntarget') /\ OnTheWay(ntarget', breadcrumbs', nselected', nscripts')

(* navTo, from a tree in which nothing but the link is selected, if no      *)
(* script is under way.                                                     *)
LEMMA NavToProgress ==
  ASSUME NEW page, NEW hash, NEW stale \in BOOLEAN, NEW t, IsTree(t), t.scripts = nscripts,
         navTo(t, page, hash, stale), Known(LinkOf(page, hash)),
         ~ndisturbed /\ ~stale /\ nscripts = {} => OnlyOf(LinkOf(page, hash), t.selected)
  PROVE  Progress
<1>. DEFINE to == LinkOf(page, hash)
            file == NFile[to[1]]
            callback == [what |-> "index", file |-> file, page |-> to[1], hash |-> to[2]]
<1>1. /\ ntarget' = to
      /\ ~ndisturbed' => ~ndisturbed /\ ~stale /\ nscripts = {}
      /\ \/ gotoNode(t, to[1], to[2])
         \/ Becomes(getScript(t, callback))
  BY DEF navTo
<1>2. to = <<to[1], to[2]>>
  <2>. HIDE DEF to
  <2>. QED  BY DEF Known, IsLink, to
<1>. HIDE DEF to
<1>3. to # <<>>
  BY <1>2
<1>4. ASSUME ~ndisturbed' PROVE OnTheWay(to, breadcrumbs', nselected', nscripts')
  <2>1. nscripts = {} /\ t.scripts = {} /\ OnlyOf(to, t.selected)
    BY <1>1, <1>4 DEF to
  <2>2. CASE gotoNode(t, to[1], to[2])
    <3>1. OnlyOf(<<to[1], to[2]>>, t.selected)
      BY <1>2, <2>1
    <3>2. OnTheWay(<<to[1], to[2]>>, breadcrumbs', nselected', nscripts')
      BY <2>1, <2>2, <3>1, GotoFinds
    <3>. QED  BY <1>2, <3>2
  <2>3. CASE Becomes(getScript(t, callback))
    <3>1. GoesTo(to, breadcrumbs', t.selected, callback)
      BY DEF GoesTo
    <3>. HIDE DEF callback
    <3>2. /\ getScript(t, callback).selected = t.selected
          /\ \E k : getScript(t, callback).scripts = {<<k, callback>>}
      BY <2>1, OneScript
    <3>3. nselected' = t.selected /\ \E k : nscripts' = {<<k, callback>>}
      BY <2>3, <3>2 DEF Becomes
    <3>. QED  BY <2>1, <3>1, <3>3 DEF OnTheWay
  <2>. QED  BY <1>1, <2>2, <2>3
<1>. QED  BY <1>1, <1>3, <1>4 DEF Progress, to

(* What is selected for one link and has the other is selected for that     *)
(* too: with the hash of a link of the tree, the index has both.            *)
LEMMA KeptBelongs ==
  ASSUME NEW link, Known(link), NEW selected, OnlyOf(link, selected),
         NEW new, Known(new), new[2] # "", NEW m \in selected, NUrl[m] = new
  PROVE  OnlyOf(new, selected)
<1>. DEFINE P == Place(link[1], link[2])
<1>1. m \in NNodes /\ selected \subseteq NNodes /\ NUrl[m][2] = new[2]
  BY DEF OnlyOf
<1>2. link = <<link[1], link[2]>>
  BY DEF Known, IsLink
<1>3. /\ link[2] # "" /\ link \in DOMAIN NIndexed => NUrl[P] = link
      /\ NUrl[P] = link \/ NUrl[P][2] = ""
  BY <1>2, PlaceFacts
<1>. HIDE DEF P
<1>4. \A n \in selected : n = P \/ (link[2] # "" /\ NUrl[n][2] = link[2])
  BY DEF OnlyOf, P
<1>5. CASE m = P
  <2>1. link = new
    BY <1>1, <1>3, <1>5
  <2>. QED  BY <2>1
<1>6. CASE m # P
  <2>1. link[2] = new[2] /\ link \in DOMAIN NIndexed
    BY <1>1, <1>4, <1>6 DEF Known
  <2>2. \A n \in selected : NUrl[n][2] = new[2]
    BY <1>3, <1>4, <2>1
  <2>. QED  BY <1>1, <2>2 DEF OnlyOf
<1>. QED  BY <1>5, <1>6

LEMMA TreeIsRecord == IsTree(Tree) /\ Tree.selected = nselected /\ Tree.scripts = nscripts
<1>1. Tree = [data |-> ndata, visited |-> nvisited, expanded |-> nexpanded, selected |-> nselected,
              scripts |-> nscripts]
  BY DEF Tree
<1>. QED  BY <1>1, RecordTree

LEMMA DeselectedTree ==
  IsTree(Deselected(Tree)) /\ Deselected(Tree).selected = {} /\ Deselected(Tree).scripts = nscripts
<1>1. Deselected(Tree) = [data |-> ndata, visited |-> nvisited, expanded |-> nexpanded, selected |-> {},
                          scripts |-> nscripts]
  BY DEF Tree, Deselected
<1>. QED  BY <1>1, RecordTree

LEMMA NoneSelected == ASSUME NEW link PROVE OnlyOf(link, {})
BY DEF OnlyOf

(* From what is true before a step to what is after it.                     *)
LEMMA ProgressKeeps ==
  ASSUME Progress, LinksKnown', readyTriggered' PROVE SelectInv'
BY DEF Progress, SelectInv, NothingYet

LEMMA StillKeeps ==
  ASSUME SelectInv, LinksKnown', UNCHANGED <<ntree, breadcrumbs, ntarget, ndisturbed>>,
         ~readyTriggered' => ntarget = <<>> /\ nanimation' = "none",
         readyTriggered' /\ loadTriggered' => ntarget # <<>>
  PROVE  SelectInv'
<1>1. /\ ndata' = ndata /\ nvisited' = nvisited /\ nselected' = nselected /\ nscripts' = nscripts
      /\ breadcrumbs' = breadcrumbs /\ ntarget' = ntarget /\ ndisturbed' = ndisturbed
  BY DEF ntree
<1>. QED  BY <1>1 DEF SelectInv, NothingYet

(* initNavTree, and the event "load".                                       *)
LEMMA ReadySelects == SelectInv /\ Ready => SelectInv'
<1>. SUFFICES ASSUME SelectInv, Ready PROVE SelectInv'
  OBVIOUS
<1>1. /\ ~readyTriggered /\ readyTriggered' /\ ntarget = <<>> /\ nselected = {} /\ nanimation = "none"
      /\ npage' = npage /\ nhash' = nhash /\ navpath' = navpath /\ nanimation' = nanimation
      /\ loadTriggered' = loadTriggered
  BY DEF Ready, SelectInv, NothingYet, placeVars
<1>2. /\ npage \in NPages /\ Known(<<npage, nhash>>) /\ Known(<<npage, nloadUrl>>)
      /\ navpath = <<>> \/ Known(navpath)
  BY DEF SelectInv, LinksKnown
<1>3. nloadUrl' \in {nloadUrl, nhash}
  BY DEF Ready
<1>4. LinksKnown'
  BY <1>1, <1>2, <1>3 DEF LinksKnown
<1>5. CASE loadTriggered
  <2>1. navTo(Tree, npage, nhash, FALSE)
    BY <1>5 DEF Ready
  <2>2. Known(LinkOf(npage, nhash))
    BY <1>2, LinkIsKnown
  <2>3. OnlyOf(LinkOf(npage, nhash), Tree.selected)
    BY <1>1, TreeIsRecord, NoneSelected
  <2>4. Progress
    BY <2>1, <2>2, <2>3, TreeIsRecord, NavToProgress
  <2>. QED  BY <1>1, <1>4, <2>4, ProgressKeeps
<1>6. CASE ~loadTriggered
  <2>1. UNCHANGED <<ntree, breadcrumbs, ntarget, ndisturbed>>
    BY <1>6 DEF Ready
  <2>. QED  BY <1>1, <1>4, <1>6, <2>1, StillKeeps
<1>. QED  BY <1>5, <1>6

LEMMA LoadSelects == SelectInv /\ Load => SelectInv'
<1>. SUFFICES ASSUME SelectInv, Load PROVE SelectInv'
  OBVIOUS
<1>1. /\ readyTriggered' = readyTriggered /\ npage' = npage /\ nhash' = nhash /\ navpath' = navpath
      /\ nanimation' = nanimation /\ nloadUrl' = nloadUrl
  BY DEF Load, placeVars
<1>2. /\ Known(<<npage, nloadUrl>>)
      /\ navpath = <<>> \/ Known(navpath)
  BY DEF SelectInv, LinksKnown
<1>4. LinksKnown'
  BY <1>1 DEF LinksKnown, SelectInv
<1>5. CASE readyTriggered
  <2>. DEFINE to == LinkOf(npage, nloadUrl)
              stale == ntarget \notin {<<>>, to}
  <2>1. navTo(Tree, npage, nloadUrl, stale)
    BY <1>5 DEF Load
  <2>2. Known(to)
    BY <1>2, LinkIsKnown
  <2>3. ASSUME ~ndisturbed, ~stale PROVE OnlyOf(to, Tree.selected)
    <3>. HIDE DEF to
    <3>1. CASE ntarget = <<>>
      <4>1. nselected = {}
        BY <3>1 DEF SelectInv, NothingYet
      <4>. QED  BY <4>1, TreeIsRecord, NoneSelected
    <3>2. CASE ntarget # <<>>
      <4>1. ntarget = to /\ OnlyOf(ntarget, nselected)
        BY <2>3, <3>2 DEF SelectInv, OnTheWay
      <4>. QED  BY <4>1, TreeIsRecord
    <3>. QED  BY <3>1, <3>2
  <2>4. stale \in BOOLEAN
    OBVIOUS
  <2>. HIDE DEF stale
  <2>5. Progress
    BY <2>1, <2>2, <2>3, <2>4, TreeIsRecord, NavToProgress
  <2>. QED  BY <1>1, <1>4, <1>5, <2>5, ProgressKeeps
<1>6. CASE ~readyTriggered
  <2>1. UNCHANGED <<ntree, breadcrumbs, ntarget, ndisturbed>>
    BY <1>6 DEF Load
  <2>2. ntarget = <<>> /\ nanimation = "none"
    BY <1>6 DEF SelectInv, NothingYet
  <2>. QED  BY <1>1, <1>4, <1>6, <2>1, <2>2, StillKeeps
<1>. QED  BY <1>5, <1>6

(* The event "hashchange": what is kept is selected for the new link too.   *)
LEMMA HashChangeProgress ==
  ASSUME SelectInv, NEW hash, Known(<<npage, hash>>), HashChange(hash)
  PROVE  Progress \/ UNCHANGED <<ntree, breadcrumbs, ntarget, ndisturbed>>
<1>. DEFINE kept == hash # "" /\ ItemsOf(Tree, hash) \cap nselected # {}
            to == LinkOf(npage, hash)
            stale == kept /\ to # <<npage, hash>>
            t == IF kept THEN Tree ELSE Deselected(Tree)
<1>1. navTo(t, npage, hash, stale) \/ UNCHANGED <<ntree, breadcrumbs, ntarget, ndisturbed>>
  BY DEF HashChange
<1>2. IsTree(t) /\ t.scripts = nscripts /\ t.selected = IF kept THEN nselected ELSE {}
  <2>. HIDE DEF kept
  <2>. QED  BY TreeIsRecord, DeselectedTree
<1>3. Known(to)
  <2>1. navpath = <<>> \/ Known(navpath)
    BY DEF SelectInv, LinksKnown
  <2>. QED  BY <2>1, LinkIsKnown
<1>4. ASSUME ~ndisturbed, ~stale PROVE OnlyOf(to, t.selected)
  <2>1. CASE kept
    <3>1. PICK m \in nselected : NUrl[m] = <<npage, hash>>
      BY <2>1 DEF ItemsOf
    <3>2. to = <<npage, hash>> /\ to[2] # ""
      <4>1. to = <<npage, hash>> /\ hash # ""
        BY <1>4, <2>1
      <4>. HIDE DEF to
      <4>. QED  BY <4>1
    <3>3. ntarget # <<>>
      BY DEF SelectInv, NothingYet
    <3>4. Known(ntarget) /\ OnlyOf(ntarget, nselected)
      BY <1>4, <3>3 DEF SelectInv, OnTheWay
    <3>. HIDE DEF kept, t, to
    <3>5. NUrl[m] = to
      BY <3>1, <3>2
    <3>6. OnlyOf(to, nselected)
      BY <1>3, <3>2, <3>4, <3>5, KeptBelongs
    <3>. QED  BY <1>2, <2>1, <3>6
  <2>2. CASE ~kept
    <3>. HIDE DEF kept, t, to
    <3>. QED  BY <1>2, <2>2, NoneSelected
  <2>. QED  BY <2>1, <2>2
<1>5. stale \in BOOLEAN
  OBVIOUS
<1>. HIDE DEF kept, t, stale
<1>6. navTo(t, npage, hash, stale) => Progress
  BY <1>2, <1>3, <1>4, <1>5, NavToProgress
<1>. QED  BY <1>1, <1>6

(* A node is opened: its children, or their script first.                   *)
LEMMA ExpandFinds ==
  ASSUME NEW link, NEW crumbs, NEW n, NEW t, IsTree(t), t.scripts = {},
         OnlyOf(link, t.selected), t.selected # {}
  PROVE  OnTheWay(link, crumbs, expandNode(t, n).selected, expandNode(t, n).scripts)
<1>. DEFINE r == expandNode(t, n)
            callback == [what |-> "expand", node |-> n]
<1>1. r \in {t, getScript(t, callback), GetAndShow(t, {n})}
  BY DEF expandNode
<1>2. GoesTo(link, crumbs, t.selected, callback)
  BY DEF GoesTo
<1>. HIDE DEF r, callback
<1>3. CASE r = t
  BY <1>3 DEF OnTheWay, r
<1>4. CASE r = getScript(t, callback)
  <2>1. r.selected = t.selected /\ \E k : r.scripts = {<<k, callback>>}
    BY <1>4, OneScript
  <2>. QED  BY <1>2, <2>1 DEF OnTheWay, r
<1>5. CASE r = GetAndShow(t, {n})
  <2>1. r.selected = t.selected /\ r.scripts = {}
    BY <1>5, ShownTree
  <2>. QED  BY <2>1 DEF OnTheWay, r
<1>. QED  BY <1>1, <1>3, <1>4, <1>5

LEMMA FoldedTree ==
  ASSUME NEW t, IsTree(t), NEW n
  PROVE  LET u == [t EXCEPT !.expanded = @ \ {n}] IN
         IsTree(u) /\ u.selected = t.selected /\ u.scripts = t.scripts
<1>1. [t EXCEPT !.expanded = @ \ {n}] =
        [data |-> t.data, visited |-> t.visited, expanded |-> t.expanded \ {n},
         selected |-> t.selected, scripts |-> t.scripts]
  BY DEF IsTree
<1>. QED  BY <1>1, RecordTree

LEMMA ArrivedTree ==
  ASSUME NEW script
  PROVE  LET t == [Tree EXCEPT !.scripts = @ \ {script}] IN
         IsTree(t) /\ t.selected = nselected /\ t.scripts = nscripts \ {script}
<1>1. [Tree EXCEPT !.scripts = @ \ {script}] =
        [data |-> ndata, visited |-> nvisited, expanded |-> nexpanded,
         selected |-> nselected, scripts |-> nscripts \ {script}]
  BY DEF Tree
<1>. QED  BY <1>1, RecordTree

(* A script has been loaded: its callback goes on along the way.            *)
LEMMA ArrivesOnWay ==
  ASSUME NEW script \in nscripts, Arrives(script), nscripts = {script}, Known(ntarget),
         OnlyOf(ntarget, nselected), GoesTo(ntarget, breadcrumbs, nselected, script[2])
  PROVE  OnTheWay(ntarget, breadcrumbs', nselected', nscripts')
<1>. DEFINE t == [Tree EXCEPT !.scripts = @ \ {script}]
            callback == script[2]
            to == Place(ntarget[1], ntarget[2])
<1>1. IsTree(t) /\ t.selected = nselected /\ t.scripts = {}
  BY ArrivedTree
<1>2. ntarget = <<ntarget[1], ntarget[2]>>
  BY DEF Known, IsLink
<1>3. to \in Seq(Nat) /\ Len(to) \in Nat /\ Len(to) >= 1
  BY PlaceFacts
<1>4. ASSUME callback.what = "index" PROVE gotoNode(t, callback.page, callback.hash)
  BY <1>4 DEF Arrives
<1>5. ASSUME callback.what = "show"
      PROVE  /\ breadcrumbs' = breadcrumbs
             /\ Becomes(showNode(getData(t, callback.node), callback.node, breadcrumbs, callback.hash))
  BY <1>5 DEF Arrives
<1>6. ASSUME callback.what = "retry"
      PROVE  /\ breadcrumbs' = breadcrumbs
             /\ Becomes(showNode([getData(t, callback.load) EXCEPT !.expanded = @ \ {callback.node}],
                                 callback.node, breadcrumbs, callback.hash))
  BY <1>6 DEF Arrives
<1>7. ASSUME callback.what = "expand"
      PROVE  Becomes(expandNode(getData(t, callback.node), callback.node))
  BY <1>7 DEF Arrives
<1>. HIDE DEF t, to
<1>8. ASSUME NEW u, IsTree(u), u.selected = nselected, u.scripts = {}, NEW j \in 0 .. Len(to) - 1,
             breadcrumbs' = to, Becomes(showNode(u, SubSeq(to, 1, j), to, ntarget[2]))
      PROVE  OnTheWay(ntarget, breadcrumbs', nselected', nscripts')
  <2>. DEFINE r == showNode(u, SubSeq(to, 1, j), to, ntarget[2])
  <2>1. OnlyOf(<<ntarget[1], ntarget[2]>>, u.selected)
    BY <1>2, <1>8
  <2>2. OnTheWay(<<ntarget[1], ntarget[2]>>, to, r.selected, r.scripts)
    BY <1>8, <2>1, ShowFinds DEF to
  <2>3. nselected' = r.selected /\ nscripts' = r.scripts
    BY <1>8 DEF Becomes
  <2>. HIDE DEF r
  <2>. QED  BY <1>2, <1>8, <2>2, <2>3
<1>9. CASE callback.what = "index" /\ callback.page = ntarget[1] /\ callback.hash = ntarget[2]
  <2>1. gotoNode(t, ntarget[1], ntarget[2])
    BY <1>4, <1>9
  <2>2. OnlyOf(<<ntarget[1], ntarget[2]>>, t.selected)
    BY <1>1, <1>2
  <2>3. OnTheWay(<<ntarget[1], ntarget[2]>>, breadcrumbs', nselected', nscripts')
    BY <1>1, <2>1, <2>2, GotoFinds
  <2>. QED  BY <1>2, <2>3
<1>10. CASE /\ callback.what = "show" /\ breadcrumbs = to
            /\ callback.node \in Ancestors(breadcrumbs) /\ callback.hash = ntarget[2]
  <2>1. PICK j \in 0 .. Len(to) - 1 : callback.node = SubSeq(to, 1, j)
    BY <1>10 DEF Ancestors
  <2>. DEFINE u == getData(t, callback.node)
  <2>2. IsTree(u) /\ u.selected = nselected /\ u.scripts = {}
    BY <1>1, LoadedTree
  <2>. HIDE DEF u
  <2>3. Becomes(showNode(u, SubSeq(to, 1, j), to, ntarget[2])) /\ breadcrumbs' = to
    BY <1>5, <1>10, <2>1 DEF u
  <2>. QED  BY <1>8, <2>2, <2>3
<1>11. CASE /\ callback.what = "retry" /\ breadcrumbs = to
            /\ callback.node = NParent(breadcrumbs) /\ callback.hash = ntarget[2]
  <2>1. callback.node = SubSeq(to, 1, Len(to) - 1) /\ Len(to) - 1 \in 0 .. Len(to) - 1
    BY <1>3, <1>11 DEF NParent
  <2>. DEFINE w == getData(t, callback.load)
              u == [w EXCEPT !.expanded = @ \ {callback.node}]
  <2>2. IsTree(w) /\ w.selected = nselected /\ w.scripts = {}
    BY <1>1, LoadedTree
  <2>3. IsTree(u) /\ u.selected = nselected /\ u.scripts = {}
    <3>. HIDE DEF w
    <3>. QED  BY <2>2, FoldedTree
  <2>4. Becomes(showNode(u, callback.node, breadcrumbs, callback.hash)) /\ breadcrumbs' = breadcrumbs
    BY <1>6, <1>11
  <2>. HIDE DEF u
  <2>5. Becomes(showNode(u, SubSeq(to, 1, Len(to) - 1), to, ntarget[2])) /\ breadcrumbs' = to
    BY <1>11, <2>1, <2>4
  <2>. QED  BY <1>8, <2>1, <2>3, <2>5
<1>12. CASE callback.what = "expand" /\ nselected # {}
  <2>. DEFINE u == getData(t, callback.node)
              r == expandNode(u, callback.node)
  <2>1. IsTree(u) /\ u.selected = nselected /\ u.scripts = {}
    BY <1>1, LoadedTree
  <2>2. nselected' = r.selected /\ nscripts' = r.scripts
    BY <1>7, <1>12 DEF Becomes
  <2>. HIDE DEF u
  <2>3. OnTheWay(ntarget, breadcrumbs', r.selected, r.scripts)
    BY <1>12, <2>1, ExpandFinds
  <2>. HIDE DEF r
  <2>. QED  BY <2>2, <2>3
<1>. QED  BY <1>9, <1>10, <1>11, <1>12 DEF GoesTo, to

LEMMA ArrivesSelects == ASSUME SelectInv, NEW script \in nscripts, Arrives(script) PROVE SelectInv'
<1>1. /\ npage' = npage /\ nhash' = nhash /\ navpath' = navpath /\ nanimation' = nanimation
      /\ nloadUrl' = nloadUrl /\ readyTriggered' = readyTriggered /\ loadTriggered' = loadTriggered
      /\ ntarget' = ntarget /\ ndisturbed' = ndisturbed
  BY DEF Arrives, placeVars
<1>2. LinksKnown'
  BY <1>1 DEF LinksKnown, SelectInv
<1>3. ntarget # <<>> /\ readyTriggered
  BY DEF SelectInv, NothingYet
<1>4. ASSUME ~ndisturbed PROVE Known(ntarget) /\ OnTheWay(ntarget, breadcrumbs', nselected', nscripts')
  <2>1. Known(ntarget) /\ OnTheWay(ntarget, breadcrumbs, nselected, nscripts)
    BY <1>3, <1>4 DEF SelectInv
  <2>2. /\ OnlyOf(ntarget, nselected) /\ nscripts = {script}
        /\ GoesTo(ntarget, breadcrumbs, nselected, script[2])
    BY <2>1 DEF OnTheWay
  <2>. QED  BY <2>1, <2>2, ArrivesOnWay
<1>5. Progress
  BY <1>1, <1>3, <1>4 DEF Progress
<1>. QED  BY <1>1, <1>2, <1>3, <1>5, ProgressKeeps

(* A hash of the page, whether the tree has it or not.                      *)
LEMMA HashIsKnown ==
  ASSUME NEW page \in NPages, NEW hash \in NHashes[page] PROVE Known(<<page, hash>>)
<1>1. <<page, hash>>[1] = page /\ <<page, hash>>[2] = hash
  OBVIOUS
<1>2. hash # "" /\ (\E n \in NNodes : NUrl[n][2] = hash) => <<page, hash>> \in DOMAIN NIndexed
  BY NavTreeAssumption
<1>. QED  BY <1>1, <1>2 DEF Known, IsLink

LEMMA NodeIsKnown == ASSUME NEW n \in NNodes PROVE Known(NUrl[n])
<1>1. IsLink(NUrl[n]) /\ (NUrl[n][2] # "" => NUrl[n] \in DOMAIN NIndexed)
  BY NavTreeAssumption
<1>. QED  BY <1>1 DEF Known

LEMMA NewHashSelects == ASSUME SelectInv, NEW hash \in NHashes[npage], NewHash(hash) PROVE SelectInv'
<1>1. /\ npage' = npage /\ nhash' = hash /\ navpath' = navpath /\ nanimation' = nanimation
      /\ nloadUrl' = nloadUrl /\ readyTriggered' = readyTriggered /\ loadTriggered' = loadTriggered
  BY DEF NewHash, HashChange
<1>2. Known(<<npage, hash>>)
  BY HashIsKnown DEF SelectInv, LinksKnown
<1>3. LinksKnown'
  BY <1>1, <1>2 DEF LinksKnown, SelectInv
<1>4. CASE readyTriggered /\ Progress
  BY <1>1, <1>3, <1>4, ProgressKeeps
<1>5. CASE UNCHANGED <<ntree, breadcrumbs, ntarget, ndisturbed>>
  BY <1>1, <1>3, <1>5, StillKeeps DEF SelectInv, NothingYet
<1>6. readyTriggered => HashChange(hash)
  BY DEF NewHash
<1>7. ~readyTriggered => UNCHANGED <<ntree, breadcrumbs, ntarget, ndisturbed>>
  BY DEF NewHash
<1>. QED  BY <1>2, <1>4, <1>5, <1>6, <1>7, HashChangeProgress

LEMMA AnimationSelects == SelectInv /\ AnimationEnds => SelectInv'
<1>. SUFFICES ASSUME SelectInv, AnimationEnds PROVE SelectInv'
  OBVIOUS
<1>1. /\ npage' = npage /\ nhash' \in {nhash, nanimation} /\ navpath' = navpath /\ nanimation' = "none"
      /\ nloadUrl' = nloadUrl /\ readyTriggered' = readyTriggered /\ loadTriggered' = loadTriggered
      /\ nanimation # "none"
  BY DEF AnimationEnds, HashChange
<1>2. Known(<<npage, nanimation>>) /\ readyTriggered
  BY <1>1 DEF SelectInv, LinksKnown, NothingYet
<1>3. LinksKnown'
  BY <1>1, <1>2 DEF LinksKnown, SelectInv
<1>4. CASE Progress
  BY <1>1, <1>2, <1>3, <1>4, ProgressKeeps
<1>5. CASE UNCHANGED <<ntree, breadcrumbs, ntarget, ndisturbed>>
  BY <1>1, <1>2, <1>3, <1>5, StillKeeps DEF SelectInv, NothingYet
<1>6. HashChange(nanimation) \/ UNCHANGED <<ntree, breadcrumbs, ntarget, ndisturbed>>
  BY DEF AnimationEnds
<1>. QED  BY <1>2, <1>4, <1>5, <1>6, HashChangeProgress

(* A click on an item selects it, or leaves what is selected with it.       *)
LEMMA AnchorSelects ==
  ASSUME SelectInv, NEW n \in NNodes \ {<<>>}, ClickAnchor(n) PROVE SelectInv'
<1>. DEFINE link == NUrl[n]
<1>1. /\ npage' = npage /\ nhash' = nhash /\ navpath' \in {navpath, link}
      /\ nanimation' \in {nanimation, link[2]}
      /\ nloadUrl' = nloadUrl /\ readyTriggered' /\ loadTriggered' = loadTriggered
      /\ nscripts' = nscripts /\ breadcrumbs' = breadcrumbs /\ ntarget' = link
      /\ nselected' = (IF n \in nselected THEN nselected ELSE {n})
      /\ link[2] # "" /\ link[1] = npage
      /\ ~ndisturbed' => ~ndisturbed /\ nscripts = {}
  BY DEF ClickAnchor, StoreLink
<1>2. Known(link) /\ link = <<link[1], link[2]>>
  <2>. HIDE DEF link
  <2>1. Known(link)
    BY NodeIsKnown DEF link
  <2>. QED  BY <2>1 DEF Known, IsLink
<1>. HIDE DEF link
<1>3. link # <<>> /\ link = <<npage, link[2]>>
  <2>1. link # <<>>
    BY <1>2
  <2>2. link[1] = npage
    BY <1>1
  <2>. QED  BY <1>2, <2>1, <2>2, Zenon
<1>4. LinksKnown'
  BY <1>1, <1>2, <1>3 DEF LinksKnown, SelectInv
<1>5. ASSUME ~ndisturbed' PROVE OnlyOf(link, nselected')
  <2>1. CASE n \in nselected
    <3>1. ntarget # <<>>
      BY <2>1 DEF SelectInv, NothingYet
    <3>2. Known(ntarget) /\ OnlyOf(ntarget, nselected)
      BY <1>1, <1>5, <3>1 DEF SelectInv, OnTheWay
    <3>3. NUrl[n] = link
      BY DEF link
    <3>4. OnlyOf(link, nselected)
      BY <1>1, <1>2, <2>1, <3>2, <3>3, KeptBelongs
    <3>. QED  BY <1>1, <2>1, <3>4
  <2>2. CASE n \notin nselected
    <3>1. nselected' = {n}
      BY <1>1, <2>2
    <3>2. OnlyOf(link, {n})
      BY <1>1 DEF OnlyOf, link
    <3>. QED  BY <3>1, <3>2
  <2>. QED  BY <2>1, <2>2
<1>6. nselected' # {}
  BY <1>1
<1>7. Progress
  BY <1>1, <1>2, <1>3, <1>5, <1>6 DEF Progress, OnTheWay
<1>. QED  BY <1>1, <1>4, <1>7, ProgressKeeps

LEMMA ArrowSelects ==
  ASSUME SelectInv, NEW n \in NNodes \ {<<>>}, ClickArrow(n) PROVE SelectInv'
<1>1. /\ npage' = npage /\ nhash' = nhash /\ navpath' = navpath /\ nanimation' = nanimation
      /\ nloadUrl' = nloadUrl /\ readyTriggered' = readyTriggered /\ loadTriggered' = loadTriggered
      /\ breadcrumbs' = breadcrumbs /\ ntarget' = ntarget
      /\ ~ndisturbed' => ~ndisturbed /\ nscripts = {}
  BY DEF ClickArrow, placeVars
<1>2. LinksKnown'
  BY <1>1 DEF LinksKnown, SelectInv
<1>3. ntarget # <<>> /\ readyTriggered
  BY DEF SelectInv, NothingYet, ClickArrow, InPage, Tree
<1>4. \/ nselected' = nselected /\ nscripts' = nscripts
      \/ Becomes(expandNode(Tree, n))
  <2>1. CASE n \in nexpanded
    <3>1. Becomes([Tree EXCEPT !.expanded = @ \ {n}])
      BY <2>1 DEF ClickArrow
    <3>. DEFINE u == [Tree EXCEPT !.expanded = @ \ {n}]
    <3>2. u.selected = nselected /\ u.scripts = nscripts
      BY TreeIsRecord, FoldedTree
    <3>. QED  BY <3>1, <3>2 DEF Becomes
  <2>2. CASE n \notin nexpanded
    BY <2>2 DEF ClickArrow
  <2>. QED  BY <2>1, <2>2
<1>5. ASSUME ~ndisturbed' PROVE Known(ntarget) /\ OnTheWay(ntarget, breadcrumbs', nselected', nscripts')
  <2>1. Known(ntarget) /\ OnTheWay(ntarget, breadcrumbs, nselected, nscripts) /\ nscripts = {}
    BY <1>1, <1>3, <1>5 DEF SelectInv
  <2>2. OnlyOf(ntarget, nselected) /\ nselected # {}
    BY <2>1 DEF OnTheWay
  <2>3. CASE nselected' = nselected /\ nscripts' = nscripts
    BY <1>1, <2>1, <2>3
  <2>4. CASE Becomes(expandNode(Tree, n))
    <3>. DEFINE r == expandNode(Tree, n)
    <3>1. nselected' = r.selected /\ nscripts' = r.scripts
      BY <2>4 DEF Becomes
    <3>2. OnTheWay(ntarget, breadcrumbs', r.selected, r.scripts)
      BY <2>1, <2>2, TreeIsRecord, ExpandFinds
    <3>. HIDE DEF r
    <3>. QED  BY <2>1, <3>1, <3>2
  <2>. QED  BY <1>4, <2>3, <2>4
<1>6. Progress
  BY <1>1, <1>3, <1>5 DEF Progress
<1>. QED  BY <1>1, <1>2, <1>3, <1>6, ProgressKeeps

LEMMA ToggleSelects == SelectInv /\ toggleSyncButton => SelectInv'
<1>. SUFFICES ASSUME SelectInv, toggleSyncButton PROVE SelectInv'
  OBVIOUS
<1>1. /\ npage' = npage /\ nhash' = nhash /\ nanimation' = nanimation /\ nloadUrl' = nloadUrl
      /\ readyTriggered' = readyTriggered /\ loadTriggered' = loadTriggered
      /\ navpath' \in {<<>>, <<npage, nhash>>}
      /\ UNCHANGED <<ntree, breadcrumbs, ntarget, ndisturbed>>
  BY DEF toggleSyncButton, Location, deleteLink
<1>2. LinksKnown'
  BY <1>1 DEF LinksKnown, SelectInv
<1>. QED  BY <1>1, <1>2, StillKeeps DEF SelectInv, NothingYet

LEMMA LeaveSelects ==
  ASSUME SelectInv, NEW page \in NPages, NEW hash \in NHashes[page], Leave(page, hash) PROVE SelectInv'
<1>1. Known(<<page, hash>>)
  BY HashIsKnown
<1>2. Known(<<page, "">>)
  <2>1. <<page, "">>[1] = page /\ <<page, "">>[2] = ""
    OBVIOUS
  <2>. QED  BY <2>1 DEF Known, IsLink
<1>3. /\ npage' = page /\ nhash' = hash /\ navpath' \in {navpath, <<page, hash>>}
      /\ nloadUrl' = "" /\ nanimation' = "none" /\ ~readyTriggered'
      /\ nvisited' = {} /\ nselected' = {} /\ nscripts' = {} /\ ntarget' = <<>>
  BY DEF Leave, StoreLink
<1>4. LinksKnown'
  BY <1>1, <1>2, <1>3 DEF LinksKnown, SelectInv
<1>. QED  BY <1>3, <1>4 DEF SelectInv, NothingYet

LEMMA SelectInitially == NInit => SelectInv
<1>. SUFFICES ASSUME NInit PROVE SelectInv
  OBVIOUS
<1>1. npage \in NPages /\ nhash \in NHashes[npage] /\ nloadUrl = "" /\ nanimation = "none" /\ navpath = <<>>
  BY DEF NInit
<1>2. Known(<<npage, nhash>>)
  BY <1>1, HashIsKnown
<1>3. Known(<<npage, "">>)
  <2>1. <<npage, "">>[1] = npage /\ <<npage, "">>[2] = ""
    OBVIOUS
  <2>. QED  BY <2>1 DEF Known, IsLink
<1>4. LinksKnown
  BY <1>1, <1>2, <1>3 DEF LinksKnown
<1>5. NothingYet /\ ntarget = <<>>
  BY DEF NInit, NothingYet
<1>. QED  BY <1>4, <1>5 DEF SelectInv

LEMMA SelectStep == SelectInv /\ [NNext]_nvars => SelectInv'
<1>. SUFFICES ASSUME SelectInv, [NNext]_nvars PROVE SelectInv'
  OBVIOUS
<1>1. CASE ScriptArrives
  BY <1>1, ArrivesSelects DEF ScriptArrives
<1>2. CASE UNCHANGED nvars
  <2>1. /\ npage' = npage /\ nhash' = nhash /\ navpath' = navpath /\ nanimation' = nanimation
        /\ nloadUrl' = nloadUrl /\ readyTriggered' = readyTriggered /\ loadTriggered' = loadTriggered
        /\ UNCHANGED <<ntree, breadcrumbs, ntarget, ndisturbed>>
    BY <1>2 DEF nvars
  <2>2. LinksKnown'
    BY <2>1 DEF LinksKnown, SelectInv
  <2>. QED  BY <2>1, <2>2, StillKeeps DEF SelectInv, NothingYet
<1>. QED  BY <1>1, <1>2, ReadySelects, LoadSelects, AnimationSelects, NewHashSelects, AnchorSelects,
             ArrowSelects, ToggleSelects, LeaveSelects DEF NNext

(* When nothing is under way, something is selected, and only what belongs  *)
(* to the link that was last gone to, or was stored: whatever the tree, and *)
(* however it is cut into scripts (navtree.js:211-226, 316-375, 403-446,    *)
(* 513-541).                                                                *)
THEOREM TargetIsSelected == NSpec => []NTargetSelected
<1>1. SelectInv => NTargetSelected
  <2>. SUFFICES ASSUME SelectInv, NSettled PROVE nselected # {} /\ OnlyOf(ntarget, nselected)
    BY DEF NTargetSelected, OnlyOf
  <2>1. ntarget # <<>> /\ ~ndisturbed /\ nscripts = {}
    BY DEF NSettled, SelectInv, NothingYet
  <2>. QED  BY <2>1 DEF SelectInv, OnTheWay
<1>. QED  BY SelectInitially, SelectStep, <1>1, PTL DEF NSpec

-----------------------------------------------------------------------------
(* FlattenSeq, of sequences put one behind the other.                       *)

Flattens(parts, f) ==
  f[0] = <<>> /\ \A i \in 1 .. Len(parts) : f[i] = f[i - 1] \o parts[i]

(* FlattenSeq goes from part to part.                                       *)
LEMMA FlattenUnfolds ==
  ASSUME NEW B, NEW parts \in Seq(Seq(B))
  PROVE  \E f \in [0 .. Len(parts) -> Seq(B)] : Flattens(parts, f) /\ FlattenSeq(parts) = f[Len(parts)]
<1>. DEFINE T == Seq(B)
            n == Len(parts)
            flatten[i \in 1 .. n] ==
              IF i = 1 THEN parts[i] ELSE flatten[i - 1] \o parts[i]
            step == [p \in T \X Nat |-> IF p[2] \in 1 .. n THEN p[1] \o parts[p[2]] ELSE p[1]]
<1>1. n \in Nat /\ <<>> \in T /\ \A i \in 1 .. n : parts[i] \in T
  OBVIOUS
<1>2. \A q \in T, r \in T : q \o r \in T
  BY ConcatProperties
<1>3. step \in [T \X Nat -> T] /\ \A q \in T, j \in 1 .. n : step[<<q, j>>] = q \o parts[j]
  <2>. HIDE DEF T, n
  <2>1. ASSUME NEW p \in T \X Nat
        PROVE  (IF p[2] \in 1 .. n THEN p[1] \o parts[p[2]] ELSE p[1]) \in T
    <3>1. p[1] \in T
      OBVIOUS
    <3>. QED  BY <1>1, <1>2, <3>1
  <2>2. step \in [T \X Nat -> T]
    BY <2>1
  <2>3. ASSUME NEW q \in T, NEW j \in 1 .. n PROVE step[<<q, j>>] = q \o parts[j]
    <3>1. <<q, j>> \in T \X Nat
      BY <1>1
    <3>. QED  BY <3>1
  <2>. QED  BY <2>2, <2>3
<1>4. PICK h \in [0 .. n -> T] : h[0] = <<>> /\ \A i \in 1 .. n : h[i] = step[<<h[i - 1], i>>]
  <2>. HIDE DEF T, step, n
  <2>1. Recursion(T, <<>>, step, n) # {}
    BY <1>1, <1>3, RecursionExists
  <2>. QED  BY <2>1 DEF Recursion
<1>. HIDE DEF T, step, n
<1>5. Flattens(parts, h)
  <2>. SUFFICES ASSUME NEW i \in 1 .. n PROVE h[i] = h[i - 1] \o parts[i]
    BY <1>4 DEF Flattens, n
  <2>1. i - 1 \in 0 .. n
    BY <1>1
  <2>. QED  BY <1>3, <1>4, <2>1
<1>6. CASE n = 0
  <2>1. parts = <<>>
    BY <1>6 DEF n
  <2>2. FlattenSeq(parts) = <<>>
    BY <1>6, <2>1 DEF FlattenSeq, n
  <2>. QED  BY <1>4, <1>5, <1>6, <2>2 DEF n, T
<1>7. CASE n # 0
  <2>1. \A i \in 1 .. n : h[i] = IF i = 1 THEN parts[i] ELSE h[i - 1] \o parts[i]
    <3>. SUFFICES ASSUME NEW i \in 1 .. n PROVE i = 1 => h[i] = parts[i]
      BY <1>5 DEF Flattens, n
    <3>. SUFFICES 1 \in 1 .. n => h[1] = parts[1]
      OBVIOUS
    <3>1. 1 \in 1 .. n => h[1] = <<>> \o parts[1]
      <4>1. 1 - 1 = 0
        OBVIOUS
      <4>2. 1 \in 1 .. n => h[1] = h[1 - 1] \o parts[1]
        BY <1>5 DEF Flattens, n
      <4>. QED  BY <1>4, <4>1, <4>2
    <3>2. \A q \in T : <<>> \o q = q
      BY DEF T
    <3>. QED  BY <1>1, <3>1, <3>2
  <2>. DEFINE g == [i \in 1 .. n |-> h[i]]
  <2>2. g = [i \in 1 .. n |-> IF i = 1 THEN parts[i] ELSE g[i - 1] \o parts[i]]
    <3>1. \A i \in 1 .. n : i # 1 => i - 1 \in 1 .. n
      BY <1>1
    <3>2. \A i \in 1 .. n : g[i] = IF i = 1 THEN parts[i] ELSE g[i - 1] \o parts[i]
      BY <2>1, <3>1
    <3>3. g = [i \in 1 .. n |-> g[i]]
      OBVIOUS
    <3>. HIDE DEF g
    <3>. QED  BY <3>2, <3>3
  <2>3. flatten = CHOOSE k : k = [i \in 1 .. n |-> IF i = 1 THEN parts[i] ELSE k[i - 1] \o parts[i]]
    BY DEF flatten
  <2>4. FlattenSeq(parts) = flatten[n]
    BY <1>7, Zenon DEF FlattenSeq, n, flatten
  <2>. HIDE DEF flatten, g
  <2>5. flatten = [i \in 1 .. n |-> IF i = 1 THEN parts[i] ELSE flatten[i - 1] \o parts[i]]
    BY <2>2, <2>3, Zenon
  <2>6. \A i \in 1 .. n : flatten[i] = IF i = 1 THEN parts[i] ELSE flatten[i - 1] \o parts[i]
    BY <2>5
  <2>. DEFINE S == {k \in Nat : k + 1 <= n => flatten[k + 1] = h[k + 1]}
  <2>7. 0 \in S
    BY <1>1, <2>1, <2>6
  <2>8. ASSUME NEW k \in S PROVE k + 1 \in S
    <3>1. k + 1 + 1 <= n => k + 1 \in 1 .. n /\ k + 1 + 1 \in 1 .. n /\ (k + 1 + 1) - 1 = k + 1 /\ k + 1 + 1 # 1
      BY <1>1
    <3>. QED  BY <2>1, <2>6, <3>1
  <2>9. S = Nat
    <3>1. S \in SUBSET Nat
      OBVIOUS
    <3>. HIDE DEF S
    <3>. QED  BY <2>7, <2>8, <3>1, SetInduction
  <2>10. flatten[n] = h[n]
    <3>1. n - 1 \in Nat /\ (n - 1) + 1 = n
      BY <1>1, <1>7
    <3>. QED  BY <2>9, <3>1
  <2>. QED  BY <1>5, <2>4, <2>10 DEF n, T
<1>. QED  BY <1>6, <1>7

(* What is flattened has the elements of the parts.                         *)
LEMMA FlattenType ==
  ASSUME NEW B, NEW parts \in Seq(Seq(B))
  PROVE  FlattenSeq(parts) \in Seq(B)
<1>1. PICK f \in [0 .. Len(parts) -> Seq(B)] : FlattenSeq(parts) = f[Len(parts)]
  BY FlattenUnfolds
<1>2. Len(parts) \in 0 .. Len(parts)
  OBVIOUS
<1>. QED  BY <1>1, <1>2

(* One more part goes behind what the others make.                          *)
LEMMA FlattenAppend ==
  ASSUME NEW B, NEW parts \in Seq(Seq(B)), NEW p \in Seq(B)
  PROVE  FlattenSeq(Append(parts, p)) = FlattenSeq(parts) \o p
<1>. DEFINE n == Len(parts)
            longer == Append(parts, p)
            T == Seq(B)
<1>1. /\ n \in Nat /\ longer \in Seq(T) /\ Len(longer) = n + 1
      /\ longer[n + 1] = p /\ \A i \in 1 .. n : longer[i] = parts[i]
  <2>1. parts \in Seq(T) /\ p \in T
    OBVIOUS
  <2>. HIDE DEF T
  <2>. QED  BY <2>1
<1>2. PICK f \in [0 .. n -> T] : Flattens(parts, f) /\ FlattenSeq(parts) = f[n]
  BY FlattenUnfolds
<1>3. PICK g \in [0 .. n + 1 -> T] : Flattens(longer, g) /\ FlattenSeq(longer) = g[n + 1]
  <2>. HIDE DEF longer
  <2>1. \E g \in [0 .. Len(longer) -> T] : Flattens(longer, g) /\ FlattenSeq(longer) = g[Len(longer)]
    BY <1>1, FlattenUnfolds
  <2>. QED  BY <1>1, <2>1
<1>. HIDE DEF longer
<1>4. f[n] = g[n]
  <2>. DEFINE S == {k \in Nat : k <= n => f[k] = g[k]}
  <2>1. 0 \in S
    BY <1>2, <1>3 DEF Flattens
  <2>2. ASSUME NEW k \in S, k + 1 <= n PROVE f[k + 1] = g[k + 1]
    <3>1. k + 1 \in 1 .. Len(parts) /\ k + 1 \in 1 .. Len(longer) /\ (k + 1) - 1 = k /\ f[k] = g[k]
      BY <1>1, <2>2
    <3>2. f[k + 1] = f[k] \o parts[k + 1]
      BY <1>2, <3>1 DEF Flattens
    <3>3. g[k + 1] = g[k] \o longer[k + 1]
      BY <1>3, <3>1 DEF Flattens
    <3>. QED  BY <1>1, <3>1, <3>2, <3>3
  <2>3. S = Nat
    <3>1. S \in SUBSET Nat /\ \A k \in S : k + 1 \in S
      BY <2>2
    <3>. HIDE DEF S
    <3>. QED  BY <2>1, <3>1, SetInduction
  <2>. QED  BY <1>1, <2>3, SMTT(30)
<1>5. g[n + 1] = g[n] \o longer[n + 1]
  <2>1. n + 1 \in 1 .. Len(longer) /\ (n + 1) - 1 = n
    BY <1>1
  <2>. QED  BY <1>3, <2>1 DEF Flattens
<1>. QED  BY <1>1, <1>2, <1>3, <1>4, <1>5 DEF longer

(* Sequences are those that begin empty and have one more put behind.       *)
LEMMA SeqInduction ==
  ASSUME NEW A, NEW S \in SUBSET Seq(A), <<>> \in S,
         \A s \in S, a \in A : Append(s, a) \in S
  PROVE  S = Seq(A)
<1>. DEFINE N == {n \in Nat : \A s \in Seq(A) : Len(s) = n => s \in S}
<1>1. 0 \in N
  <2>1. ASSUME NEW s \in Seq(A), Len(s) = 0 PROVE s = <<>>
    BY <2>1
  <2>. QED  BY <2>1
<1>2. ASSUME NEW n \in N PROVE n + 1 \in N
  <2>. SUFFICES ASSUME NEW s \in Seq(A), Len(s) = n + 1 PROVE s \in S
    OBVIOUS
  <2>1. \A t \in Seq(A) : Len(t) = n => t \in S
    OBVIOUS
  <2>2. n \in Nat
    OBVIOUS
  <2>. HIDE DEF N
  <2>3. PICK t \in Seq(A), a \in A : Len(t) = n /\ s = Append(t, a)
    <3>1. s # <<>>
      BY <2>2
    <3>2. PICK t \in Seq(A), a \in A : s = Append(t, a)
      BY <3>1, SequenceEmptyOrAppend
    <3>3. Len(t) = n
      BY <2>2, <3>2
    <3>. QED  BY <3>2, <3>3
  <2>4. t \in S
    BY <2>1, <2>3
  <2>. QED  BY <2>3, <2>4
<1>3. N = Nat
  <2>1. N \in SUBSET Nat
    OBVIOUS
  <2>. HIDE DEF N
  <2>. QED  BY <1>1, <1>2, <2>1, SetInduction
<1>4. ASSUME NEW s \in Seq(A) PROVE s \in S
  <2>1. Len(s) \in Nat
    OBVIOUS
  <2>2. \A t \in Seq(A) : Len(t) = Len(s) => t \in S
    BY <1>3, <2>1
  <2>. QED  BY <2>2
<1>. QED  BY <1>4

(* What is spelled out character by character: each by its code.            *)
Spelled(code, s) == FlattenSeq([i \in DOMAIN s |-> code[s[i]]])

(* Nothing is spelled with nothing.                                         *)
LEMMA SpelledEmpty == ASSUME NEW code PROVE Spelled(code, <<>>) = <<>>
<1>1. [i \in DOMAIN <<>> |-> code[<<>>[i]]] = <<>>
  OBVIOUS
<1>2. Len(<<>>) = 0
  OBVIOUS
<1>. QED  BY <1>1, <1>2 DEF Spelled, FlattenSeq

LEMMA SpelledType ==
  ASSUME NEW A, NEW B, NEW code \in [A -> Seq(B)], NEW s \in Seq(A)
  PROVE  Spelled(code, s) \in Seq(B)
<1>. DEFINE parts == [i \in 1 .. Len(s) |-> code[s[i]]]
<1>1. Len(s) \in Nat /\ DOMAIN s = 1 .. Len(s)
  BY LenProperties
<1>2. \A i \in 1 .. Len(s) : code[s[i]] \in Seq(B)
  OBVIOUS
<1>3. parts \in Seq(Seq(B))
  BY <1>1, <1>2, IsASeq
<1>4. Spelled(code, s) = FlattenSeq(parts)
  BY <1>1 DEF Spelled
<1>. HIDE DEF parts
<1>. QED  BY <1>3, <1>4, FlattenType

(* One more character has its code behind the others.                       *)
LEMMA SpelledAppend ==
  ASSUME NEW A, NEW B, NEW code \in [A -> Seq(B)], NEW s \in Seq(A), NEW a \in A
  PROVE  Spelled(code, Append(s, a)) = Spelled(code, s) \o code[a]
<1>. DEFINE T == Seq(B)
            parts == [i \in 1 .. Len(s) |-> code[s[i]]]
            longer == [i \in 1 .. Len(s) + 1 |-> code[Append(s, a)[i]]]
<1>1. Len(s) \in Nat /\ Len(Append(s, a)) = Len(s) + 1 /\ Append(s, a) \in Seq(A)
  OBVIOUS
<1>2. DOMAIN s = 1 .. Len(s) /\ DOMAIN Append(s, a) = 1 .. Len(s) + 1
  BY <1>1, LenProperties
<1>3. \A x \in A : code[x] \in T
  OBVIOUS
<1>. HIDE DEF T
<1>4. parts \in Seq(T) /\ Len(parts) = Len(s)
  <2>1. \A i \in 1 .. Len(s) : s[i] \in A
    OBVIOUS
  <2>. QED  BY <1>1, <1>3, <2>1, IsASeq
<1>5. longer \in Seq(T) /\ Len(longer) = Len(s) + 1
  <2>1. \A i \in 1 .. Len(s) + 1 : Append(s, a)[i] \in A
    BY <1>1
  <2>. QED  BY <1>1, <1>3, <2>1, IsASeq
<1>6. longer = Append(parts, code[a])
  <2>1. /\ Append(parts, code[a]) \in Seq(T) /\ Len(Append(parts, code[a])) = Len(s) + 1
        /\ \A i \in 1 .. Len(s) : Append(parts, code[a])[i] = parts[i]
        /\ Append(parts, code[a])[Len(s) + 1] = code[a]
    <3>. HIDE DEF parts
    <3>. QED  BY <1>3, <1>4, AppendProperties
  <2>2. ASSUME NEW i \in 1 .. Len(s) + 1 PROVE longer[i] = Append(parts, code[a])[i]
    <3>1. CASE i = Len(s) + 1
      BY <1>1, <2>1, <3>1
    <3>2. CASE i # Len(s) + 1
      <4>1. i \in 1 .. Len(s)
        BY <1>1, <3>2
      <4>2. longer[i] = parts[i]
        BY <1>1, <4>1
      <4>. QED  BY <2>1, <4>1, <4>2
    <3>. QED  BY <3>1, <3>2
  <2>. HIDE DEF longer, parts
  <2>. QED  BY <1>5, <2>1, <2>2, SeqEqual
<1>7. Spelled(code, s) = FlattenSeq(parts) /\ Spelled(code, Append(s, a)) = FlattenSeq(longer)
  BY <1>2 DEF Spelled
<1>. HIDE DEF parts, longer
<1>8. code[a] \in Seq(B) /\ parts \in Seq(Seq(B))
  BY <1>3, <1>4 DEF T
<1>. QED  BY <1>6, <1>7, <1>8, FlattenAppend

(* A beginning of t is what t is with something behind it.                  *)
LEMMA PrefixIsBegin ==
  ASSUME NEW B, NEW s \in Seq(B), NEW t \in Seq(B)
  PROVE  IsPrefix(s, t) <=> \E r \in Seq(B) : t = s \o r
<1>0. Len(s) \in Nat /\ Len(t) \in Nat /\ SubSeq(s, 1, Len(s)) = s
  BY SubSeqFull
<1>1. ASSUME IsPrefix(s, t) PROVE \E r \in Seq(B) : t = s \o r
  <2>1. Len(s) <= Len(t) /\ s = SubSeq(t, 1, Len(s))
    BY <1>0, <1>1 DEF IsPrefix
  <2>2. SubSeq(t, 1, Len(s)) \o SubSeq(t, Len(s) + 1, Len(t)) = SubSeq(t, 1, Len(t))
    <3>1. 1 \in 1 .. Len(t) + 1 /\ Len(s) \in 1 - 1 .. Len(t) /\ Len(t) \in Len(s) .. Len(t)
      BY <1>0, <2>1
    <3>. QED  BY <3>1, ConcatAdjacentSubSeq
  <2>3. SubSeq(t, Len(s) + 1, Len(t)) \in Seq(B)
    <3>1. \A i \in Len(s) + 1 .. Len(t) : t[i] \in B
      BY <1>0
    <3>. QED  BY <1>0, <3>1, SubSeqProperties
  <2>. QED  BY <2>1, <2>2, <2>3, SubSeqFull
<1>2. ASSUME NEW r \in Seq(B), t = s \o r PROVE IsPrefix(s, t)
  <2>1. /\ Len(t) = Len(s) + Len(r) /\ Len(r) \in Nat
        /\ \A i \in 1 .. Len(s) : t[i] = s[i]
    <3>1. \A i \in 1 .. Len(s) : i \in 1 .. Len(s) + Len(r) /\ i <= Len(s)
      BY <1>0
    <3>. QED  BY <1>0, <1>2, <3>1, ConcatProperties
  <2>2. SubSeq(t, 1, Len(s)) = s
    <3>1. \A i \in 1 .. Len(s) : t[i] \in B
      BY <2>1
    <3>2. /\ SubSeq(t, 1, Len(s)) \in Seq(B) /\ Len(SubSeq(t, 1, Len(s))) = Len(s)
          /\ \A i \in 1 .. Len(s) - 1 + 1 : SubSeq(t, 1, Len(s))[i] = t[1 + i - 1]
      BY <1>0, <3>1, SubSeqProperties
    <3>3. \A i \in 1 .. Len(s) : SubSeq(t, 1, Len(s))[i] = s[i]
      BY <1>0, <2>1, <3>2
    <3>. DEFINE u == SubSeq(t, 1, Len(s))
    <3>. HIDE DEF u
    <3>4. u \in Seq(B) /\ Len(s) = Len(u) /\ \A i \in 1 .. Len(s) : s[i] = u[i]
      BY <3>2, <3>3 DEF u
    <3>5. s = u
      BY <3>4, SeqEqual
    <3>. QED  BY <3>5 DEF u
  <2>. QED  BY <1>0, <2>1, <2>2 DEF IsPrefix
<1>. QED  BY <1>1, <1>2

(* A set of numbers with a bound has a greatest.                            *)
LEMMA GreatestExists ==
  \A n \in Nat : \A keeps \in SUBSET (1 .. n) :
    keeps # {} => \E k \in keeps : \A j \in keeps : j <= k
<1>. DEFINE Bounded(m) == \A keeps \in SUBSET (1 .. m) :
              keeps # {} => \E k \in keeps : \A j \in keeps : j <= k
            S == {m \in Nat : Bounded(m)}
<1>1. 0 \in S
  <2>1. 1 .. 0 = {}
    OBVIOUS
  <2>. QED  BY <2>1
<1>2. ASSUME NEW m \in S PROVE m + 1 \in S
  <2>. SUFFICES ASSUME NEW keeps \in SUBSET (1 .. m + 1), keeps # {}
                PROVE  \E k \in keeps : \A j \in keeps : j <= k
    OBVIOUS
  <2>1. CASE m + 1 \in keeps
    BY <2>1
  <2>2. CASE m + 1 \notin keeps
    <3>1. keeps \in SUBSET (1 .. m)
      BY <2>2
    <3>. QED  BY <3>1
  <2>. QED  BY <2>1, <2>2
<1>3. S \in SUBSET Nat
  OBVIOUS
<1>4. S = Nat
  <2>. HIDE DEF S
  <2>. QED  BY <1>1, <1>2, <1>3, SetInduction
<1>. QED  BY <1>4

(* Sequences of one element and of two.                                     *)
LEMMA ShortSequences ==
  ASSUME NEW T, NEW x \in T, NEW y \in T
  PROVE  /\ <<>> \in Seq(T)
         /\ <<x>> \in Seq(T) /\ Len(<<x>>) = 1 /\ <<x>>[1] = x
         /\ <<x, y>> \in Seq(T) /\ Len(<<x, y>>) = 2 /\ <<x, y>>[1] = x /\ <<x, y>>[2] = y
         /\ DOMAIN <<x, y>> = 1 .. 2
OBVIOUS

-----------------------------------------------------------------------------
(* SearchBox.  Without the spaces; and without those in front.              *)

(* A text of which nothing is left has only spaces.                         *)
LEMMA AllSpaces ==
  ASSUME NEW text \in Seq(STRING), NoSpaces(text) = <<>>
  PROVE  \A i \in DOMAIN text : text[i] = " "
<1>. DEFINE n == Len(text)
            parts == [i \in DOMAIN text |-> IF text[i] = " " THEN <<>> ELSE <<text[i]>>]
            T == Seq(STRING)
<1>1. n \in Nat /\ DOMAIN text = 1 .. n /\ \A i \in 1 .. n : text[i] \in STRING
  OBVIOUS
<1>2. parts \in Seq(T) /\ Len(parts) = n
  <2>1. \A i \in 1 .. n : (IF text[i] = " " THEN <<>> ELSE <<text[i]>>) \in T
    <3>1. <<>> \in T
      OBVIOUS
    <3>2. \A c \in STRING : <<c>> \in T
      BY ShortSequences
    <3>. HIDE DEF T, n
    <3>. QED  BY <1>1, <3>1, <3>2
  <2>2. parts \in [1 .. n -> T]
    <3>. HIDE DEF T
    <3>. QED  BY <1>1, <2>1
  <2>. HIDE DEF T, parts, n
  <2>. QED  BY <1>1, <2>2
<1>3. FlattenSeq(parts) = <<>>
  BY DEF NoSpaces
<1>4. \A i \in 1 .. n : parts[i] = <<>> => text[i] = " "
  BY <1>1
<1>. HIDE DEF parts
<1>5. PICK f \in [0 .. n -> Seq(STRING)] : Flattens(parts, f) /\ FlattenSeq(parts) = f[n]
  BY <1>2, FlattenUnfolds
<1>6. \A i \in 1 .. n : f[i] = <<>> => f[i - 1] = <<>> /\ parts[i] = <<>>
  <2>. SUFFICES ASSUME NEW i \in 1 .. n, f[i] = <<>> PROVE f[i - 1] = <<>> /\ parts[i] = <<>>
    OBVIOUS
  <2>1. f[i] = f[i - 1] \o parts[i]
    BY <1>2, <1>5 DEF Flattens
  <2>2. f[i - 1] \in Seq(STRING)
    BY <1>1, <1>5
  <2>3. parts[i] \in Seq(STRING)
    BY <1>2
  <2>. DEFINE p == f[i - 1]  q == parts[i]
  <2>4. Len(p \o q) = Len(p) + Len(q) /\ Len(p) \in Nat /\ Len(q) \in Nat
    <3>. HIDE DEF p, q
    <3>1. p \in Seq(STRING) /\ q \in Seq(STRING)
      BY <2>2, <2>3 DEF p, q
    <3>. QED  BY <3>1, ConcatProperties
  <2>5. p \o q = <<>>
    BY <2>1
  <2>6. Len(p) = 0 /\ Len(q) = 0
    <3>. HIDE DEF p, q
    <3>1. Len(p \o q) = 0
      BY <2>5
    <3>. QED  BY <2>4, <3>1
  <2>. QED  BY <2>2, <2>3, <2>6, EmptySeq
<1>. DEFINE S == {k \in Nat : k <= n => f[n - k] = <<>>}
<1>7. 0 \in S
  BY <1>1, <1>3, <1>5
<1>8. ASSUME NEW k \in S PROVE k + 1 \in S
  <2>1. k + 1 <= n => n - k \in 1 .. n /\ (n - k) - 1 = n - (k + 1)
    BY <1>1
  <2>. QED  BY <1>6, <2>1
<1>9. S = Nat
  <2>1. S \in SUBSET Nat
    OBVIOUS
  <2>. HIDE DEF S
  <2>. QED  BY <1>7, <1>8, <2>1, SetInduction
<1>10. \A i \in 1 .. n : f[i] = <<>>
  <2>. SUFFICES ASSUME NEW i \in 1 .. n PROVE f[i] = <<>>
    OBVIOUS
  <2>1. n - i \in Nat /\ n - i <= n /\ n - (n - i) = i
    BY <1>1
  <2>. QED  BY <1>9, <2>1
<1>. QED  BY <1>1, <1>4, <1>6, <1>10

(* An empty field.                                                          *)
LEMMA NoSpacesEmpty == NoSpaces(<<>>) = <<>> /\ NoLeading(<<>>) = <<>>
<1>1. NoSpaces(<<>>) = <<>>
  <2>1. [i \in DOMAIN <<>> |-> IF <<>>[i] = " " THEN <<>> ELSE <<<<>>[i]>>] = <<>>
    OBVIOUS
  <2>2. FlattenSeq(<<>>) = <<>>
    BY DEF FlattenSeq
  <2>. QED  BY <2>1, <2>2 DEF NoSpaces
<1>2. NoLeading(<<>>) = <<>>
  <2>1. {i \in DOMAIN <<>> : \A j \in 1 .. i : <<>>[j] = " "} = {}
    OBVIOUS
  <2>2. Cardinality({}) = 0
    BY FS_EmptySet
  <2>. QED  BY <2>1, <2>2, SubSeqEmpty DEF NoLeading
<1>. QED  BY <1>1, <1>2

(* The label stays what it is.                                              *)
LEMMA LabelHasNoSpaces == NoSpaces(searchLabel) = searchLabel /\ NoLeading(searchLabel) = searchLabel
<1>. DEFINE Words == {"s", "Search"}
<1>0. /\ searchLabel \in Seq(Words) /\ Len(searchLabel) = 2 /\ DOMAIN searchLabel = 1 .. 2
      /\ searchLabel[1] = "s" /\ searchLabel[2] = "Search" /\ 1 .. 2 = {1, 2}
      /\ searchLabel[1] # " " /\ searchLabel[2] # " "
  <2>1. "s" \in Words /\ "Search" \in Words /\ "s" # " " /\ "Search" # " "
    OBVIOUS
  <2>2. searchLabel \in Seq(Words)
    BY <2>1, ShortSequences DEF searchLabel
  <2>3. /\ Len(searchLabel) = 2 /\ DOMAIN searchLabel = 1 .. 2
        /\ searchLabel[1] = "s" /\ searchLabel[2] = "Search"
    BY DEF searchLabel
  <2>4. 1 .. 2 = {1, 2}
    OBVIOUS
  <2>. QED  BY <2>1, <2>2, <2>3, <2>4
<1>1. NoSpaces(searchLabel) = searchLabel
  <2>1. [i \in DOMAIN searchLabel |-> IF searchLabel[i] = " " THEN <<>> ELSE <<searchLabel[i]>>]
          = <<<<"s">>, <<"Search">>>>
    <3>1. \A i \in DOMAIN searchLabel : (IF searchLabel[i] = " " THEN <<>> ELSE <<searchLabel[i]>>) = <<searchLabel[i]>>
      BY <1>0
    <3>2. [i \in DOMAIN searchLabel |-> IF searchLabel[i] = " " THEN <<>> ELSE <<searchLabel[i]>>]
            = [i \in 1 .. 2 |-> <<searchLabel[i]>>]
      BY <1>0, <3>1
    <3>3. <<<<"s">>, <<"Search">>>> = [i \in 1 .. 2 |-> <<searchLabel[i]>>]
      BY <1>0
    <3>. QED  BY <3>2, <3>3, Zenon
  <2>2. FlattenSeq(<<<<"s">>, <<"Search">>>>) = <<"s", "Search">>
    <3>. DEFINE parts == <<<<"s">>, <<"Search">>>>
    <3>1. parts \in Seq(Seq(Words)) /\ Len(parts) = 2 /\ parts[1] = <<"s">> /\ parts[2] = <<"Search">>
      <4>1. <<"s">> \in Seq(Words) /\ <<"Search">> \in Seq(Words)
        <5>1. "s" \in Words /\ "Search" \in Words
          OBVIOUS
        <5>. QED  BY <5>1, ShortSequences
      <4>2. \A T : \A x, y \in T : <<x, y>> \in Seq(T) /\ Len(<<x, y>>) = 2 /\ <<x, y>>[1] = x /\ <<x, y>>[2] = y
        OBVIOUS
      <4>. DEFINE x == <<"s">>  y == <<"Search">>  T == Seq(Words)
      <4>3. x \in T /\ y \in T /\ parts = <<x, y>>
        BY <4>1
      <4>. HIDE DEF x, y, T, parts
      <4>4. parts \in Seq(T) /\ Len(parts) = 2 /\ parts[1] = x /\ parts[2] = y
        BY <4>2, <4>3
      <4>. QED  BY <4>4 DEF T, x, y
    <3>. HIDE DEF parts
    <3>2. PICK f \in [0 .. 2 -> Seq(Words)] : Flattens(parts, f) /\ FlattenSeq(parts) = f[2]
      <4>1. \E f \in [0 .. Len(parts) -> Seq(Words)] : Flattens(parts, f) /\ FlattenSeq(parts) = f[Len(parts)]
        BY <3>1, FlattenUnfolds
      <4>. QED  BY <3>1, <4>1
    <3>3. f[0] = <<>> /\ f[1] = f[1 - 1] \o parts[1] /\ f[2] = f[2 - 1] \o parts[2]
      <4>1. 1 \in 1 .. Len(parts) /\ 2 \in 1 .. Len(parts)
        BY <3>1
      <4>. QED  BY <3>2, <4>1 DEF Flattens
    <3>4. f[1] = <<"s">>
      <4>1. parts[1] \in Seq(Words)
        <5>1. "s" \in Words
          OBVIOUS
        <5>2. <<"s">> \in Seq(Words)
          BY <5>1, ShortSequences
        <5>. QED  BY <3>1, <5>2, Zenon
      <4>2. <<>> \o parts[1] = parts[1]
        BY <4>1, ConcatEmptySeq
      <4>3. f[1 - 1] = f[0]
        OBVIOUS
      <4>. QED  BY <3>1, <3>3, <4>2, <4>3, Zenon
    <3>5. f[2] = <<"s">> \o <<"Search">>
      BY <3>1, <3>3, <3>4
    <3>. QED  BY <3>2, <3>5 DEF parts
  <2>. QED  BY <2>1, <2>2 DEF NoSpaces, searchLabel
<1>2. NoLeading(searchLabel) = searchLabel
  <2>1. {i \in DOMAIN searchLabel : \A j \in 1 .. i : searchLabel[j] = " "} = {}
    <3>1. \A i \in 1 .. 2 : 1 \in 1 .. i
      OBVIOUS
    <3>. QED  BY <1>0, <3>1
  <2>2. Cardinality({}) = 0
    BY FS_EmptySet
  <2>3. SubSeq(searchLabel, 0 + 1, Len(searchLabel)) = searchLabel
    BY <1>0, SubSeqFull
  <2>. QED  BY <2>1, <2>2, <2>3 DEF NoLeading
<1>. QED  BY <1>1, <1>2

(* Then nothing is left without the spaces in front either.                 *)
LEMMA NoneLeft ==
  ASSUME NEW text \in Seq(STRING), NoSpaces(text) = <<>>
  PROVE  NoLeading(text) = <<>>
<1>1. Len(text) \in Nat /\ DOMAIN text = 1 .. Len(text)
  OBVIOUS
<1>2. {i \in DOMAIN text : \A j \in 1 .. i : text[j] = " "} = 1 .. Len(text)
  <2>1. \A j \in 1 .. Len(text) : text[j] = " "
    BY <1>1, AllSpaces
  <2>2. \A i \in 1 .. Len(text) : \A j \in 1 .. i : j \in 1 .. Len(text)
    BY <1>1
  <2>. QED  BY <1>1, <2>1, <2>2
<1>3. Cardinality(1 .. Len(text)) = Len(text)
  <2>1. \A n \in Nat : Cardinality(1 .. n) = n
    <3>. SUFFICES ASSUME NEW n \in Nat PROVE Cardinality(1 .. n) = n
      OBVIOUS
    <3>1. Cardinality(1 .. n) = IF 1 > n THEN 0 ELSE n - 1 + 1
      BY FS_Interval
    <3>. QED  BY <3>1
  <2>. QED  BY <1>1, <2>1
<1>4. SubSeq(text, Len(text) + 1, Len(text)) = <<>>
  BY <1>1, SubSeqEmpty
<1>. QED  BY <1>2, <1>3, <1>4 DEF NoLeading

-----------------------------------------------------------------------------
(* The search box.                                                          *)

BFields == {"value", "searchActive", "active", "lastSearchValue", "searchIndex", "mark",
            "keyTimeout", "hideTimeout", "timers", "results", "select", "location"}

NoText == {<<>>, searchLabel}

(* The label is in the field when the box is not active, and the section    *)
(* that is searched is the marked one.                                      *)
BAgree(b) ==
  /\ DOMAIN b = BFields
  /\ b.value \in Texts \cup NoText
  /\ b.searchActive \in BOOLEAN /\ (b.searchActive <=> b.value # searchLabel)
  /\ ~b.searchActive => b.lastSearchValue \in NoText
  /\ b.searchIndex \in 0 .. Sections
  /\ b.mark = IF b.searchIndex = Sections THEN -1 ELSE b.searchIndex

(* What may be, until the key that empties the field is released.           *)
BEmptied(b, key, missed) ==
  b.searchActive /\ b.results /\ NoSpaces(b.value) = <<>> =>
    key = "char" \/ missed \/ b.lastSearchValue \in NoText

BFresh(b, key, missed) ==
  b.results /\ b.mark # -1 =>
    \/ b.location = ResultsPage(b.mark, b.lastSearchValue)
    \/ b.lastSearchValue \in NoText
    \/ key = "char" /\ b.searchActive /\ NoSpaces(b.value) = <<>>
    \/ missed

BGood(b, key, missed) == BAgree(b) /\ BEmptied(b, key, missed) /\ BFresh(b, key, missed)

BInv == BGood(box, bkey, bmissed) /\ (bfocus = "field" => box.searchActive)

(* The methods.  Timers and windows are nothing to BGood.                   *)
LEMMA ActivateGood ==
  ASSUME NEW b, NEW key, NEW missed, NEW on \in BOOLEAN, BGood(b, key, missed)
  PROVE  BGood(Activate(b, on), key, missed) /\ (on => Activate(b, on).searchActive)
<1>. DEFINE c == Activate(b, on)
<1>0. <<>> # searchLabel /\ searchLabel \in NoText /\ <<>> \in NoText
  BY DEF searchLabel, NoText
<1>1. CASE on \/ b.results
  <2>1. c = [b EXCEPT !.active = TRUE,
                      !.searchActive = @ \/ b.value = searchLabel,
                      !.value = IF @ = searchLabel THEN <<>> ELSE @]
    BY <1>1 DEF Activate
  <2>2. /\ DOMAIN c = BFields /\ c.searchActive = TRUE
        /\ c.value = IF b.value = searchLabel THEN <<>> ELSE b.value
        /\ c.lastSearchValue = b.lastSearchValue /\ c.searchIndex = b.searchIndex /\ c.mark = b.mark
        /\ c.results = b.results /\ c.location = b.location
    BY <2>1 DEF BGood, BAgree, BFields
  <2>. HIDE DEF c
  <2>3. BAgree(c)
    BY <1>0, <2>2 DEF BGood, BAgree
  <2>4. BEmptied(c, key, missed)
    BY <2>2 DEF BGood, BAgree, BEmptied
  <2>5. BFresh(c, key, missed)
    BY <2>2 DEF BGood, BAgree, BFresh
  <2>. QED  BY <2>2, <2>3, <2>4, <2>5 DEF BGood, c
<1>2. CASE ~(on \/ b.results)
  <2>1. c = [b EXCEPT !.active = FALSE, !.searchActive = FALSE,
                      !.value = searchLabel, !.lastSearchValue = <<>>]
    BY <1>2 DEF Activate
  <2>2. /\ DOMAIN c = BFields /\ c.searchActive = FALSE
        /\ c.value = searchLabel
        /\ c.lastSearchValue = <<>> /\ c.searchIndex = b.searchIndex /\ c.mark = b.mark
    BY <2>1 DEF BGood, BAgree, BFields
  <2>. HIDE DEF c
  <2>3. BAgree(c)
    BY <1>0, <2>2 DEF BGood, BAgree
  <2>4. BEmptied(c, key, missed) /\ BFresh(c, key, missed)
    BY <1>0, <2>2 DEF BEmptied, BFresh
  <2>. QED  BY <1>2, <2>3, <2>4 DEF BGood, c
<1>. QED  BY <1>1, <1>2

(* A step that changes nothing but timers and windows, or hides the results.*)
LEMMA SameText ==
  ASSUME NEW b, NEW c, NEW key, NEW missed, BGood(b, key, missed),
         DOMAIN c = BFields,
         c.value = b.value, c.searchActive = b.searchActive, c.lastSearchValue = b.lastSearchValue,
         c.searchIndex = b.searchIndex, c.mark = b.mark, c.location = b.location,
         c.results = b.results \/ c.results = FALSE
  PROVE  BGood(c, key, missed)
BY DEF BGood, BAgree, BEmptied, BFresh

(* A search finds the page of the section it is asked for.                  *)
LEMMA SearchGood ==
  ASSUME NEW b, NEW key, NEW missed, BAgree(b), BEmptied(b, key, missed)
  PROVE  BGood(Search(b), key, missed) /\ Search(b).searchActive = b.searchActive
<1>. DEFINE c == Search(b)  text == NoLeading(b.value)
<1>1. b.searchIndex \in 0 .. Sections /\ Sections \in Nat
  BY SearchBoxAssumption DEF BAgree
<1>2. CASE Throws(b)
  <2>1. c = [b EXCEPT !.keyTimeout = 0]
    BY <1>2 DEF Search
  <2>2. /\ DOMAIN c = BFields /\ c.value = b.value /\ c.searchActive = b.searchActive
        /\ c.lastSearchValue = b.lastSearchValue /\ c.searchIndex = b.searchIndex
        /\ c.mark = b.mark /\ c.results = b.results
    BY <2>1 DEF BAgree, BFields
  <2>3. b.mark = -1
    BY <1>1, <1>2 DEF BAgree, Throws
  <2>. HIDE DEF c
  <2>. QED  BY <2>2, <2>3 DEF BGood, BAgree, BEmptied, BFresh, c
<1>3. CASE ~Throws(b)
  <2>1. c = [b EXCEPT !.keyTimeout = 0, !.results = TRUE,
                      !.location = ResultsPage(b.searchIndex, text),
                      !.lastSearchValue = text]
    BY <1>3 DEF Search
  <2>. HIDE DEF text
  <2>2. /\ DOMAIN c = BFields /\ c.value = b.value /\ c.searchActive = b.searchActive
        /\ c.lastSearchValue = text /\ c.searchIndex = b.searchIndex
        /\ c.mark = b.mark /\ c.location = ResultsPage(b.searchIndex, text)
    BY <2>1 DEF BAgree, BFields
  <2>3. b.mark = b.searchIndex
    BY <1>1, <1>3 DEF BAgree, Throws
  <2>4. b.value = searchLabel => text \in NoText
    BY LabelHasNoSpaces DEF text, NoText
  <2>5. NoSpaces(b.value) = <<>> => text \in NoText
    <3>1. CASE b.value \in Texts
      <4>1. b.value \in Seq(STRING)
        BY <3>1, TextsAssumption
      <4>2. NoSpaces(b.value) = <<>> => NoLeading(b.value) = <<>>
        BY <4>1, NoneLeft
      <4>. QED  BY <4>2 DEF text, NoText
    <3>2. CASE b.value = <<>>
      BY <3>2, NoSpacesEmpty DEF text, NoText
    <3>. QED  BY <2>4, <3>1, <3>2 DEF BAgree, NoText
  <2>. HIDE DEF c
  <2>6. BAgree(c)
    BY <2>2, <2>4 DEF BAgree
  <2>7. BEmptied(c, key, missed)
    BY <2>2, <2>5 DEF BEmptied
  <2>8. BFresh(c, key, missed)
    BY <2>2, <2>3 DEF BFresh
  <2>. QED  BY <2>2, <2>6, <2>7, <2>8 DEF BGood, c
<1>. QED  BY <1>2, <1>3

(* A section is chosen, and searched if something is in the field.          *)
LEMMA SelectGood ==
  ASSUME NEW b, NEW key, NEW missed, BGood(b, key, missed), NEW id \in 0 .. Sections
  PROVE  BGood(OnSelectItem(b, id), key, missed) /\ OnSelectItem(b, id).searchActive = b.searchActive
<1>. DEFINE c == [SelectItemSet(b, id) EXCEPT !.searchIndex = id]
<1>0. Sections \in Nat /\ id \in Nat /\ (id \in Items <=> id # Sections)
  BY SearchBoxAssumption DEF Items
<1>1. /\ DOMAIN c = BFields /\ c.value = b.value /\ c.searchActive = b.searchActive
      /\ c.lastSearchValue = b.lastSearchValue /\ c.searchIndex = id
      /\ c.mark = (IF id \in Items THEN id ELSE -1)
      /\ c.results = b.results /\ c.location = b.location
  BY DEF BGood, BAgree, BFields, SelectItemSet
<1>2. OnSelectItem(b, id) = IF SearchWanted(b) THEN Search(c) ELSE c
  BY DEF OnSelectItem
<1>. HIDE DEF c
<1>3. BAgree(c)
  BY <1>0, <1>1 DEF BGood, BAgree
<1>4. BEmptied(c, key, missed)
  BY <1>1 DEF BGood, BEmptied
<1>5. CASE SearchWanted(b)
  BY <1>1, <1>2, <1>3, <1>4, <1>5, SearchGood
<1>6. CASE ~SearchWanted(b)
  <2>1. NoSpaces(b.value) = <<>> \/ b.lastSearchValue \in NoText
    BY <1>6 DEF SearchWanted, BGood, BAgree
  <2>2. BFresh(c, key, missed)
    <3>1. CASE b.lastSearchValue \in NoText
      BY <1>1, <3>1 DEF BFresh
    <3>2. CASE NoSpaces(b.value) = <<>> /\ b.searchActive
      BY <1>1, <3>2 DEF BGood, BEmptied, BFresh
    <3>. QED  BY <2>1, <3>1, <3>2 DEF BGood, BAgree
  <2>. QED  BY <1>1, <1>2, <1>3, <1>4, <1>6, <2>2 DEF BGood
<1>. QED  BY <1>5, <1>6

(* A timer is killed.                                                       *)
LEMMA KillGood ==
  ASSUME NEW b, NEW key, NEW missed, BGood(b, key, missed)
  PROVE  BGood(KillRunning(b), key, missed) /\ KillRunning(b).searchActive = b.searchActive
<1>. DEFINE c == KillRunning(b)
<1>1. /\ DOMAIN c = BFields /\ c.value = b.value /\ c.searchActive = b.searchActive
      /\ c.lastSearchValue = b.lastSearchValue /\ c.searchIndex = b.searchIndex
      /\ c.mark = b.mark /\ c.results = b.results /\ c.location = b.location
  BY DEF BGood, BAgree, BFields, KillRunning, Cleared
<1>. HIDE DEF c
<1>2. BGood(c, key, missed)
  BY <1>1, SameText
<1>. QED  BY <1>1, <1>2 DEF c

(* Once a key is released the results are fresh, or the field is not empty. *)
LEMMA ComparedGood ==
  ASSUME NEW b, NEW key, NEW missed, BGood(b, key, missed)
  PROVE  BGood(Compared(b), "none", missed) /\ Compared(b).searchActive = b.searchActive
<1>. DEFINE c == Compared(b)  text == NoSpaces(b.value)
<1>1. CASE text = b.lastSearchValue
  <2>1. c = b
    BY <1>1 DEF Compared
  <2>2. text = <<>> => b.lastSearchValue \in NoText
    BY <1>1 DEF NoText
  <2>. HIDE DEF c
  <2>. QED  BY <2>1, <2>2 DEF BGood, BEmptied, BFresh, c
<1>2. CASE text # b.lastSearchValue /\ text # <<>>
  <2>1. c = [b EXCEPT !.keyTimeout = UnusedId(b), !.timers = @ \cup {<<UnusedId(b), "search">>}]
    BY <1>2, Zenon DEF Compared
  <2>2. /\ DOMAIN c = BFields /\ c.value = b.value /\ c.searchActive = b.searchActive
        /\ c.lastSearchValue = b.lastSearchValue /\ c.searchIndex = b.searchIndex
        /\ c.mark = b.mark /\ c.results = b.results /\ c.location = b.location
    BY <2>1 DEF BGood, BAgree, BFields
  <2>. HIDE DEF c
  <2>3. BGood(c, key, missed)
    BY <2>2, SameText
  <2>. QED  BY <1>2, <2>2, <2>3 DEF BGood, BEmptied, BFresh, c
<1>3. CASE text # b.lastSearchValue /\ text = <<>>
  <2>1. c = [b EXCEPT !.results = FALSE, !.lastSearchValue = <<>>]
    BY <1>3 DEF Compared
  <2>2. /\ DOMAIN c = BFields /\ c.value = b.value /\ c.searchActive = b.searchActive
        /\ c.lastSearchValue = <<>> /\ c.searchIndex = b.searchIndex
        /\ c.mark = b.mark /\ c.results = FALSE
    BY <2>1 DEF BGood, BAgree, BFields
  <2>. HIDE DEF c
  <2>3. BAgree(c)
    BY <2>2 DEF BGood, BAgree, NoText
  <2>. QED  BY <2>2, <2>3 DEF BGood, BEmptied, BFresh, c
<1>. QED  BY <1>1, <1>2, <1>3

(* The focus goes elsewhere; the field is active once it has it.            *)
LEMMA FocusedGood ==
  ASSUME NEW b, NEW key, NEW missed, BGood(b, key, missed), NEW to,
         bfocus = "field" => b.searchActive
  PROVE  /\ BGood(Focused(b, to), key, missed)
         /\ to = "field" => Focused(b, to).searchActive
<1>. DEFINE left == Left(b, to)
<1>1. BGood(left, key, missed) /\ (to = "field" /\ bfocus = "field" => left.searchActive)
  BY ActivateGood DEF Left
<1>. HIDE DEF left
<1>2. BGood(Entered(left, to), key, missed) /\ (to = "field" => Entered(left, to).searchActive)
  <2>1. BGood(Activate(left, TRUE), key, missed) /\ Activate(left, TRUE).searchActive
    BY <1>1, ActivateGood
  <2>. QED  BY <1>1, <2>1 DEF Entered
<1>. QED  BY <1>2 DEF Focused, left

(* The results are closed.                                                  *)
LEMMA ClosedGood ==
  ASSUME NEW b, NEW key, NEW missed, BGood(b, key, missed)
  PROVE  BGood(CloseResultsWindow(b), key, missed)
<1>. DEFINE c == [b EXCEPT !.results = FALSE]
<1>1. /\ DOMAIN c = BFields /\ c.value = b.value /\ c.searchActive = b.searchActive
      /\ c.lastSearchValue = b.lastSearchValue /\ c.searchIndex = b.searchIndex
      /\ c.mark = b.mark /\ c.results = FALSE /\ c.location = b.location
  BY DEF BGood, BAgree, BFields
<1>2. CloseResultsWindow(b) = Activate(c, FALSE)
  BY DEF CloseResultsWindow
<1>. HIDE DEF c
<1>3. BGood(c, key, missed)
  BY <1>1, SameText
<1>. QED  BY <1>2, <1>3, ActivateGood

(* The sections are shown.                                                  *)
LEMMA ShowGood ==
  ASSUME NEW b, NEW key, NEW missed, BGood(b, key, missed)
  PROVE  BGood(OnSearchSelectShow(b), key, missed) /\ OnSearchSelectShow(b).searchActive = b.searchActive
<1>. DEFINE c == OnSearchSelectShow(b)
<1>1. /\ DOMAIN c = BFields /\ c.value = b.value /\ c.searchActive = b.searchActive
      /\ c.lastSearchValue = b.lastSearchValue /\ c.searchIndex = b.searchIndex
      /\ c.mark = b.mark /\ c.results = b.results /\ c.location = b.location
  BY DEF BGood, BAgree, BFields, OnSearchSelectShow, Cleared
<1>. HIDE DEF c
<1>2. BGood(c, key, missed)
  BY <1>1, SameText
<1>. QED  BY <1>1, <1>2 DEF c

(* Any other key pressed, or one released elsewhere.                        *)
LEMMA OtherKey ==
  ASSUME NEW b, NEW key, NEW missed
  PROVE  /\ BGood(b, key, missed) /\ key # "char" => \A k : BGood(b, k, missed)
         /\ BGood(b, key, missed) => \A k : BGood(b, k, TRUE)
BY DEF BGood, BEmptied, BFresh

(* Its fields that BGood is about are as they were.                         *)
LEMMA ClearedGood ==
  ASSUME NEW b, NEW key, NEW missed, BGood(b, key, missed), NEW id
  PROVE  /\ BGood(Cleared(b, id), key, missed) /\ Cleared(b, id).searchActive = b.searchActive
         /\ BGood([Cleared(b, id) EXCEPT !.select = FALSE], key, missed)
         /\ [Cleared(b, id) EXCEPT !.select = FALSE].searchActive = b.searchActive
<1>. DEFINE c == Cleared(b, id)
            d == [c EXCEPT !.select = FALSE]
<1>1. /\ DOMAIN c = BFields /\ c.value = b.value /\ c.searchActive = b.searchActive
      /\ c.lastSearchValue = b.lastSearchValue /\ c.searchIndex = b.searchIndex
      /\ c.mark = b.mark /\ c.results = b.results /\ c.location = b.location
  BY DEF BGood, BAgree, BFields, Cleared
<1>2. /\ DOMAIN d = BFields /\ d.value = b.value /\ d.searchActive = b.searchActive
      /\ d.lastSearchValue = b.lastSearchValue /\ d.searchIndex = b.searchIndex
      /\ d.mark = b.mark /\ d.results = b.results /\ d.location = b.location
  BY <1>1 DEF BFields
<1>. HIDE DEF c, d
<1>3. BGood(c, key, missed) /\ BGood(d, key, missed)
  BY <1>1, <1>2, SameText
<1>. QED  BY <1>1, <1>2, <1>3 DEF c, d

(* The invariant holds at first, and each event keeps it.                   *)
LEMMA BInitially == BInit => BInv
<1>. SUFFICES ASSUME BInit PROVE BInv
  OBVIOUS
<1>1. /\ DOMAIN box = BFields /\ box.value = searchLabel /\ box.searchActive = FALSE
      /\ box.lastSearchValue = <<>> /\ box.searchIndex = 0 /\ box.mark = 0 /\ box.results = FALSE
      /\ bfocus = "page"
  BY DEF BInit, BFields
<1>2. Sections \in Nat \ {0}
  BY SearchBoxAssumption
<1>3. BAgree(box)
  <2>1. 0 \in 0 .. Sections /\ 0 # Sections
    BY <1>2
  <2>. QED  BY <1>1, <2>1 DEF BAgree, NoText
<1>4. BEmptied(box, bkey, bmissed) /\ BFresh(box, bkey, bmissed)
  BY <1>1 DEF BEmptied, BFresh
<1>. QED  BY <1>1, <1>3, <1>4 DEF BInv, BGood

LEMMA BStep == BInv /\ [BNext]_bvars => BInv'
<1>. SUFFICES ASSUME BInv, [BNext]_bvars PROVE BInv'
  OBVIOUS
<1>0. /\ BGood(box, bkey, bmissed) /\ (bfocus = "field" => box.searchActive)
      /\ Sections \in Nat \ {0} /\ box.searchIndex \in 0 .. Sections
  BY SearchBoxAssumption DEF BInv, BGood, BAgree
<1>1. ASSUME NEW to, FocusTo(to) PROVE BInv'
  BY <1>0, <1>1, FocusedGood DEF FocusTo, userVars, BInv
<1>2. ASSUME NEW key, Press(key) PROVE BInv'
  <2>1. bkey = "none" /\ bkey' = key /\ bfocus' = bfocus /\ bmissed' = bmissed /\ bfocus = "field"
    BY <1>2 DEF Press
  <2>2. CASE key = "char"
    <3>1. PICK text \in Texts : box' = [box EXCEPT !.value = text]
      BY <1>2, <2>2 DEF Press
    <3>2. text # searchLabel
      BY TextsAssumption, LabelHasNoSpaces
    <3>3. /\ DOMAIN box' = BFields /\ box'.value = text /\ box'.searchActive = box.searchActive
          /\ box'.lastSearchValue = box.lastSearchValue /\ box'.searchIndex = box.searchIndex
          /\ box'.mark = box.mark /\ box'.results = box.results /\ box'.location = box.location
      BY <1>0, <3>1 DEF BGood, BAgree, BFields
    <3>4. BAgree(box')
      BY <1>0, <2>1, <3>2, <3>3 DEF BGood, BAgree
    <3>5. BEmptied(box', bkey', bmissed') /\ BFresh(box', bkey', bmissed')
      BY <1>0, <2>1, <2>2, <3>3 DEF BGood, BEmptied, BFresh
    <3>. QED  BY <1>0, <2>1, <3>3, <3>4, <3>5 DEF BInv, BGood
  <2>3. CASE key # "char"
    <3>1. box' = box
      BY <1>2, <2>3 DEF Press
    <3>. QED  BY <1>0, <2>1, <3>1, OtherKey DEF BInv
  <2>. QED  BY <2>2, <2>3
<1>3. CASE ReleaseChar
  <2>1. BGood(KillRunning(box), bkey, bmissed) /\ KillRunning(box).searchActive = box.searchActive
    BY <1>0, KillGood
  <2>2. BGood(Compared(KillRunning(box)), "none", bmissed) /\ Compared(KillRunning(box)).searchActive = box.searchActive
    BY <2>1, ComparedGood
  <2>. QED  BY <1>0, <1>3, <2>2 DEF ReleaseChar, BInv
<1>4. CASE ReleaseEnter
  <2>1. BGood(KillRunning(box), bkey, bmissed) /\ KillRunning(box).searchActive = box.searchActive
    BY <1>0, KillGood
  <2>2. BGood(Compared(KillRunning(box)), "none", bmissed) /\ Compared(KillRunning(box)).searchActive = box.searchActive
    BY <2>1, ComparedGood
  <2>. QED  BY <1>0, <1>4, <2>2 DEF ReleaseEnter, BInv
<1>5. CASE ReleaseShift
  <2>1. BGood(KillRunning(box), bkey, bmissed) /\ KillRunning(box).searchActive = box.searchActive
    BY <1>0, KillGood
  <2>. DEFINE c == OnSearchSelectShow(KillRunning(box))
  <2>2. BGood(c, bkey, bmissed) /\ c.searchActive = box.searchActive
    BY <2>1, ShowGood
  <2>3. box' = Focused(c, "select") /\ bfocus' = "select" /\ bkey' = "none" /\ bmissed' = bmissed /\ bkey # "char"
    BY <1>5 DEF ReleaseShift
  <2>. HIDE DEF c
  <2>4. BGood(box', bkey, bmissed)
    BY <1>0, <2>2, <2>3, FocusedGood
  <2>. QED  BY <2>3, <2>4, OtherKey DEF BInv
<1>6. CASE ReleaseEscape
  <2>1. BGood(KillRunning(box), bkey, bmissed) /\ KillRunning(box).searchActive = box.searchActive
    BY <1>0, KillGood
  <2>. DEFINE c == Focused(KillRunning(box), "page")
              d == [c EXCEPT !.results = FALSE, !.lastSearchValue = <<>>]
  <2>2. BGood(c, bkey, bmissed)
    BY <1>0, <2>1, FocusedGood
  <2>. HIDE DEF c
  <2>3. /\ DOMAIN d = BFields /\ d.value = c.value /\ d.searchActive = c.searchActive
        /\ d.lastSearchValue = <<>> /\ d.searchIndex = c.searchIndex /\ d.mark = c.mark /\ d.results = FALSE
    BY <2>2 DEF BGood, BAgree, BFields
  <2>4. box' = Activate(d, FALSE) /\ bfocus' = "page" /\ bkey' = "none" /\ bmissed' = bmissed /\ bkey # "char"
    BY <1>6 DEF ReleaseEscape, c
  <2>. HIDE DEF d
  <2>5. BGood(d, bkey, bmissed)
    BY <2>2, <2>3 DEF BGood, BAgree, BEmptied, BFresh, NoText
  <2>6. BGood(box', bkey, bmissed)
    BY <2>4, <2>5, ActivateGood
  <2>. QED  BY <2>4, <2>6, OtherKey DEF BInv
<1>7. CASE ReleaseElsewhere
  BY <1>0, <1>7, OtherKey DEF ReleaseElsewhere, BInv
<1>8. CASE MouseOver
  BY <1>0, <1>8, ShowGood DEF MouseOver, BInv
<1>9. CASE MouseOut
  <2>. DEFINE c == OnSearchSelectHide(box)
  <2>1. /\ DOMAIN c = BFields /\ c.value = box.value /\ c.searchActive = box.searchActive
        /\ c.lastSearchValue = box.lastSearchValue /\ c.searchIndex = box.searchIndex
        /\ c.mark = box.mark /\ c.results = box.results /\ c.location = box.location
    BY <1>0 DEF BGood, BAgree, BFields, OnSearchSelectHide
  <2>2. box' = c /\ UNCHANGED <<bfocus, bkey, bmissed>>
    BY <1>9 DEF MouseOut
  <2>. HIDE DEF c
  <2>3. BGood(c, bkey, bmissed)
    BY <1>0, <2>1, SameText
  <2>. QED  BY <1>0, <2>1, <2>2, <2>3 DEF BInv
<1>10. ASSUME NEW id \in Items, ClickItem(id) PROVE BInv'
  <2>1. id \in 0 .. Sections
    BY <1>0 DEF Items
  <2>2. BGood(Focused(box, "select"), bkey, bmissed)
    BY <1>0, FocusedGood
  <2>3. BGood(OnSelectItem(Focused(box, "select"), id), bkey, bmissed)
    BY <2>1, <2>2, SelectGood
  <2>. QED  BY <1>10, <2>3 DEF ClickItem, userVars, BInv
<1>11. CASE SelectDown
  <2>1. SelectItemCount = Sections
    BY <1>0, FS_Interval DEF SelectItemCount, Items
  <2>2. box.searchIndex + 1 \in 0 .. Sections
    BY <1>0, <1>11, <2>1 DEF SelectDown
  <2>3. BGood(OnSelectItem(box, box.searchIndex + 1), bkey, bmissed)
    BY <1>0, <2>2, SelectGood
  <2>. QED  BY <1>11, <2>3 DEF SelectDown, userVars, BInv
<1>12. CASE SelectUp
  <2>1. box.searchIndex - 1 \in 0 .. Sections
    BY <1>0, <1>12 DEF SelectUp
  <2>2. BGood(OnSelectItem(box, box.searchIndex - 1), bkey, bmissed)
    BY <1>0, <2>1, SelectGood
  <2>. QED  BY <1>12, <2>2 DEF SelectUp, userVars, BInv
<1>13. CASE SelectDone
  <2>. DEFINE chosen == OnSelectItem(box, box.searchIndex)
              c == [chosen EXCEPT !.select = FALSE]
  <2>1. BGood(chosen, bkey, bmissed) /\ chosen.searchActive = box.searchActive
    BY <1>0, SelectGood
  <2>2. bkey = "none" /\ bfocus = "select" /\ bmissed' = bmissed
    BY <1>13 DEF SelectDone
  <2>3. CASE box' = chosen /\ UNCHANGED <<bfocus, bkey>>
    BY <2>1, <2>2, <2>3 DEF BInv
  <2>4. CASE box' = Focused(c, "field") /\ bfocus' = "field" /\ bkey' \in {"enter", "escape"}
    <3>. HIDE DEF chosen
    <3>1. /\ DOMAIN c = BFields /\ c.value = chosen.value /\ c.searchActive = chosen.searchActive
          /\ c.lastSearchValue = chosen.lastSearchValue /\ c.searchIndex = chosen.searchIndex
          /\ c.mark = chosen.mark /\ c.results = chosen.results /\ c.location = chosen.location
      BY <2>1 DEF BGood, BAgree, BFields
    <3>. HIDE DEF c
    <3>2. BGood(c, bkey, bmissed)
      BY <2>1, <3>1, SameText
    <3>3. BGood(box', bkey, bmissed) /\ box'.searchActive
      BY <2>2, <2>4, <3>2, FocusedGood
    <3>. QED  BY <2>2, <2>4, <3>3, OtherKey DEF BInv
  <2>. QED  BY <1>13, <2>3, <2>4 DEF SelectDone
<1>14. CASE TakeFocus
  <2>1. CASE UNCHANGED <<box, bfocus>>
    BY <1>0, <1>14, <2>1 DEF TakeFocus, BInv
  <2>2. CASE bfocus' = "results" /\ box' = Focused(box, "results")
    BY <1>0, <1>14, <2>2, FocusedGood DEF TakeFocus, BInv
  <2>. QED  BY <1>14, <2>1, <2>2 DEF TakeFocus
<1>15. CASE EscapeResults
  <2>. DEFINE c == CloseResultsWindow(box)
  <2>1. BGood(c, bkey, bmissed)
    BY <1>0, ClosedGood
  <2>2. /\ bfocus = "results" /\ bkey = "none" /\ bfocus' = "field" /\ box' = Focused(c, "field")
        /\ bmissed' = bmissed
    BY <1>15 DEF EscapeResults
  <2>. HIDE DEF c
  <2>3. BGood(box', bkey, bmissed) /\ box'.searchActive
    BY <2>1, <2>2, FocusedGood
  <2>. QED  BY <2>2, <2>3, OtherKey DEF BInv
<1>16. CASE UpFromResults
  <2>1. /\ bfocus = "results" /\ bkey = "none" /\ bfocus' = "field" /\ box' = Focused(box, "field")
        /\ bmissed' = bmissed
    BY <1>16 DEF UpFromResults
  <2>2. BGood(box', bkey, bmissed) /\ box'.searchActive
    BY <1>0, <2>1, FocusedGood
  <2>. QED  BY <2>1, <2>2, OtherKey DEF BInv
<1>17. CASE ClickClose
  <2>1. BGood(Focused(box, "page"), bkey, bmissed)
    BY <1>0, FocusedGood
  <2>2. BGood(CloseResultsWindow(Focused(box, "page")), bkey, bmissed)
    BY <2>1, ClosedGood
  <2>. QED  BY <1>17, <2>2 DEF ClickClose, userVars, BInv
<1>18. CASE SearchTimer
  <2>1. PICK t \in box.timers : box' = Search(Cleared(box, t[1]))
    BY <1>18 DEF SearchTimer
  <2>2. BGood(Cleared(box, t[1]), bkey, bmissed) /\ Cleared(box, t[1]).searchActive = box.searchActive
    BY <1>0, ClearedGood
  <2>. DEFINE c == Cleared(box, t[1])
  <2>3. BAgree(c) /\ BEmptied(c, bkey, bmissed)
    BY <2>2 DEF BGood
  <2>. HIDE DEF c
  <2>4. BGood(Search(c), bkey, bmissed) /\ Search(c).searchActive = c.searchActive
    BY <2>3, SearchGood
  <2>5. UNCHANGED <<bfocus, bkey, bmissed>>
    BY <1>18 DEF SearchTimer, userVars
  <2>. QED  BY <1>0, <2>1, <2>2, <2>4, <2>5 DEF BInv, c
<1>19. CASE CloseSelectionWindow
  <2>1. PICK t \in box.timers : box' = [Cleared(box, t[1]) EXCEPT !.select = FALSE]
    BY <1>19 DEF CloseSelectionWindow
  <2>2. UNCHANGED <<bfocus, bkey, bmissed>>
    BY <1>19 DEF CloseSelectionWindow, userVars
  <2>. QED  BY <1>0, <2>1, <2>2, ClearedGood DEF BInv
<1>20. CASE UNCHANGED bvars
  BY <1>20 DEF BInv, bvars
<1>. QED
  BY <1>1, <1>2, <1>3, <1>4, <1>5, <1>6, <1>7, <1>8, <1>9, <1>10, <1>11, <1>12, <1>13, <1>14,
     <1>15, <1>16, <1>17, <1>18, <1>19, <1>20 DEF BNext, Release

(* What is searched for is not the label, nor empty, if it is in the field. *)
LEMMA BSafe == BInv => BResultsCurrent
<1>. SUFFICES ASSUME BInv,
                     ~bmissed, box.results, box.searchActive, box.mark # -1,
                     NoSpaces(box.value) # <<>>, NoSpaces(box.value) = NoSpaces(box.lastSearchValue)
              PROVE  box.location = ResultsPage(box.mark, box.lastSearchValue)
  BY DEF BResultsCurrent
<1>1. box.lastSearchValue # <<>>
  BY NoSpacesEmpty
<1>2. box.lastSearchValue # searchLabel
  <2>1. box.value \in Texts \cup {<<>>}
    BY DEF BInv, BGood, BAgree, NoText
  <2>2. NoSpaces(box.value) # searchLabel
    BY <2>1, NoSpacesEmpty, TextsAssumption
  <2>. QED  BY <2>2, LabelHasNoSpaces
<1>. QED  BY <1>1, <1>2 DEF BInv, BGood, BFresh, NoText

(* Whatever a click, a key and a timer do to the section, the text and the  *)
(* results, in whichever order, the results shown for the text in the field *)
(* are those of the marked section, if the field has seen each key released *)
(* (search.js:281-290, 330-393).                                            *)
THEOREM ResultsAreCurrent == BSpec => []BResultsCurrent
<1>1. BSpec => []BInv
  BY BInitially, BStep, PTL DEF BSpec
<1>. QED  BY <1>1, BSafe, PTL

-----------------------------------------------------------------------------
(* SearchResults.  The identifier of a text spells it character by          *)
(* character, and no character's code is the beginning of another's.        *)

Letters == [c \in Nat |-> IF Plain(c) THEN <<c>> ELSE Escaped(c)]

LEMMA NatConcat ==
  \A s, t \in Seq(Nat) :
    /\ s \o t \in Seq(Nat) /\ Len(s) \in Nat /\ Len(t) \in Nat
    /\ Len(s \o t) = Len(s) + Len(t)
    /\ \A i \in 1 .. Len(s) : (s \o t)[i] = s[i]
    /\ \A i \in 1 .. Len(t) : (s \o t)[Len(s) + i] = t[i]
<1>. SUFFICES ASSUME NEW s \in Seq(Nat), NEW t \in Seq(Nat)
              PROVE  /\ s \o t \in Seq(Nat) /\ Len(s) \in Nat /\ Len(t) \in Nat
                     /\ Len(s \o t) = Len(s) + Len(t)
                     /\ \A i \in 1 .. Len(s) : (s \o t)[i] = s[i]
                     /\ \A i \in 1 .. Len(t) : (s \o t)[Len(s) + i] = t[i]
  OBVIOUS
<1>1. Len(s) \in Nat /\ Len(t) \in Nat
  OBVIOUS
<1>2. \A i \in 1 .. Len(s) : i \in 1 .. Len(s) + Len(t) /\ i <= Len(s)
  BY <1>1
<1>3. \A i \in 1 .. Len(t) :
        Len(s) + i \in 1 .. Len(s) + Len(t) /\ ~(Len(s) + i <= Len(s)) /\ (Len(s) + i) - Len(s) = i
  BY <1>1
<1>. QED  BY <1>1, <1>2, <1>3, ConcatProperties

LEMMA NatAssociative == \A s, t, u \in Seq(Nat) : (s \o t) \o u = s \o (t \o u)
<1>. SUFFICES ASSUME NEW s \in Seq(Nat), NEW t \in Seq(Nat), NEW u \in Seq(Nat)
              PROVE  (s \o t) \o u = s \o (t \o u)
  OBVIOUS
<1>. QED  BY ConcatAssociative, SMTT(30)

LEMMA LettersType ==
  /\ Letters \in [Nat -> Seq(Nat)]
  /\ \A c \in Nat : HexDigit(c) \in Nat
<1>1. \A c \in Nat : HexDigit(c) \in Nat
  BY DEF HexDigit
<1>2. ASSUME NEW c \in Nat PROVE Letters[c] \in Seq(Nat)
  <2>1. c \div 16 \in Nat /\ c % 16 \in Nat
    OBVIOUS
  <2>. DEFINE a == HexDigit(0)  b == HexDigit(c)  d == HexDigit(c \div 16)  e == HexDigit(c % 16)
  <2>2. a \in Nat /\ b \in Nat /\ d \in Nat /\ e \in Nat
    BY <1>1, <2>1
  <2>. HIDE DEF a, b, d, e
  <2>3. /\ <<c>> \in Seq(Nat) /\ <<95>> \o <<a, b>> \in Seq(Nat)
        /\ <<95>> \o <<d, e>> \in Seq(Nat)
    <3>1. <<95>> \in Seq(Nat) /\ <<a, b>> \in Seq(Nat) /\ <<d, e>> \in Seq(Nat) /\ <<c>> \in Seq(Nat)
      BY <2>2
    <3>. QED  BY <3>1, ConcatProperties
  <2>. QED  BY <2>3 DEF Letters, Escaped, Underscore, a, b, d, e
<1>. QED  BY <1>1, <1>2 DEF Letters

(* A code is the character itself or "_" and two hexadecimal digits.        *)
LEMMA LetterShape ==
  ASSUME NEW c \in Nat
  PROVE  \/ Plain(c) /\ c # 95 /\ Letters[c] = <<c>>
         \/ /\ c < 128 /\ Len(Letters[c]) = 3 /\ Letters[c][1] = 95
            /\ Letters[c][2] = HexDigit(c \div 16) /\ Letters[c][3] = HexDigit(c % 16)
<1>1. CASE Plain(c)
  BY <1>1 DEF Plain, Letters
<1>2. CASE ~Plain(c)
  <2>1. c < 128
    BY <1>2 DEF Plain
  <2>2. c < 16 => c \div 16 = 0 /\ c % 16 = c
    OBVIOUS
  <2>3. Letters[c] = <<95>> \o <<HexDigit(c \div 16), HexDigit(c % 16)>>
    BY <1>2, <2>2 DEF Letters, Escaped, Underscore
  <2>. DEFINE d == HexDigit(c \div 16)  e == HexDigit(c % 16)
  <2>. HIDE DEF d, e
  <2>4. Letters[c] = <<95, d, e>>
    <3>1. d \in Nat /\ e \in Nat
      <4>1. c \div 16 \in Nat /\ c % 16 \in Nat
        OBVIOUS
      <4>. QED  BY <4>1, LettersType DEF d, e
    <3>2. <<95>> \in Seq(Nat) /\ <<d, e>> \in Seq(Nat) /\ <<95, d, e>> \in Seq(Nat)
      BY <3>1
    <3>. DEFINE u == <<95>> \o <<d, e>>
    <3>3. u \in Seq(Nat) /\ Len(u) = 3 /\ u[1] = 95 /\ u[1 + 1] = d /\ u[1 + 2] = e
      <4>1. Len(<<95>>) = 1 /\ Len(<<d, e>>) = 2
        OBVIOUS
      <4>2. /\ u \in Seq(Nat) /\ Len(u) = 1 + 2
            /\ \A i \in 1 .. 1 : u[i] = <<95>>[i]
            /\ \A i \in 1 .. 2 : u[1 + i] = <<d, e>>[i]
        BY <3>2, <4>1, NatConcat
      <4>. HIDE DEF u
      <4>. QED  BY <4>2
    <3>. HIDE DEF u
    <3>4. u = <<95, d, e>>
      BY <3>3
    <3>. QED  BY <2>3, <3>4 DEF d, e, u
  <2>. QED  BY <2>1, <2>4 DEF d, e
<1>. QED  BY <1>1, <1>2

(* Two codes that go on to the same text are codes of the same character.   *)
LEMMA LettersApart ==
  ASSUME NEW c \in Nat, NEW r \in Seq(Nat), NEW v \in Seq(Nat)
  PROVE  \A d \in Nat : Letters[c] \o r = Letters[d] \o v => c = d
<1>. DEFINE Lc == Letters[c]
<1>0. Lc \in Seq(Nat)
  BY LettersType
<1>. HIDE DEF Lc
<1>1. /\ Lc \in Seq(Nat) /\ Len(Lc) \in Nat /\ Len(r) \in Nat
      /\ Len(Lc \o r) = Len(Lc) + Len(r)
      /\ \A i \in 1 .. Len(Lc) : (Lc \o r)[i] = Lc[i]
  BY <1>0, NatConcat
<1>3. ASSUME NEW d \in Nat, Lc \o r = Letters[d] \o v PROVE c = d
  <2>. DEFINE Ld == Letters[d]
  <2>0. Ld \in Seq(Nat)
    BY LettersType
  <2>5. Lc \o r = Ld \o v
    BY <1>3 DEF Lc
  <2>. HIDE DEF Ld
  <2>1. /\ Ld \in Seq(Nat) /\ Len(Ld) \in Nat /\ Len(v) \in Nat
        /\ \A i \in 1 .. Len(Ld) : (Ld \o v)[i] = Ld[i]
    BY <2>0, NatConcat
  <2>2. \A i \in Nat : i \in 1 .. Len(Lc) /\ i \in 1 .. Len(Ld) => Lc[i] = Ld[i]
    BY <1>1, <2>1, <2>5
  <2>3. CASE Lc = <<c>> /\ c # 95
    <3>1. Len(Lc) = 1 /\ Lc[1] = c
      BY <2>3
    <3>2. 1 \in 1 .. Len(Ld) => Ld[1] = c
      BY <2>2, <3>1
    <3>3. CASE Ld = <<d>>
      <4>1. Len(Ld) = 1 /\ Ld[1] = d
        BY <3>3
      <4>. QED  BY <3>2, <4>1
    <3>4. CASE Len(Ld) = 3 /\ Ld[1] = 95
      BY <2>3, <3>2, <3>4
    <3>. QED  BY <3>3, <3>4, LetterShape DEF Ld
  <2>4. CASE ~(Lc = <<c>> /\ c # 95)
    <3>1. /\ c < 128 /\ Len(Lc) = 3 /\ Lc[1] = 95
          /\ Lc[2] = HexDigit(c \div 16) /\ Lc[3] = HexDigit(c % 16)
      BY <2>4, LetterShape DEF Lc, Ld
    <3>2. ~(Ld = <<d>> /\ d # 95)
      <4>. SUFFICES ASSUME Ld = <<d>>, d # 95 PROVE FALSE
        OBVIOUS
      <4>1. Len(Ld) = 1 /\ Ld[1] = d
        OBVIOUS
      <4>. QED  BY <2>2, <3>1, <4>1
    <3>3. /\ d < 128 /\ Len(Ld) = 3
          /\ Ld[2] = HexDigit(d \div 16) /\ Ld[3] = HexDigit(d % 16)
      BY <3>2, LetterShape DEF Lc, Ld
    <3>4. HexDigit(c \div 16) = HexDigit(d \div 16) /\ HexDigit(c % 16) = HexDigit(d % 16)
      BY <2>2, <3>1, <3>3
    <3>5. \A a, b \in 0 .. 15 : HexDigit(a) = HexDigit(b) => a = b
      BY DEF HexDigit
    <3>6. \A a \in 0 .. 127 : a \div 16 \in 0 .. 15 /\ a % 16 \in 0 .. 15 /\ a = 16 * (a \div 16) + (a % 16)
      OBVIOUS
    <3>8. c \in 0 .. 127 /\ d \in 0 .. 127
      BY <3>1, <3>3
    <3>9. /\ c \div 16 \in 0 .. 15 /\ d \div 16 \in 0 .. 15
          /\ c % 16 \in 0 .. 15 /\ d % 16 \in 0 .. 15
      BY <3>6, <3>8
    <3>7. c \div 16 = d \div 16 /\ c % 16 = d % 16
      BY <3>4, <3>5, <3>9
    <3>. QED  BY <3>6, <3>7, <3>8
  <2>. QED  BY <2>3, <2>4
<1>. QED  BY <1>3 DEF Lc

LEMMA IdIsSpelled ==
  ASSUME NEW s \in Seq(Nat)
  PROVE  convertToId(s) = Spelled(Letters, s) /\ convertToId(s) \in Seq(Nat)
<1>1. \A i \in DOMAIN s : s[i] \in Nat
  OBVIOUS
<1>2. \A i \in DOMAIN s :
        Letters[s[i]] = IF Plain(s[i]) THEN <<s[i]>> ELSE Escaped(s[i])
  BY <1>1 DEF Letters
<1>3. [i \in DOMAIN s |-> Letters[s[i]]]
      = [i \in DOMAIN s |-> IF Plain(s[i]) THEN <<s[i]>> ELSE Escaped(s[i])]
  BY <1>2
<1>4. convertToId(s) = Spelled(Letters, s)
  BY <1>3 DEF convertToId, Spelled
<1>5. Letters \in [Nat -> Seq(Nat)]
  BY LettersType
<1>6. Spelled(Letters, s) \in Seq(Nat)
  BY <1>5, SpelledType
<1>. QED  BY <1>4, <1>6

LEMMA IdAppend ==
  \A s \in Seq(Nat), c \in Nat : convertToId(Append(s, c)) = convertToId(s) \o Letters[c]
<1>. SUFFICES ASSUME NEW s \in Seq(Nat), NEW c \in Nat
              PROVE  convertToId(Append(s, c)) = convertToId(s) \o Letters[c]
  OBVIOUS
<1>1. Letters \in [Nat -> Seq(Nat)]
  BY LettersType
<1>2. Spelled(Letters, Append(s, c)) = Spelled(Letters, s) \o Letters[c]
  BY <1>1, SpelledAppend
<1>3. Append(s, c) \in Seq(Nat)
  OBVIOUS
<1>. QED  BY <1>2, <1>3, IdIsSpelled

(* The identifier of two texts is those of both.                            *)
LEMMA IdConcat ==
  \A s, t \in Seq(Nat) : convertToId(s \o t) = convertToId(s) \o convertToId(t)
<1>. SUFFICES ASSUME NEW s \in Seq(Nat)
              PROVE  \A t \in Seq(Nat) : convertToId(s \o t) = convertToId(s) \o convertToId(t)
  OBVIOUS
<1>. DEFINE Id(u) == convertToId(u)
            S == {u \in Seq(Nat) : Id(s \o u) = Id(s) \o Id(u)}
<1>1. \A u \in Seq(Nat) : Id(u) \in Seq(Nat) /\ \A a \in Nat : Id(Append(u, a)) = Id(u) \o Letters[a]
  BY IdIsSpelled, IdAppend
<1>2. Id(<<>>) = <<>>
  <2>1. <<>> \in Seq(Nat)
    OBVIOUS
  <2>2. convertToId(<<>>) = Spelled(Letters, <<>>)
    BY <2>1, IdIsSpelled
  <2>. QED  BY <2>2, SpelledEmpty
<1>. HIDE DEF Id
<1>4. <<>> \in S
  <2>1. s \o <<>> = s /\ Id(s) \o <<>> = Id(s)
    BY <1>1, ConcatEmptySeq
  <2>2. Id(s \o <<>>) = Id(s) \o Id(<<>>)
    BY <1>2, <2>1
  <2>3. <<>> \in Seq(Nat)
    OBVIOUS
  <2>. QED  BY <2>2, <2>3
<1>5. ASSUME NEW u \in S, NEW a \in Nat PROVE Append(u, a) \in S
  <2>1. u \in Seq(Nat) /\ Append(u, a) \in Seq(Nat) /\ Id(s \o u) = Id(s) \o Id(u) /\ s \o u \in Seq(Nat)
    BY ConcatProperties
  <2>2. s \o Append(u, a) = Append(s \o u, a)
    BY <2>1, AppendToConcat
  <2>3. Letters[a] \in Seq(Nat) /\ Id(u) \in Seq(Nat) /\ Id(s) \in Seq(Nat)
    BY <1>1, <2>1, LettersType
  <2>7. (Id(s) \o Id(u)) \o Letters[a] = Id(s) \o (Id(u) \o Letters[a])
    BY <2>3, NatAssociative
  <2>4. Id(s \o Append(u, a)) = (Id(s) \o Id(u)) \o Letters[a]
    BY <1>1, <2>1, <2>2
  <2>5. Id(Append(u, a)) = Id(u) \o Letters[a]
    BY <1>1, <2>1
  <2>6. Id(s \o Append(u, a)) = Id(s) \o Id(Append(u, a))
    BY <2>3, <2>4, <2>5, <2>7
  <2>. QED  BY <2>1, <2>6
<1>6. S = Seq(Nat)
  <2>1. S \in SUBSET Seq(Nat)
    OBVIOUS
  <2>. HIDE DEF S
  <2>. QED  BY <1>4, <1>5, <2>1, SeqInduction
<1>. QED  BY <1>6 DEF Id

LEMMA IdOne == \A c \in Nat : convertToId(<<c>>) = Letters[c] /\ convertToId(<<>>) = <<>>
<1>. SUFFICES ASSUME NEW c \in Nat
              PROVE  convertToId(<<c>>) = Letters[c] /\ convertToId(<<>>) = <<>>
  OBVIOUS
<1>1. <<>> \in Seq(Nat) /\ <<c>> \in Seq(Nat) /\ <<c>> = Append(<<>>, c)
  OBVIOUS
<1>2. Spelled(Letters, <<c>>) = Spelled(Letters, <<>>) \o Letters[c]
  BY <1>1, LettersType, SpelledAppend
<1>3. Spelled(Letters, <<>>) = <<>> /\ Letters[c] \in Seq(Nat)
  BY SpelledEmpty, LettersType
<1>. QED  BY <1>1, <1>2, <1>3, IdIsSpelled, ConcatEmptySeq

(* A text is found only where a text is that it agrees with, as far as both *)
(* go; what stands behind the identifiers does not matter.                  *)
Begins(s, t) == \E r \in Seq(Nat) : t = s \o r

LEMMA FoundAgrees ==
  ASSUME NEW n \in Seq(Nat), NEW w \in Seq(Nat)
  PROVE  \A q \in Seq(Nat) :
           Begins(convertToId(q), convertToId(n) \o w) => Begins(q, n) \/ Begins(n, q)
<1>. DEFINE S == {q \in Seq(Nat) : Begins(convertToId(q), convertToId(n) \o w) => Begins(q, n) \/ Begins(n, q)}
<1>0. /\ \A s \in Seq(Nat) : convertToId(s) \in Seq(Nat) /\ s \o <<>> = s /\ <<>> \o s = s
      /\ \A s, t \in Seq(Nat) : s \o t \in Seq(Nat)
      /\ <<>> \in Seq(Nat)
  BY IdIsSpelled, NatConcat, ConcatEmptySeq
<1>1. <<>> \in S
  <2>1. Begins(<<>>, n)
    BY <1>0 DEF Begins
  <2>. QED  BY <1>0, <2>1
<1>2. ASSUME NEW p \in S, NEW c \in Nat PROVE Append(p, c) \in S
  <2>1. p \in Seq(Nat) /\ Append(p, c) \in Seq(Nat) /\ <<c>> \in Seq(Nat) /\ Append(p, c) = p \o <<c>>
    BY AppendIsConcat
  <2>2. Begins(convertToId(p), convertToId(n) \o w) => Begins(p, n) \/ Begins(n, p)
    OBVIOUS
  <2>. HIDE DEF S
  <2>. SUFFICES ASSUME Begins(convertToId(Append(p, c)), convertToId(n) \o w)
                PROVE  Begins(Append(p, c), n) \/ Begins(n, Append(p, c))
    BY <2>1 DEF S
  <2>3. convertToId(Append(p, c)) = convertToId(p) \o Letters[c]
    BY <2>1, IdConcat, IdOne
  <2>4. Letters[c] \in Seq(Nat)
    BY LettersType
  <2>5. PICK r \in Seq(Nat) : convertToId(n) \o w = (convertToId(p) \o Letters[c]) \o r
    BY <2>3 DEF Begins
  <2>6. convertToId(n) \o w = convertToId(p) \o (Letters[c] \o r) /\ Letters[c] \o r \in Seq(Nat)
    <3>1. convertToId(p) \in Seq(Nat)
      BY <1>0, <2>1
    <3>2. r \in Seq(Nat)
      OBVIOUS
    <3>3. Letters[c] \o r \in Seq(Nat)
      BY <1>0, <2>4, <3>2
    <3>4. (convertToId(p) \o Letters[c]) \o r = convertToId(p) \o (Letters[c] \o r)
      BY <2>4, <3>1, <3>2, NatAssociative
    <3>. QED  BY <2>5, <3>3, <3>4
  <2>7. Begins(p, n) \/ Begins(n, p)
    BY <2>2, <2>6 DEF Begins
  <2>8. CASE Begins(n, p)
    <3>1. PICK u \in Seq(Nat) : p = n \o u
      BY <2>8 DEF Begins
    <3>2. u \in Seq(Nat) /\ <<c>> \in Seq(Nat) /\ u \o <<c>> \in Seq(Nat)
      BY <1>0, <2>1
    <3>3. (n \o u) \o <<c>> = n \o (u \o <<c>>)
      BY <3>2, NatAssociative, SMTT(30)
    <3>4. Append(p, c) = n \o (u \o <<c>>)
      BY <2>1, <3>1, <3>3
    <3>. QED  BY <3>2, <3>4 DEF Begins
  <2>9. CASE Begins(p, n)
    <3>1. PICK u \in Seq(Nat) : n = p \o u
      BY <2>9 DEF Begins
    <3>2. CASE u = <<>>
      <4>1. Append(p, c) = n \o <<c>>
        BY <1>0, <2>1, <3>1, <3>2
      <4>. QED  BY <2>1, <4>1 DEF Begins
    <3>3. CASE u # <<>>
      <4>1. PICK d \in Nat, v \in Seq(Nat) : u = <<d>> \o v
        <5>1. Head(u) \in Nat /\ Tail(u) \in Seq(Nat) /\ u = <<Head(u)>> \o Tail(u)
          BY <3>3, HeadTailProperties
        <5>. QED  BY <5>1
      <4>2. <<d>> \in Seq(Nat) /\ Letters[d] \in Seq(Nat) /\ convertToId(v) \in Seq(Nat)
        <5>1. <<d>> \in Seq(Nat)
          OBVIOUS
        <5>. QED  BY <1>0, <5>1, LettersType
      <4>. DEFINE x == convertToId(p)  y == Letters[d]  z == convertToId(v)
      <4>0. x \in Seq(Nat) /\ y \in Seq(Nat) /\ z \in Seq(Nat) /\ w \in Seq(Nat)
        BY <1>0, <2>1, <4>2
      <4>3. convertToId(n) = x \o (y \o z)
        <5>1. u \in Seq(Nat)
          OBVIOUS
        <5>2. convertToId(u) = convertToId(<<d>>) \o convertToId(v)
          BY <4>1, <4>2, IdConcat
        <5>3. convertToId(u) = y \o z
          BY <5>2, IdOne
        <5>4. convertToId(n) = convertToId(p) \o convertToId(u)
          BY <2>1, <3>1, <5>1, IdConcat
        <5>. QED  BY <5>3, <5>4
      <4>4. convertToId(n) \o w = x \o (y \o (z \o w)) /\ x \in Seq(Nat) /\ y \o (z \o w) \in Seq(Nat)
        <5>. HIDE DEF x, y, z
        <5>1. y \o (z \o w) \in Seq(Nat)
          BY <4>0, NatConcat
        <5>2. (x \o (y \o z)) \o w = x \o (y \o (z \o w))
          <6>. DEFINE Cat(a, b) == a \o b
          <6>1. \A a, b, e \in Seq(Nat) : Cat(Cat(a, b), e) = Cat(a, Cat(b, e))
            BY NatAssociative
          <6>2. \A a, b \in Seq(Nat) : Cat(a, b) \in Seq(Nat)
            BY NatConcat
          <6>. HIDE DEF Cat
          <6>3. Cat(Cat(x, Cat(y, z)), w) = Cat(x, Cat(y, Cat(z, w)))
            BY <4>0, <6>1, <6>2
          <6>. QED  BY <6>3 DEF Cat
        <5>. QED  BY <4>0, <4>3, <5>1, <5>2
      <4>5. Letters[c] \o r = Letters[d] \o (convertToId(v) \o w)
        <5>. HIDE DEF x, y, z
        <5>1. x \o (Letters[c] \o r) = x \o (y \o (z \o w))
          BY <2>6, <4>4 DEF x
        <5>2. Letters[c] \o r = y \o (z \o w)
          BY <2>6, <4>4, <5>1, ConcatSimplifications
        <5>. QED  BY <5>2 DEF y, z
      <4>6. c = d
        <5>1. convertToId(v) \o w \in Seq(Nat)
          BY <1>0
        <5>. QED  BY <4>5, <5>1, LettersApart
      <4>7. n = Append(p, c) \o v
        <5>1. n = p \o (<<c>> \o v)
          BY <3>1, <4>1, <4>6
        <5>2. v \in Seq(Nat)
          OBVIOUS
        <5>3. (p \o <<c>>) \o v = p \o (<<c>> \o v)
          BY <2>1, <5>2, NatAssociative, SMTT(30)
        <5>. QED  BY <2>1, <5>1, <5>3
      <4>. QED  BY <4>7 DEF Begins
    <3>. QED  BY <3>2, <3>3
  <2>. QED  BY <2>7, <2>8, <2>9
<1>3. S = Seq(Nat)
  <2>1. S \in SUBSET Seq(Nat)
    OBVIOUS
  <2>. HIDE DEF S
  <2>. QED  BY <1>1, <1>2, <2>1, SeqInduction
<1>. QED  BY <1>3

(* The rows shown are chosen when the page is loaded, and stay.             *)
RInv == rquery \in RQueries /\ rshown = {e \in Rows : RMatches(RowId(e), rquery)}

LEMMA RInvariance == RSpec => []RInv
<1>1. RInit => RInv
  BY DEF RInit, RInv
<1>2. RInv /\ [RNext]_rvars => RInv'
  <2>. SUFFICES ASSUME RInv, [RNext]_rvars PROVE UNCHANGED <<rquery, rshown>>
    BY DEF RInv
  <2>. QED  BY DEF RNext, rvars, KeyDown, KeyPress, KeyUp, RTakeFocus, Toggle, pageVars
<1>. QED  BY <1>1, <1>2, PTL DEF RSpec

(* The identifier of a row is that of its name with something behind it.    *)
LEMMA RowIdType ==
  ASSUME NEW e \in Rows
  PROVE  /\ RNames[e] \in Seq(Nat) /\ RowId(e) \in Seq(Nat)
         /\ \E w \in Seq(Nat) : RowId(e) = convertToId(RNames[e]) \o w
<1>1. RNames[e] \in Seq(Nat)
  BY SearchResultsAssumption DEF Rows
<1>2. convertToId(RNames[e]) \in Seq(Nat)
  BY <1>1, IdIsSpelled
<1>3. <<Underscore>> \in Seq(Nat)
  BY DEF Underscore
<1>4. RNumbers[e] \in Seq(Nat)
  <2>1. RNumbers[e] \in Seq(48 .. 57)
    BY SearchResultsAssumption DEF Rows
  <2>. QED  BY <2>1, SeqMonotonic
<1>. DEFINE n == convertToId(RNames[e])  u == <<Underscore>>  d == RNumbers[e]
<1>5. (n \o u) \o d = n \o (u \o d)
  <2>1. n \in Seq(Nat) /\ u \in Seq(Nat) /\ d \in Seq(Nat)
    BY <1>2, <1>3, <1>4
  <2>. HIDE DEF n, u, d
  <2>. QED  BY <2>1, NatAssociative
<1>6. u \o d \in Seq(Nat)
  BY <1>3, <1>4, NatConcat
<1>7. n \o (u \o d) \in Seq(Nat)
  BY <1>2, <1>6, NatConcat
<1>8. RowId(e) = (n \o u) \o d
  BY DEF RowId
<1>. HIDE DEF n, u, d
<1>9. RowId(e) = n \o (u \o d)
  BY <1>5, <1>8, Zenon
<1>. QED  BY <1>1, <1>6, <1>7, <1>9 DEF n

(* The rows shown are those whose name begins with the query, but for a     *)
(* query that goes on behind a whole name with what is spelled like the     *)
(* row's number: no two texts have codes of which one begins with the other *)
(* unless the texts do (search.js:25-46, 503-531).                          *)
THEOREM MatchesAreShown == RSpec => []RShowsMatches
<1>1. RInv => RShowsMatches
  <2>. SUFFICES ASSUME RInv PROVE RShowsMatches
    OBVIOUS
  <2>1. rquery \in Seq(Nat) /\ convertToId(rquery) \in Seq(Nat)
    BY SearchResultsAssumption, IdIsSpelled DEF RInv
  <2>2. ASSUME NEW e \in Rows, IsPrefix(rquery, RNames[e]) PROVE e \in rshown
    <3>1. PICK r \in Seq(Nat) : RNames[e] = rquery \o r
      <4>1. RNames[e] \in Seq(Nat)
        BY RowIdType
      <4>. QED  BY <2>1, <2>2, <4>1, PrefixIsBegin
    <3>2. PICK w \in Seq(Nat) : RowId(e) = convertToId(RNames[e]) \o w
      BY RowIdType
    <3>3. convertToId(RNames[e]) = convertToId(rquery) \o convertToId(r)
      BY <2>1, <3>1, IdConcat
    <3>4. convertToId(r) \in Seq(Nat)
      BY IdIsSpelled
    <3>. DEFINE q == convertToId(rquery)  i == convertToId(r)
    <3>5. q \in Seq(Nat) /\ i \in Seq(Nat) /\ w \in Seq(Nat) /\ RowId(e) = (q \o i) \o w
      BY <2>1, <3>2, <3>3, <3>4
    <3>. HIDE DEF q, i
    <3>6. (q \o i) \o w = q \o (i \o w)
      BY <3>5, NatAssociative
    <3>7. i \o w \in Seq(Nat)
      BY <3>5, NatConcat
    <3>8. RowId(e) = q \o (i \o w)
      BY <3>5, <3>6, Zenon
    <3>9. RowId(e) \in Seq(Nat)
      BY RowIdType
    <3>10. IsPrefix(q, RowId(e))
      BY <3>5, <3>7, <3>8, <3>9, PrefixIsBegin
    <3>. QED  BY <3>10 DEF RInv, RMatches, q
  <2>3. ASSUME NEW e \in rshown
        PROVE  IsPrefix(rquery, RNames[e]) \/ IsPrefix(RNames[e], rquery)
    <3>0. e \in Rows /\ RNames[e] \in Seq(Nat) /\ RowId(e) \in Seq(Nat)
      BY RowIdType DEF RInv
    <3>1. PICK w \in Seq(Nat) : RowId(e) = convertToId(RNames[e]) \o w
      BY <3>0, RowIdType
    <3>2. IsPrefix(convertToId(rquery), RowId(e))
      BY DEF RInv, RMatches
    <3>3. PICK r \in Seq(Nat) : RowId(e) = convertToId(rquery) \o r
      BY <2>1, <3>0, <3>2, PrefixIsBegin
    <3>4. Begins(convertToId(rquery), RowId(e))
      BY <3>3 DEF Begins
    <3>5. Begins(convertToId(rquery), convertToId(RNames[e]) \o w)
      BY <3>1, <3>4
    <3>6. Begins(rquery, RNames[e]) \/ Begins(RNames[e], rquery)
      BY <2>1, <3>0, <3>5, FoundAgrees
    <3>. QED  BY <2>1, <3>0, <3>6, PrefixIsBegin DEF Begins
  <2>. QED  BY <2>2, <2>3 DEF RShowsMatches
<1>. QED  BY <1>1, RInvariance, PTL

(* Up takes back what Down has done, from every row and child, whichever    *)
(* are open, as the rows shown stand together                               *)
(* (search.js:547-587, 618-665, 696-720).                                   *)
THEOREM UpUndoesDown == RSpec => []RUpUndoesDown
<1>1. RInv => RUpUndoesDown
  <2>. SUFFICES ASSUME RInv, NEW e \in rshown,
                       NEW at \in {<<e>>} \cup (IF e \in ropen THEN {<<e, c>> : c \in 1 .. RChildren[e]} ELSE {}),
                       Down(at) # <<>>
                PROVE  Visible(Down(at)) /\ Up(Down(at)) = at
    BY DEF RUpUndoesDown
  <2>1. Rows \subseteq Nat /\ rshown \subseteq Rows /\ e \in Nat
    BY SearchResultsAssumption DEF Rows, RInv
  <2>2. ASSUME NEW f \in rshown, NEW g \in rshown, NEW h \in Rows, f < h, h < g PROVE h \in rshown
    BY <2>1, <2>2, ResultsTogether DEF RInv
  <2>3. Rows = 1 .. Len(RNames) /\ RChildren[e] \in Nat
    BY SearchResultsAssumption, LenProperties DEF Rows, RInv
  <2>4. NavPrev(e) = <<e>>
    <3>. DEFINE up == {f \in rshown : f <= e}
                last == CHOOSE f \in up : \A g \in up : f >= g
    <3>1. e \in up /\ \A g \in up : g \in Nat /\ e >= g
      <4>1. e <= e /\ \A g \in Nat : g <= e => e >= g
        BY <2>1
      <4>. QED  BY <2>1, <4>1
    <3>2. last \in up /\ \A g \in up : last >= g
      BY <3>1
    <3>3. last = e
      <4>. HIDE DEF up, last
      <4>1. last \in Nat /\ e >= last /\ last >= e
        BY <3>1, <3>2
      <4>. QED  BY <2>1, <4>1
    <3>4. NavPrev(e) = IF up = {} THEN <<>> ELSE <<last>>
      BY DEF NavPrev
    <3>. HIDE DEF up, last
    <3>. QED  BY <3>1, <3>3, <3>4
  <2>5. ASSUME NavNext(e + 1) # <<>>
        PROVE  e + 1 \in rshown /\ NavNext(e + 1) = <<e + 1>>
    <3>. DEFINE down == {f \in rshown : f >= e + 1}
                first == CHOOSE f \in down : \A g \in down : f <= g
    <3>1. PICK g \in down : TRUE
      BY <2>5 DEF NavNext
    <3>2. e + 1 \in rshown
      <4>1. CASE g = e + 1
        BY <4>1
      <4>2. CASE g # e + 1
        <5>1. g \in rshown /\ g \in 1 .. Len(RNames) /\ e \in 1 .. Len(RNames) /\ Len(RNames) \in Nat /\ g >= e + 1
          BY <2>1, <2>3, SearchResultsAssumption
        <5>2. e + 1 \in Rows /\ e < e + 1 /\ e + 1 < g
          BY <2>3, <4>2, <5>1
        <5>. QED  BY <2>2, <5>1, <5>2
      <4>. QED  BY <4>1, <4>2
    <3>3. e + 1 \in down /\ \A f \in down : f \in Nat /\ e + 1 <= f
      BY <2>1, <3>2
    <3>4. first \in down /\ \A f \in down : first <= f
      BY <3>3
    <3>5. first = e + 1
      <4>. HIDE DEF down, first
      <4>1. first \in Nat /\ e + 1 <= first /\ first <= e + 1
        BY <3>3, <3>4
      <4>. QED  BY <2>1, <4>1
    <3>6. NavNext(e + 1) = IF down = {} THEN <<>> ELSE <<first>>
      BY DEF NavNext
    <3>. HIDE DEF down, first
    <3>. QED  BY <3>2, <3>3, <3>5, <3>6
  <2>6. ASSUME NavNext(e + 1) # <<>>
        PROVE  /\ Visible(NavNext(e + 1))
               /\ Up(NavNext(e + 1)) = IF e \in ropen /\ RChildren[e] > 0 THEN <<e, RChildren[e]>> ELSE <<e>>
    <3>1. e + 1 \in rshown /\ NavNext(e + 1) = <<e + 1>> /\ (e + 1) - 1 = e
      BY <2>1, <2>5, <2>6
    <3>2. Visible(<<e + 1>>) /\ Up(<<e + 1>>) = RowUp(e + 1)
      BY <3>1 DEF Visible, Up
    <3>3. RowUp(e + 1) = IF e \in ropen /\ RChildren[e] > 0 THEN <<e, RChildren[e]>> ELSE <<e>>
      BY <2>4, <3>1 DEF RowUp
    <3>. QED  BY <3>1, <3>2, <3>3
  <2>7. CASE at = <<e>>
    <3>1. Down(at) = IF e \in ropen THEN <<e, 1>> ELSE NavNext(e + 1)
      BY <2>7 DEF Down, RowDown
    <3>2. CASE e \in ropen
      <4>1. Visible(<<e, 1>>) /\ Up(<<e, 1>>) = <<e>>
        BY <3>2 DEF Visible, Up, ChildUp
      <4>. QED  BY <2>7, <3>1, <3>2, <4>1
    <3>3. CASE e \notin ropen
      BY <2>6, <2>7, <3>1, <3>3
    <3>. QED  BY <3>2, <3>3
  <2>8. ASSUME e \in ropen, NEW c \in 1 .. RChildren[e], at = <<e, c>>
        PROVE  Visible(Down(at)) /\ Up(Down(at)) = at
    <3>1. Down(at) = IF c < RChildren[e] THEN <<e, c + 1>> ELSE NavNext(e + 1)
      BY <2>8 DEF Down, ChildDown
    <3>2. CASE c < RChildren[e]
      <4>1. c \in Nat /\ c + 1 > 1 /\ (c + 1) - 1 = c
        BY <2>3
      <4>2. Visible(<<e, c + 1>>) /\ Up(<<e, c + 1>>) = <<e, c>>
        BY <2>8, <4>1 DEF Visible, Up, ChildUp
      <4>. QED  BY <2>8, <3>1, <3>2, <4>2
    <3>3. CASE ~(c < RChildren[e])
      <4>1. c = RChildren[e] /\ RChildren[e] > 0
        BY <2>3, <3>3
      <4>. QED  BY <2>6, <2>8, <3>1, <3>3, <4>1
    <3>. QED  BY <3>2, <3>3
  <2>. QED  BY <2>7, <2>8
<1>. QED  BY <1>1, RInvariance, PTL

-----------------------------------------------------------------------------
(* Marks.  A queue is delays, each with the removal behind it.              *)

Pairs(queue) ==
  /\ Len(queue) % 2 = 0
  /\ \A i \in 1 .. Len(queue) : queue[i] = IF i % 2 = 1 THEN "delay" ELSE "removeClass"

Copies == {<<b, WithoutNewlines(TextContent(Fragments[b]))>> : b \in DOMAIN Fragments}

MInv ==
  /\ mtimers \in [DOMAIN Fragments -> Nat]
  /\ \A b \in msuccess : b \in DOMAIN Fragments /\ mtimers[b] > 0
  /\ mqueue \in [Elements -> Seq({"delay", "removeClass"})]
  /\ \A n \in Elements : Pairs(mqueue[n])
  /\ \A n \in mglow : n \in Elements /\ mqueue[n] # <<>>
  /\ mwrites \in Seq(Copies) /\ mclipboard \in Copies \cup {<<>>}

(* A delay and a removal more, or less, and they are pairs still.           *)
LEMMA PairsFacts ==
  ASSUME NEW q \in Seq({"delay", "removeClass"}), Pairs(q)
  PROVE  /\ q \o <<"delay", "removeClass">> \in Seq({"delay", "removeClass"})
         /\ q \o <<"delay", "removeClass">> # <<>>
         /\ Pairs(q \o <<"delay", "removeClass">>)
         /\ q # <<>> => /\ Tail(Tail(q)) \in Seq({"delay", "removeClass"}) /\ Pairs(Tail(Tail(q)))
                        /\ IsPrefix(<<"delay", "removeClass">>, q)
<1>. DEFINE E == {"delay", "removeClass"}
            pair == <<"delay", "removeClass">>
            longer == q \o pair
<1>1. Len(q) \in Nat /\ pair \in Seq(E) /\ Len(pair) = 2 /\ pair[1] = "delay" /\ pair[2] = "removeClass"
  OBVIOUS
<1>2. /\ longer \in Seq(E) /\ Len(longer) = Len(q) + 2
      /\ \A i \in 1 .. Len(q) + 2 : longer[i] = IF i <= Len(q) THEN q[i] ELSE pair[i - Len(q)]
  <2>1. q \in Seq(E)
    OBVIOUS
  <2>. HIDE DEF E, pair
  <2>2. longer \in Seq(E)
    BY <1>1, <2>1, ConcatProperties
  <2>3. Len(longer) = Len(q) + Len(pair)
    BY <1>1, <2>1, ConcatProperties
  <2>4. \A i \in 1 .. Len(q) + Len(pair) : longer[i] = IF i <= Len(q) THEN q[i] ELSE pair[i - Len(q)]
    BY <1>1, <2>1, ConcatProperties
  <2>. HIDE DEF longer
  <2>. QED  BY <1>1, <2>2, <2>3, <2>4
<1>3. longer # <<>> /\ Pairs(longer)
  <2>. HIDE DEF longer
  <2>1. longer # <<>>
    BY <1>1, <1>2
  <2>2. (Len(q) + 2) % 2 = 0
    BY <1>1 DEF Pairs
  <2>3. ASSUME NEW i \in 1 .. Len(q) + 2
        PROVE  longer[i] = IF i % 2 = 1 THEN "delay" ELSE "removeClass"
    <3>1. CASE i <= Len(q)
      <4>1. i \in 1 .. Len(q)
        BY <1>1, <3>1
      <4>. QED  BY <1>2, <3>1, <4>1 DEF Pairs
    <3>2. CASE i = Len(q) + 1
      <4>1. i - Len(q) = 1 /\ ~(i <= Len(q)) /\ i % 2 = 1
        BY <1>1, <3>2 DEF Pairs
      <4>. QED  BY <1>1, <1>2, <4>1
    <3>3. CASE i = Len(q) + 2
      <4>1. i - Len(q) = 2 /\ ~(i <= Len(q)) /\ i % 2 = 0
        BY <1>1, <3>3 DEF Pairs
      <4>. QED  BY <1>1, <1>2, <4>1
    <3>4. i <= Len(q) \/ i = Len(q) + 1 \/ i = Len(q) + 2
      BY <1>1
    <3>. QED  BY <3>1, <3>2, <3>3, <3>4
  <2>. QED  BY <1>2, <2>1, <2>2, <2>3 DEF Pairs
<1>4. ASSUME q # <<>>
      PROVE  /\ Tail(Tail(q)) \in Seq(E) /\ Pairs(Tail(Tail(q)))
             /\ IsPrefix(pair, q)
  <2>1. Len(q) >= 2
    <3>1. Len(q) > 0
      BY <1>4
    <3>. QED  BY <1>1, <3>1 DEF Pairs
  <2>. DEFINE t == Tail(q)
  <2>2. t \in Seq(E) /\ Len(t) = Len(q) - 1 /\ \A i \in 1 .. Len(t) : t[i] = q[i + 1]
    <3>1. q \in Seq(E)
      OBVIOUS
    <3>. HIDE DEF E
    <3>. QED  BY <1>4, <3>1, HeadTailProperties
  <2>. HIDE DEF t
  <2>3. t # <<>>
    BY <1>1, <2>1, <2>2
  <2>. DEFINE u == Tail(t)
  <2>4. u \in Seq(E) /\ Len(u) = Len(t) - 1 /\ \A i \in 1 .. Len(u) : u[i] = t[i + 1]
    <3>. HIDE DEF E
    <3>. QED  BY <2>2, <2>3, HeadTailProperties
  <2>. HIDE DEF u
  <2>5. Len(u) = Len(q) - 2 /\ \A i \in 1 .. Len(u) : u[i] = q[i + 2]
    <3>1. \A i \in 1 .. Len(u) : i + 1 \in 1 .. Len(t) /\ (i + 1) + 1 = i + 2
      BY <1>1, <2>2, <2>4
    <3>. QED  BY <1>1, <2>2, <2>4, <3>1
  <2>6. Pairs(u)
    <3>1. (Len(q) - 2) % 2 = 0
      BY <1>1 DEF Pairs
    <3>2. \A i \in 1 .. Len(u) : i + 2 \in 1 .. Len(q) /\ (i + 2) % 2 = i % 2
      BY <1>1, <2>5
    <3>. QED  BY <2>5, <3>1, <3>2 DEF Pairs
  <2>7. IsPrefix(pair, q)
    <3>1. q[1] = "delay" /\ q[2] = "removeClass"
      <4>1. 1 \in 1 .. Len(q) /\ 2 \in 1 .. Len(q) /\ 1 % 2 = 1 /\ 2 % 2 = 0
        BY <1>1, <2>1
      <4>. QED  BY <4>1 DEF Pairs
    <3>2. \A i \in 1 .. 2 : pair[i] = q[i]
      BY <1>1, <3>1
    <3>3. q \in Seq(E)
      OBVIOUS
    <3>. HIDE DEF E, pair
    <3>4. SubSeq(q, 1, 2) = [i \in 1 .. 2 |-> q[i]]
      BY <1>1, <2>1, <3>3
    <3>5. SubSeq(pair, 1, 2) = [i \in 1 .. 2 |-> pair[i]]
      BY <1>1
    <3>6. SubSeq(pair, 1, 2) = SubSeq(q, 1, 2)
      BY <3>2, <3>4, <3>5
    <3>. QED  BY <1>1, <2>1, <3>6 DEF IsPrefix
  <2>. QED  BY <2>4, <2>6, <2>7 DEF t, u
<1>. QED  BY <1>2, <1>3, <1>4

LEMMA MStep == MInv /\ [Buttons \/ Glow]_mvars => MInv'
<1>. SUFFICES ASSUME MInv, [Buttons \/ Glow]_mvars PROVE MInv'
  OBVIOUS
<1>1. ASSUME NEW b \in DOMAIN Fragments, copyContent(b) PROVE MInv'
  <2>1. <<b, WithoutNewlines(TextContent(Fragments[b]))>> \in Copies
    BY DEF Copies
  <2>2. mwrites' \in Seq(Copies)
    <3>. HIDE DEF Copies
    <3>. QED  BY <1>1, <2>1 DEF copyContent, MInv
  <2>3. /\ mtimers' \in [DOMAIN Fragments -> Nat]
        /\ \A c \in msuccess' : c \in DOMAIN Fragments /\ mtimers'[c] > 0
    BY <1>1 DEF copyContent, MInv
  <2>. QED  BY <1>1, <2>2, <2>3 DEF copyContent, MInv
<1>2. CASE WriteEnds
  <2>1. Head(mwrites) \in Copies /\ Tail(mwrites) \in Seq(Copies)
    BY <1>2, HeadTailProperties DEF WriteEnds, MInv
  <2>. QED  BY <1>2, <2>1 DEF WriteEnds, MInv
<1>3. ASSUME NEW b \in DOMAIN Fragments, SuccessOver(b) PROVE MInv'
  BY <1>3 DEF SuccessOver, MInv
<1>4. ASSUME NEW a \in MAnchors, highlightAnchor(a) PROVE MInv'
  <2>1. Marked(a) \subseteq Elements
    BY DEF Elements
  <2>2. /\ mglow' = mglow \cup Marked(a)
        /\ mqueue' = [n \in Elements |-> IF n \in Marked(a) THEN mqueue[n] \o <<"delay", "removeClass">> ELSE mqueue[n]]
        /\ UNCHANGED <<mclipboard, mwrites, msuccess, mtimers>>
    BY <1>4 DEF highlightAnchor, glowEffect
  <2>3. ASSUME NEW n \in Elements
        PROVE  /\ mqueue'[n] \in Seq({"delay", "removeClass"}) /\ Pairs(mqueue'[n])
               /\ n \in Marked(a) => mqueue'[n] # <<>>
               /\ mqueue[n] # <<>> => mqueue'[n] # <<>>
    <3>1. mqueue[n] \in Seq({"delay", "removeClass"}) /\ Pairs(mqueue[n])
      BY DEF MInv
    <3>. DEFINE longer == mqueue[n] \o <<"delay", "removeClass">>
    <3>2. longer \in Seq({"delay", "removeClass"}) /\ longer # <<>> /\ Pairs(longer)
      BY <3>1, PairsFacts
    <3>3. mqueue'[n] = IF n \in Marked(a) THEN longer ELSE mqueue[n]
      BY <2>2
    <3>. HIDE DEF longer
    <3>. QED  BY <3>1, <3>2, <3>3
  <2>4. mqueue' \in [Elements -> Seq({"delay", "removeClass"})]
    <3>1. mqueue' = [n \in Elements |-> mqueue'[n]]
      BY <2>2
    <3>. QED  BY <2>3, <3>1
  <2>5. \A n \in mglow' : n \in Elements /\ mqueue'[n] # <<>>
    BY <2>1, <2>2, <2>3 DEF MInv
  <2>. QED  BY <2>2, <2>3, <2>4, <2>5 DEF MInv
<1>5. ASSUME NEW n \in Elements, GlowOver(n) PROVE MInv'
  <2>1. /\ mqueue[n] # <<>> /\ mglow' = mglow \ {n}
        /\ mqueue' = [mqueue EXCEPT ![n] = Tail(Tail(mqueue[n]))]
        /\ UNCHANGED <<mclipboard, mwrites, msuccess, mtimers>>
    BY <1>5 DEF GlowOver
  <2>. DEFINE rest == Tail(Tail(mqueue[n]))
  <2>2. rest \in Seq({"delay", "removeClass"}) /\ Pairs(rest)
    <3>1. mqueue[n] \in Seq({"delay", "removeClass"}) /\ Pairs(mqueue[n])
      BY DEF MInv
    <3>. QED  BY <2>1, <3>1, PairsFacts
  <2>. HIDE DEF rest
  <2>3. mqueue' = [mqueue EXCEPT ![n] = rest]
    BY <2>1 DEF rest
  <2>4. mqueue' \in [Elements -> Seq({"delay", "removeClass"})] /\ \A m \in Elements : Pairs(mqueue'[m])
    BY <2>2, <2>3 DEF MInv
  <2>5. \A m \in mglow' : m \in Elements /\ mqueue'[m] # <<>>
    BY <2>1, <2>3 DEF MInv
  <2>. QED  BY <2>1, <2>4, <2>5 DEF MInv
<1>6. CASE UNCHANGED mvars
  BY <1>6 DEF MInv, mvars
<1>. QED  BY <1>1, <1>2, <1>3, <1>4, <1>5, <1>6 DEF Buttons, Glow

LEMMA MInvariance == MSpec => []MInv
<1>1. MInit => MInv
  <2>. SUFFICES ASSUME MInit PROVE MInv
    OBVIOUS
  <2>1. <<>> \in Seq({"delay", "removeClass"}) /\ <<>> \in Seq(Copies) /\ Pairs(<<>>)
    BY DEF Pairs
  <2>. QED  BY <2>1 DEF MInit, MInv
<1>. QED  BY <1>1, MStep, PTL DEF MSpec

(* Whatever is clicked again before it is over, a button that shows success *)
(* has a timer running, and an element that glows has a delay and the       *)
(* removal of its class at the head of its queue                            *)
(* (copy-button.js:76-82, navtree.js:288-292).                              *)
THEOREM MarkHasTimer == MSpec => []MMarkHasTimer
<1>1. MInv => MMarkHasTimer
  <2>. SUFFICES ASSUME MInv PROVE MMarkHasTimer
    OBVIOUS
  <2>1. ASSUME NEW n \in mglow PROVE IsPrefix(<<"delay", "removeClass">>, mqueue[n])
    <3>1. mqueue[n] \in Seq({"delay", "removeClass"}) /\ Pairs(mqueue[n]) /\ mqueue[n] # <<>>
      BY DEF MInv
    <3>. QED  BY <3>1, PairsFacts
  <2>. QED  BY <2>1 DEF MInv, MMarkHasTimer
<1>. QED  BY <1>1, MInvariance, PTL

(* A text without its newlines at the end is what is in front of them.      *)
LEMMA NewlinesCut ==
  ASSUME NEW text \in Seq(STRING)
  PROVE  LET kept == WithoutNewlines(text)
             rest == SubSeq(text, Len(kept) + 1, Len(text))
         IN /\ IsPrefix(kept, text)
            /\ \A i \in DOMAIN rest : rest[i] = "n"
            /\ kept # <<>> => Last(kept) # "n"
<1>. DEFINE keeps == {k \in DOMAIN text : text[k] # "n"}
            greatest == CHOOSE k \in keeps : \A j \in keeps : j <= k
            last == IF keeps = {} THEN 0 ELSE greatest
            kept == WithoutNewlines(text)
            rest == SubSeq(text, Len(kept) + 1, Len(text))
<1>1. Len(text) \in Nat /\ DOMAIN text = 1 .. Len(text) /\ \A i \in 1 .. Len(text) : text[i] \in STRING
  OBVIOUS
<1>2. keeps # {} => greatest \in keeps /\ \A j \in keeps : j <= greatest
  <2>1. keeps # {} => \E k \in keeps : \A j \in keeps : j <= k
    <3>1. keeps \in SUBSET (1 .. Len(text))
      BY <1>1
    <3>. HIDE DEF keeps
    <3>. QED  BY <1>1, <3>1, GreatestExists
  <2>. HIDE DEF keeps
  <2>. QED  BY <2>1
<1>3. /\ last \in 0 .. Len(text)
      /\ last # 0 => text[last] # "n"
      /\ \A i \in last + 1 .. Len(text) : text[i] = "n"
  <2>1. CASE keeps = {}
    BY <1>1, <2>1
  <2>2. CASE keeps # {}
    <3>1. greatest \in 1 .. Len(text) /\ text[greatest] # "n"
      BY <1>1, <1>2, <2>2
    <3>2. ASSUME NEW i \in greatest + 1 .. Len(text) PROVE text[i] = "n"
      <4>1. i \in 1 .. Len(text) /\ ~(i <= greatest)
        BY <1>1, <3>1
      <4>2. i \notin keeps
        <5>. HIDE DEF greatest, keeps
        <5>. QED  BY <1>2, <2>2, <4>1
      <4>. QED  BY <1>1, <4>1, <4>2
    <3>. HIDE DEF greatest
    <3>. QED  BY <1>1, <2>2, <3>1, <3>2
  <2>. QED  BY <2>1, <2>2
<1>4. kept = SubSeq(text, 1, last)
  BY DEF WithoutNewlines
<1>. HIDE DEF last, kept
<1>5. kept \in Seq(STRING) /\ Len(kept) = last /\ \A i \in 1 .. last : kept[i] = text[i]
  <2>1. last \in Int /\ \A i \in 1 .. last : text[i] \in STRING
    BY <1>1, <1>3
  <2>2. /\ SubSeq(text, 1, last) \in Seq(STRING)
        /\ Len(SubSeq(text, 1, last)) = IF 1 <= last THEN last - 1 + 1 ELSE 0
        /\ \A i \in 1 .. last - 1 + 1 : SubSeq(text, 1, last)[i] = text[1 + i - 1]
    BY <2>1, SubSeqProperties
  <2>3. \A i \in 1 .. last : 1 + i - 1 = i /\ i \in 1 .. last - 1 + 1
    BY <1>3
  <2>. QED  BY <1>3, <1>4, <2>2, <2>3
<1>6. IsPrefix(kept, text)
  <2>1. SubSeq(kept, 1, Len(kept)) = kept
    BY <1>5, SubSeqFull
  <2>2. SubSeq(text, 1, Len(kept)) = kept
    BY <1>4, <1>5
  <2>. QED  BY <1>1, <1>3, <1>5, <2>1, <2>2 DEF IsPrefix
<1>7. \A i \in DOMAIN rest : rest[i] = "n"
  <2>1. \A i \in last + 1 .. Len(text) : text[i] \in STRING
    BY <1>1, <1>3
  <2>2. last + 1 \in Int /\ Len(text) \in Int
    BY <1>1, <1>3
  <2>3. /\ SubSeq(text, last + 1, Len(text)) \in Seq(STRING)
        /\ Len(SubSeq(text, last + 1, Len(text))) = IF last + 1 <= Len(text) THEN Len(text) - (last + 1) + 1 ELSE 0
        /\ \A i \in 1 .. Len(text) - (last + 1) + 1 : SubSeq(text, last + 1, Len(text))[i] = text[(last + 1) + i - 1]
    BY <2>1, <2>2, SubSeqProperties
  <2>4. rest = SubSeq(text, last + 1, Len(text))
    BY <1>5
  <2>. HIDE DEF rest
  <2>5. rest \in Seq(STRING) /\ Len(rest) = Len(text) - last /\ \A i \in 1 .. Len(text) - (last + 1) + 1 : rest[i] = text[(last + 1) + i - 1]
    <3>. DEFINE cut == SubSeq(text, last + 1, Len(text))
    <3>. HIDE DEF cut
    <3>1. Len(cut) = Len(text) - last
      <4>1. (IF last + 1 <= Len(text) THEN Len(text) - (last + 1) + 1 ELSE 0) = Len(text) - last
        <5>1. \A l \in Nat : \A k \in 0 .. l : (IF k + 1 <= l THEN l - (k + 1) + 1 ELSE 0) = l - k
          OBVIOUS
        <5>. QED  BY <1>1, <1>3, <5>1
      <4>. QED  BY <2>3, <4>1 DEF cut
    <3>2. cut \in Seq(STRING)
      BY <2>3 DEF cut
    <3>3. \A i \in 1 .. Len(text) - (last + 1) + 1 : cut[i] = text[(last + 1) + i - 1]
      BY <2>3 DEF cut
    <3>4. rest = cut
      BY <2>4 DEF cut
    <3>. QED  BY <3>1, <3>2, <3>3, <3>4, Zenon
  <2>6. ASSUME NEW i \in DOMAIN rest PROVE rest[i] = "n"
    <3>1. i \in 1 .. Len(text) - last
      BY <2>5
    <3>2. i \in 1 .. Len(text) - (last + 1) + 1 /\ (last + 1) + i - 1 \in last + 1 .. Len(text)
      BY <1>1, <1>3, <3>1
    <3>. QED  BY <1>3, <2>5, <3>2
  <2>. QED  BY <2>6
<1>8. kept # <<>> => Last(kept) # "n"
  <2>1. kept # <<>> => last # 0 /\ last \in 1 .. last
    BY <1>3, <1>5
  <2>. QED  BY <1>3, <1>5, <2>1 DEF Last
<1>. QED  BY <1>6, <1>7, <1>8 DEF kept

(* Line numbers and tooltips are what is not a line.                        *)
LEMMA CopiedIsCode ==
  ASSUME NEW b \in DOMAIN Fragments
  PROVE  /\ TextContent(Fragments[b]) \in Seq(STRING)
         /\ TextContent(Fragments[b]) =
              FlattenSeq([i \in DOMAIN Fragments[b] |-> IF Fragments[b][i][1] = "line" THEN Fragments[b][i][2] ELSE <<>>])
<1>. DEFINE fragment == Fragments[b]
            N == {"line", "lineno", "ttc"} \X Seq(STRING)
            T == Seq(STRING)
            copied == [i \in DOMAIN fragment |-> IF fragment[i][1] \in {"lineno", "ttc"} THEN <<>> ELSE fragment[i][2]]
            code == [i \in DOMAIN fragment |-> IF fragment[i][1] = "line" THEN fragment[i][2] ELSE <<>>]
<1>1. fragment \in Seq(N)
  <2>1. Fragments \in Seq(Seq(N))
    BY MarksAssumption
  <2>. HIDE DEF N
  <2>. QED  BY <2>1
<1>2. DOMAIN fragment = 1 .. Len(fragment) /\ Len(fragment) \in Nat /\ \A i \in DOMAIN fragment : fragment[i] \in N
  <2>. HIDE DEF N
  <2>. QED  BY <1>1
<1>3. \A i \in DOMAIN fragment : fragment[i][1] \in {"line", "lineno", "ttc"} /\ fragment[i][2] \in T
  <2>. HIDE DEF T, fragment
  <2>. QED  BY <1>2 DEF T
<1>4. copied = code
  BY <1>3
<1>5. copied \in Seq(T)
  <2>1. \A i \in DOMAIN fragment : copied[i] \in T
    <3>1. <<>> \in T
      OBVIOUS
    <3>. HIDE DEF T, fragment
    <3>. QED  BY <1>3, <3>1
  <2>2. copied \in [1 .. Len(fragment) -> T]
    <3>. HIDE DEF T, fragment
    <3>. QED  BY <1>2, <2>1
  <2>. HIDE DEF T, fragment, copied
  <2>. QED  BY <1>2, <2>2
<1>6. FlattenSeq(copied) \in Seq(STRING)
  <2>. HIDE DEF copied
  <2>. QED  BY <1>5, FlattenType
<1>7. TextContent(fragment) = FlattenSeq(copied)
  BY DEF TextContent
<1>. HIDE DEF copied
<1>. QED  BY <1>4, <1>6, <1>7

(* What is in the clipboard, however many listings were copied and          *)
(* whichever writes have failed, is the code of one listing from its first  *)
(* line to the last that is not empty (copy-button.js:62-75).               *)
THEOREM CodeIsPasted == MSpec => []MPastesCode
<1>0. MInv => MPastesCode
  <2>. SUFFICES ASSUME MInv, mclipboard # <<>> PROVE MPastesCode
    BY DEF MPastesCode
  <2>1. PICK b \in DOMAIN Fragments : mclipboard = <<b, WithoutNewlines(TextContent(Fragments[b]))>>
    BY DEF MInv, Copies
  <2>. DEFINE text == TextContent(Fragments[b])
              kept == WithoutNewlines(text)
              all == FlattenSeq([i \in DOMAIN Fragments[b] |-> IF Fragments[b][i][1] = "line" THEN Fragments[b][i][2] ELSE <<>>])
  <2>2. text \in Seq(STRING) /\ text = all
    BY CopiedIsCode
  <2>. HIDE DEF text, all
  <2>3. /\ IsPrefix(kept, text)
        /\ \A i \in DOMAIN SubSeq(text, Len(kept) + 1, Len(text)) : SubSeq(text, Len(kept) + 1, Len(text))[i] = "n"
        /\ kept # <<>> => Last(kept) # "n"
    BY <2>2, NewlinesCut
  <2>. HIDE DEF kept
  <2>4. mclipboard[1] = b /\ mclipboard[2] = kept
    BY <2>1 DEF kept, text
  <2>5. /\ IsPrefix(kept, all)
        /\ \A i \in DOMAIN SubSeq(all, Len(kept) + 1, Len(all)) : SubSeq(all, Len(kept) + 1, Len(all))[i] = "n"
        /\ kept # <<>> => Last(kept) # "n"
    BY <2>2, <2>3, Zenon
  <2>. QED  BY <2>4, <2>5, Zenon DEF MPastesCode, all
<1>. QED  BY <1>0, MInvariance, PTL
==============================================================================
