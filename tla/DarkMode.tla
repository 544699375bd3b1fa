------------------------------- MODULE DarkMode -------------------------------
(***************************************************************************)
(* The button that switches the documentation between its light and its    *)
(* dark theme (doxygen-awesome-darkmode-toggle.js).  The tabs of a browser *)
(* share what it keeps in localStorage: for each preference of the system, *)
(* whether the reader has chosen the other theme.  A tab learns of changes *)
(* by events, one "change" of the system and one "visibilitychange" when   *)
(* it comes to the front, which wait until the tab handles them.           *)
(*                                                                         *)
(* A theme is TRUE for dark, FALSE for light, and a definition marked      *)
(* "Slip" is the next one with a mistake in it.                            *)
(***************************************************************************)
CONSTANT Tabs   \* the tabs of the browser's window

VARIABLES
  dsystem,    \* the system's preference
  doverride,  \* system preference -> the other theme is chosen (localStorage)
  dfront,     \* the tab in front, or "none"
  dtab        \* each tab's page

dvars == <<dsystem, doverride, dfront, dtab>>

ASSUME DarkModeAssumption == "none" \notin Tabs

Closed == [open |-> FALSE, darkModeEnabled |-> FALSE, theme |-> FALSE,
           button |-> FALSE, icon |-> FALSE, events |-> {}]

DInit ==
  /\ dsystem \in BOOLEAN
  /\ doverride = [s \in BOOLEAN |-> FALSE]
  /\ dfront = "none"
  /\ dtab = [t \in Tabs |-> Closed]

-----------------------------------------------------------------------------
(* The two items of localStorage say "the other theme".                     *)
Chosen(system, override) == IF override[system] THEN ~system ELSE system
userPreference == Chosen(dsystem, doverride)

EnableDarkMode(page, enable) ==
  [page EXCEPT !.darkModeEnabled = enable, !.theme = enable]

UpdateIcon(page) == [page EXCEPT !.icon = IF page.button THEN page.darkModeEnabled ELSE @]

(* Slip: what the page shows is not read again.                             *)
KeepsTheme(page) == EnableDarkMode(page, page.darkModeEnabled)

OnSystemPreferenceChanged(page) == EnableDarkMode(page, userPreference)

(* What the setter of userPreference stores: an item is set, or removed.    *)
Stored(preference) == [doverride EXCEPT ![dsystem] = preference # dsystem]

-----------------------------------------------------------------------------
(* The script is loaded, in front or behind.                                *)
LoadScript(t) ==
  /\ ~dtab[t].open
  /\ dtab' = [dtab EXCEPT ![t] = EnableDarkMode([Closed EXCEPT !.open = TRUE], userPreference)]
  /\ dfront' \in {dfront, t}
  /\ UNCHANGED <<dsystem, doverride>>

(* The document is ready: the button is made, with its listeners.           *)
DocumentReady(t) ==
  /\ dtab[t].open /\ ~dtab[t].button
  /\ dtab' = [dtab EXCEPT ![t] = UpdateIcon([@ EXCEPT !.button = TRUE])]
  /\ UNCHANGED <<dsystem, doverride, dfront>>

ToggleDarkMode(t) ==
  LET preference == ~userPreference IN
  /\ dfront = t /\ dtab[t].button /\ "visibilitychange" \notin dtab[t].events
  /\ doverride' = Stored(preference)
  /\ dtab' = [dtab EXCEPT ![t] = UpdateIcon(EnableDarkMode(@, preference))]
  /\ UNCHANGED <<dsystem, dfront>>

(* An event: the script's listener, then the button's.                      *)
Handle(t) ==
  \E event \in dtab[t].events :
    LET page == [dtab[t] EXCEPT !.events = @ \ {event}] IN
    /\ dtab' = [dtab EXCEPT ![t] = IF event = "visibilitychange" /\ dfront # t THEN page
                                   ELSE UpdateIcon(OnSystemPreferenceChanged(page))]
    /\ UNCHANGED <<dsystem, doverride, dfront>>

SystemChange ==
  /\ dsystem' = ~dsystem
  /\ dtab' = [t \in Tabs |-> IF dtab[t].open
                             THEN [dtab[t] EXCEPT !.events = @ \cup {"change"}]
                             ELSE dtab[t]]
  /\ UNCHANGED <<doverride, dfront>>

BringToFront(t) ==
  /\ dfront # t /\ dtab[t].open
  /\ dfront' = t
  /\ dtab' = [dtab EXCEPT ![t].events = @ \cup {"visibilitychange"}]
  /\ UNCHANGED <<dsystem, doverride>>

Minimise ==
  /\ dfront # "none"
  /\ dfront' = "none"
  /\ UNCHANGED <<dsystem, doverride, dtab>>

Close(t) ==
  /\ dtab[t].open
  /\ dtab' = [dtab EXCEPT ![t] = Closed]
  /\ dfront' = IF dfront = t THEN "none" ELSE dfront
  /\ UNCHANGED <<dsystem, doverride>>

DNext ==
  \/ \E t \in Tabs : LoadScript(t) \/ DocumentReady(t) \/ ToggleDarkMode(t) \/ Handle(t)
                     \/ BringToFront(t) \/ Close(t)
  \/ SystemChange \/ Minimise

-----------------------------------------------------------------------------
(* Properties.                                                              *)

UpToDate(t) == dfront = t /\ dtab[t].events = {}

(* The tab in front shows the theme that is chosen, and its button the icon *)
(* of that theme, whatever was chosen in the other tabs while it was behind *)
(* and whatever the system did (lines 43-55, 65-72).                        *)
DFrontIsChosen ==
  \A t \in Tabs :
    UpToDate(t) => /\ dtab[t].theme = userPreference
                   /\ dtab[t].button => dtab[t].icon = dtab[t].theme

(* What is chosen under one preference of the system is not lost or changed *)
(* by what is done under the other (lines 104-118).                         *)
DChoicesApart ==
  [][\A s \in BOOLEAN : doverride'[s] # doverride[s] => s = dsystem]_dvars
=============================================================================
