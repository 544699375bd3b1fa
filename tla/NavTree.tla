------------------------------- MODULE NavTree -------------------------------
(***************************************************************************)
(* The navigation tree of the documentation's pages                        *)
(* (src/docs/documentation/html/navtree.js).  Parts of the tree and of the *)
(* index from links to places in it are scripts, loaded when first needed: *)
(* each answers some time later, by a callback, and in any order.          *)
(*                                                                         *)
(* A node is its path: <<>> is o.node, <<0>> its only child, and so on.  A *)
(* link is <<page, hash>>.  A definition marked "Slip" is the next with a  *)
(* mistake in it.                                                          *)
(***************************************************************************)
EXTENDS Integers, Sequences, FiniteSets

CONSTANTS
  NNodes,      \* the paths of NAVTREE and of all that can be loaded
  NLazy,       \* those whose childrenData is at first the name of a script
  NUrl,        \* the link of each
  NIndexed,    \* the links of NAVTREEINDEX, each with its place below <<0>>
  NFile,       \* the script of the index for each page
  NPages,      \* the pages a reader opens
  NHashes,     \* the hashes on each; "" is none, "line" that of a line number
  NMaxScripts  \* bound: scripts under way when the reader does something

IsLink(link) == link = <<link[1], link[2]>>
NParent(n) == SubSeq(n, 1, Len(n) - 1)
Ancestors(n) == {SubSeq(n, 1, k) : k \in 0 .. Len(n) - 1}

(* As the scripts of the tree and of the index have it.  Several nodes may  *)
(* have one link: a member is below its namespace, its class and its file.  *)
(* The index has each link with a hash, at one of its nodes; a source file  *)
(* without a node has that of its header.                                   *)
ASSUME NavTreeAssumption ==
  /\ NNodes \subseteq Seq(Nat) /\ \A n \in NNodes : Ancestors(n) \subseteq NNodes
  /\ <<>> \in NNodes /\ <<0>> \in NNodes /\ NLazy \subseteq NNodes \ {<<>>, <<0>>}
  /\ \A n \in NNodes : IsLink(NUrl[n]) /\ (NUrl[n][2] # "" => NUrl[n] \in DOMAIN NIndexed)
  /\ NUrl[<<0>>][2] = ""
  /\ \A link \in DOMAIN NIndexed : LET place == <<0>> \o NIndexed[link] IN
       /\ NIndexed[link] \in Seq(Nat) /\ place \in NNodes
       /\ NUrl[place] = link \/ (link[2] = "" /\ NUrl[place][2] = "")
  /\ \A p \in NPages : \A h \in NHashes[p] \ {""} :
       (\E n \in NNodes : NUrl[n][2] = h) => <<p, h>> \in DOMAIN NIndexed
  /\ NMaxScripts \in Nat

VARIABLES
  npage, nhash,   \* the location
  nstorage,       \* the browser has a localStorage
  navpath,        \* the link in it, or <<>>
  nsync, nimage,  \* the button has the class "sync"; what it shows
  loadTriggered, readyTriggered, nloadUrl,
  ndata,          \* nodes of NLazy whose children have been loaded
  nvisited,       \* nodes whose children are in the page
  nexpanded,
  nselected,      \* items with the class "selected"
  breadcrumbs,    \* of o: where the last gotoNode leads, <<>> before it
  navTreeSubIndices,   \* scripts of the index that have been loaded
  nscripts,       \* callbacks of the scripts under way, each with a number
  nanimation,     \* where an animated scroll ends, if one is in progress
  ntarget,        \* history: the link that navTo was last asked to show
  ndisturbed      \* history: something came before navTo was through

ntree == <<ndata, nvisited, nexpanded, nselected, nscripts>>
nvars == <<npage, nhash, nstorage, navpath, nsync, nimage, loadTriggered, readyTriggered, nloadUrl, ntree,
           breadcrumbs, navTreeSubIndices, nanimation, ntarget, ndisturbed>>

NInit ==
  /\ npage \in NPages /\ nhash \in NHashes[npage] /\ navpath = <<>>
  /\ nstorage \in BOOLEAN /\ nsync = TRUE /\ nimage = "none"
  /\ loadTriggered = FALSE /\ readyTriggered = FALSE /\ nloadUrl = ""
  /\ ndata = {} /\ nvisited = {} /\ nexpanded = {} /\ nselected = {}
  /\ breadcrumbs = <<>> /\ navTreeSubIndices = {} /\ nscripts = {}
  /\ nanimation = "none" /\ ntarget = <<>> /\ ndisturbed = FALSE

-----------------------------------------------------------------------------
(* The tree.  Operators take it as a record and return it changed.          *)

Tree == [data |-> ndata, visited |-> nvisited, expanded |-> nexpanded,
         selected |-> nselected, scripts |-> nscripts]
Becomes(t) ==
  /\ ndata' = t.data /\ nvisited' = t.visited /\ nexpanded' = t.expanded
  /\ nselected' = t.selected /\ nscripts' = t.scripts

NeedsData(t, n) == n \in NLazy \ t.data
HasChildren(n) == \E m \in NNodes \ {<<>>} : NParent(m) = n
InPage(t, n) == n # <<>> /\ NParent(n) \in t.visited

(* The script assigns to a variable that is named like it.                  *)
getData(t, n) == [t EXCEPT !.data = @ \cup {n}]

getScript(t, callback) ==
  LET k == CHOOSE i \in 1 .. NMaxScripts + 5 : <<i, callback>> \notin t.scripts
  IN [t EXCEPT !.scripts = @ \cup {<<k, callback>>}]

(* Also of the items that are found by their class, page and hash.          *)
ItemsOf(t, hash) == {n \in NNodes : InPage(t, n) /\ NUrl[n] = <<npage, hash>>}

(* n is <<>> if there is none.                                              *)
selectAndHighlight(t, hash, n) ==
  LET a == IF hash = "" THEN {} ELSE ItemsOf(t, hash)
  IN [t EXCEPT !.selected = @ \cup (IF a # {} THEN a ELSE {n} \ {<<>>})]

(* getNode makes the children, once; then they are shown.                   *)
GetAndShow(t, nodes) == [t EXCEPT !.visited = @ \cup nodes, !.expanded = @ \cup nodes]

expandNode(t, n) ==
  IF n \in t.expanded \/ ~HasChildren(n) THEN t
  ELSE IF NeedsData(t, n) THEN getScript(t, [what |-> "expand", node |-> n])
  ELSE GetAndShow(t, {n})

(* Slip: once loaded the last node is opened, not tried again.              *)
ShowLastOnce(t, n, hash) ==
  IF n \notin NNodes THEN t
  ELSE IF NeedsData(t, n) THEN getScript(t, [what |-> "expand", node |-> n])
  ELSE selectAndHighlight(t, hash, n)

(* The last node of the way.  Without it there is a TypeError; its own      *)
(* children are loaded before it is selected.                               *)
ShowLast(t, n, hash) ==
  IF n \notin NNodes THEN t
  ELSE IF NeedsData(t, n)
  THEN getScript(t, [what |-> "retry", node |-> NParent(n), load |-> n, hash |-> hash])
  ELSE selectAndHighlight(t, hash, n)

(* showNode, from node towards the path "to": down to the first node that   *)
(* has still to be loaded, where a script goes on, or to a leaf, or to the  *)
(* last.                                                                    *)
showNode(t, node, to, hash) ==
  LET place(k) == node \o SubSeq(to, Len(node) + 1, k)
      steps == Len(node) .. Len(to) - 1
      stops == {k \in steps : ~HasChildren(place(k)) \/ NeedsData(t, place(k))}
      stop == CHOOSE k \in stops : \A j \in stops : k <= j
      shown == GetAndShow(t, {place(k) : k \in {j \in steps : \A s \in stops : j < s}})
  IN IF stops = {} THEN ShowLast(shown, place(Len(to)), hash)
     ELSE IF NeedsData(t, place(stop))
     THEN getScript(shown, [what |-> "show", node |-> place(stop), hash |-> hash])
     ELSE selectAndHighlight(shown, hash, <<>>)

-----------------------------------------------------------------------------
(* To a link.                                                               *)

(* The place of a link; that of its page if the hash is not indexed; <<0>>  *)
(* if the page is not: $.extend makes an empty list of nothing.             *)
Place(page, hash) ==
  <<0>> \o (IF <<page, hash>> \in DOMAIN NIndexed THEN NIndexed[<<page, hash>>]
            ELSE IF <<page, "">> \in DOMAIN NIndexed THEN NIndexed[<<page, "">>]
            ELSE <<>>)

gotoNode(t, page, hash) ==
  /\ breadcrumbs' = Place(page, hash)
  /\ Becomes(showNode(t, <<>>, Place(page, hash), hash))

(* Of the location: what pathName and hashValue drop is in no link.         *)
Location == <<npage, nhash>>

localStorageSupported == nstorage
cachedLink == IF localStorageSupported THEN navpath ELSE <<>>

(* What is stored comes first.  Line numbers are not in the index.          *)
LinkOf(page, hash) ==
  LET link == IF cachedLink = <<>> THEN <<page, hash>> ELSE cachedLink
  IN IF link[2] = "line" THEN <<link[1], "">> ELSE link

navTo(t, page, hash, stale) ==
  LET to == LinkOf(page, hash)
      file == NFile[to[1]] IN
  /\ ntarget' = to
  /\ ndisturbed' = (ndisturbed \/ stale \/ nscripts # {})
  /\ IF file \in navTreeSubIndices THEN gotoNode(t, to[1], to[2])
     ELSE /\ Becomes(getScript(t, [what |-> "index", file |-> file, page |-> to[1], hash |-> to[2]]))
          /\ UNCHANGED breadcrumbs

-----------------------------------------------------------------------------
(* The page is loaded.                                                      *)

placeVars == <<npage, nhash, nstorage, navpath>>
syncVars == <<nsync, nimage>>
showSync(on) == nimage' = IF on THEN "sync_on" ELSE "sync_off"

(* initNavTree.                                                             *)
Ready ==
  /\ ~readyTriggered
  /\ readyTriggered' = TRUE
  /\ IF localStorageSupported THEN nsync' = (cachedLink = <<>>) /\ showSync(cachedLink = <<>>)
     ELSE UNCHANGED syncVars
  /\ IF loadTriggered THEN navTo(Tree, npage, nhash, FALSE) /\ UNCHANGED nloadUrl
     ELSE /\ nloadUrl' = nhash
          /\ UNCHANGED <<ntree, breadcrumbs, ntarget, ndisturbed>>
  /\ UNCHANGED <<placeVars, loadTriggered, navTreeSubIndices, nanimation>>

(* The event "load".  The link put down may be an old one by now.           *)
Load ==
  /\ ~loadTriggered
  /\ loadTriggered' = TRUE
  /\ IF readyTriggered
     THEN navTo(Tree, npage, nloadUrl, ntarget \notin {<<>>, LinkOf(npage, nloadUrl)})
     ELSE UNCHANGED <<ntree, breadcrumbs, ntarget, ndisturbed>>
  /\ UNCHANGED <<placeVars, syncVars, readyTriggered, nloadUrl, navTreeSubIndices, nanimation>>

-----------------------------------------------------------------------------
(* A script has been loaded, and its callback is called.                    *)

Arrives(script) ==
  LET t == [Tree EXCEPT !.scripts = @ \ {script}]
      callback == script[2] IN
  /\ CASE callback.what = "index" -> /\ navTreeSubIndices' = navTreeSubIndices \cup {callback.file}
                                     /\ gotoNode(t, callback.page, callback.hash)
       [] callback.what = "show" ->
            /\ Becomes(showNode(getData(t, callback.node),
                                callback.node, breadcrumbs, callback.hash))
            /\ UNCHANGED <<breadcrumbs, navTreeSubIndices>>
       [] callback.what = "retry" ->
            /\ Becomes(showNode([getData(t, callback.load) EXCEPT !.expanded = @ \ {callback.node}],
                                callback.node, breadcrumbs, callback.hash))
            /\ UNCHANGED <<breadcrumbs, navTreeSubIndices>>
       [] callback.what = "expand" ->
            /\ Becomes(expandNode(getData(t, callback.node), callback.node))
            /\ UNCHANGED <<breadcrumbs, navTreeSubIndices>>
  /\ UNCHANGED <<placeVars, syncVars, loadTriggered, readyTriggered, nloadUrl, nanimation, ntarget, ndisturbed>>

ScriptArrives == \E script \in nscripts : Arrives(script)

-----------------------------------------------------------------------------
(* The reader.                                                              *)

(* Bound: a navigation is disturbed once before the page is left.           *)
MayAct == Cardinality(nscripts) <= NMaxScripts /\ ~ndisturbed
Deselected(t) == [t EXCEPT !.selected = {}]

(* Slip: what was selected before stays so.                                 *)
HashChangeKeeps(hash) == nhash' = hash /\ navTo(Tree, npage, hash, FALSE)

(* The event "hashchange": what is selected stays so if it is on the way.   *)
HashChange(hash) ==
  LET kept == hash # "" /\ ItemsOf(Tree, hash) \cap nselected # {} IN
  /\ nhash' = hash
  /\ IF hash # "" \/ nanimation = "none"
     THEN navTo(IF kept THEN Tree ELSE Deselected(Tree), npage, hash,
                kept /\ LinkOf(npage, hash) # <<npage, hash>>)
     ELSE UNCHANGED <<ntree, breadcrumbs, ntarget, ndisturbed>>

NewHash(hash) ==
  /\ MayAct /\ hash # nhash
  /\ IF readyTriggered THEN HashChange(hash)
     ELSE nhash' = hash /\ UNCHANGED <<ntree, breadcrumbs, ntarget, ndisturbed>>
  /\ UNCHANGED <<npage, nstorage, navpath, syncVars, loadTriggered, readyTriggered, nloadUrl, navTreeSubIndices, nanimation>>

deleteLink == <<>>
StoreLink(link) == navpath' = IF ~nsync /\ localStorageSupported THEN link ELSE navpath

(* A link to a place on this page: the item is selected at once, and the    *)
(* location follows when the page has been scrolled there, if it is there.  *)
ClickAnchor(n) ==
  /\ MayAct /\ readyTriggered /\ InPage(Tree, n) /\ Ancestors(n) \ {<<>>} \subseteq nexpanded
  /\ NUrl[n][2] # "" /\ NUrl[n][1] = npage
  /\ StoreLink(NUrl[n])
  /\ nselected' = IF n \in nselected THEN nselected ELSE {n}
  /\ ntarget' = NUrl[n]
  /\ ndisturbed' = (ndisturbed \/ nscripts # {} \/ ~loadTriggered)
  /\ nanimation' \in {nanimation, NUrl[n][2]}
  /\ UNCHANGED <<npage, nhash, nstorage, syncVars, loadTriggered, readyTriggered, nloadUrl, ndata, nvisited,
                 nexpanded, nscripts, breadcrumbs, navTreeSubIndices>>

AnimationEnds ==
  /\ nanimation # "none"
  /\ nanimation' = "none"
  /\ IF nhash # nanimation
     THEN HashChange(nanimation)
     ELSE UNCHANGED <<nhash, ntree, breadcrumbs, ntarget, ndisturbed>>
  /\ UNCHANGED <<npage, nstorage, navpath, syncVars, loadTriggered, readyTriggered, nloadUrl, navTreeSubIndices>>

ClickArrow(n) ==
  /\ MayAct /\ InPage(Tree, n) /\ Ancestors(n) \ {<<>>} \subseteq nexpanded /\ HasChildren(n)
  /\ Becomes(IF n \in nexpanded THEN [Tree EXCEPT !.expanded = @ \ {n}] ELSE expandNode(Tree, n))
  /\ ndisturbed' = (ndisturbed \/ nscripts # {} \/ ~loadTriggered)
  /\ UNCHANGED <<placeVars, syncVars, loadTriggered, readyTriggered, nloadUrl, breadcrumbs,
                 navTreeSubIndices, nanimation, ntarget>>

toggleSyncButton ==
  /\ MayAct /\ readyTriggered /\ localStorageSupported
  /\ nsync' = ~nsync /\ showSync(~nsync)
  /\ navpath' = IF nsync THEN Location ELSE deleteLink
  /\ UNCHANGED <<npage, nhash, nstorage, loadTriggered, readyTriggered, nloadUrl, ntree, breadcrumbs,
                 navTreeSubIndices, nanimation, ntarget, ndisturbed>>

(* Another page, or this one again: only what is stored is kept.  A click   *)
(* on an item stores its link first.                                        *)
Leave(page, hash) ==
  /\ npage' = page /\ nhash' = hash
  /\ \/ UNCHANGED navpath
     \/ /\ \E n \in NNodes \ {<<>>} : InPage(Tree, n) /\ NUrl[n] = <<page, hash>>
        /\ StoreLink(<<page, hash>>)
  /\ nsync' = TRUE /\ nimage' = "none" /\ UNCHANGED nstorage
  /\ loadTriggered' = FALSE /\ readyTriggered' = FALSE /\ nloadUrl' = ""
  /\ ndata' = {} /\ nvisited' = {} /\ nexpanded' = {} /\ nselected' = {}
  /\ breadcrumbs' = <<>> /\ navTreeSubIndices' = {} /\ nscripts' = {}
  /\ nanimation' = "none" /\ ntarget' = <<>> /\ ndisturbed' = FALSE

NNext ==
  \/ Ready \/ Load \/ ScriptArrives \/ AnimationEnds
  \/ \E hash \in NHashes[npage] : NewHash(hash)
  \/ \E n \in NNodes \ {<<>>} : ClickAnchor(n) \/ ClickArrow(n)
  \/ toggleSyncButton
  \/ \E page \in NPages : \E hash \in NHashes[page] : Leave(page, hash)

(* The scripts are loaded, if the reader stays.  This is what               *)
(* WF_nvars(ScriptArrives) says: one can arrive while one is under way.     *)
NFairness == <>[](nscripts # {}) => []<><<ScriptArrives>>_nvars

-----------------------------------------------------------------------------
(* Properties.                                                              *)

NSettled == loadTriggered /\ readyTriggered /\ nscripts = {} /\ nanimation = "none" /\ ~ndisturbed

(* When nothing is under way, an item is selected, and each is at the place *)
(* of the link last gone to, or of the stored one, or has the hash of that  *)
(* link, although the way there was loaded piece by piece (navtree.js:      *)
(* 316-375, 403-446): the reader has let each navigation come to its end.   *)
NTargetSelected ==
  NSettled =>
    /\ nselected # {}
    /\ \A n \in nselected : \/ n = Place(ntarget[1], ntarget[2])
                            \/ ntarget[2] # "" /\ NUrl[n][2] = ntarget[2]

(* The button of a page says that the tree stays where it is exactly if a   *)
(* link is stored, which any page before may have done or undone            *)
(* (navtree.js:74-95, 458-470, 504-513).                                    *)
NPinIsShown == readyTriggered => (nimage = "sync_off" <=> navpath # <<>>)

(* Something is selected in the end, however many scripts that takes.       *)
NSelectionComes ==
  loadTriggered /\ readyTriggered ~> nselected # {} \/ ndisturbed \/ ~loadTriggered
=============================================================================
