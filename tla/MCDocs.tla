-------------------------------- MODULE MCDocs --------------------------------
(* The scripts of the documentation's pages.  They share no state that is   *)
(* modelled: script says which of them a behaviour is about, and the others *)
(* stay as they are.                                                        *)
EXTENDS SearchBox, SearchResults, NavTree, DarkMode, SideNav, DynSections, Marks

VARIABLE script

MCTexts == {<<" ">>, <<"a">>}
MCIndexed == [i \in 0 .. Sections - 1 |-> IF i = 0 THEN {"a", "s"} ELSE {"s"}]

(* Names that begin alike, of letters, digits and the characters that are   *)
(* escaped; two have more than one result.                                  *)
MCNames == <<<<97>>, <<97, 53, 102>>, <<97, 95>>, <<97, 95, 40>>, <<98>>>>
MCNumbers == <<<<50, 56>>, <<57>>, <<49>>, <<50>>, <<51, 48>>>>   \* "28" is also that of "("
MCChildren == <<2, 0, 2, 0, 1>>
MCQueries == {<<>>, <<97>>, <<97, 95>>, <<97, 5>>, <<97, 53>>, <<98>>, <<97, 53, 102>>, <<97, 40>>}

(* Like NAVTREE: a project, a page whose places are in a script, another,   *)
(* and one of the places again.                                             *)
MCNodes == {<<>>, <<0>>, <<0, 0>>, <<0, 0, 0>>, <<0, 0, 1>>, <<0, 1>>, <<0, 2>>}
MCLazy == {<<0, 0>>}
MCUrl ==
  [n \in MCNodes |-> CASE Len(n) <= 1 -> <<"i", "">> [] n = <<0, 1>> -> <<"q", "">>
                       [] n = <<0, 0>> -> <<"p", "">> [] n \in {<<0, 0, 0>>, <<0, 2>>} -> <<"p", "h1">>
                       [] n = <<0, 0, 1>> -> <<"p", "h2">>]
MCPlaces ==
  [u \in {<<"i", "">>, <<"p", "">>, <<"p", "h1">>, <<"p", "h2">>, <<"q", "">>} |->
     CASE u[1] = "i" -> <<>> [] u[1] = "q" -> <<1>> [] u[2] = "" -> <<0>>
       [] u[2] = "h1" -> <<0, 0>> [] u[2] = "h2" -> <<0, 1>>]
MCFile == [p \in {"i", "p", "q"} |-> IF p = "q" THEN 1 ELSE 0]
MCHashes == [p \in {"p", "q"} |-> IF p = "p" THEN {"", "h1", "h2", "line"} ELSE {""}]

(* Folders of several levels, beside rows that are none.                    *)
MCRows == {<<0>>, <<0, 0>>, <<0, 0, 0>>, <<0, 0, 0, 0>>, <<1>>, <<1, 0>>}

(* Listings that end with a line, with empty lines, and with nothing else;  *)
(* an anchor of each kind of place.                                         *)
MCFragments ==
  <<<<<<"lineno", <<"1">>>>, <<"line", <<"x", "n">>>>, <<"ttc", <<"t">>>>, <<"line", <<"n", "y", "n", "n">>>>>>,
    <<<<"line", <<"n">>>>>>>>
MCAnchorParent == [a \in {"f", "m", "s"} |-> CASE a = "f" -> "fieldname" [] a = "m" -> "memItemLeft" [] a = "s" -> ":header"]
MCRowsOf == [a \in {"f", "m", "s"} |-> IF a = "m" THEN {<<"cell", 1>>, <<"cell", 2>>} ELSE {}]

MCvars == <<script, bvars, rvars, nvars, dvars, wvars, fvars, mvars>>
MCInit ==
  /\ script \in {"box", "results", "tree", "theme", "panel", "sections", "buttons", "glow"}
  /\ BInit /\ RInit /\ NInit /\ DInit /\ WInit /\ FInit /\ MInit
  /\ script = "results" \/ rquery = <<>>       \* one start each for the others
  /\ script = "tree" \/ (npage = "q" /\ nstorage)
  /\ script = "theme" \/ ~dsystem
  /\ script = "panel" \/ (wwindow = 1000 /\ ~wpinned)
MCNext ==
  /\ UNCHANGED script
  /\ \/ script = "box" /\ BNext /\ UNCHANGED <<rvars, nvars, dvars, wvars, fvars, mvars>>
     \/ script = "results" /\ RNext /\ UNCHANGED <<bvars, nvars, dvars, wvars, fvars, mvars>>
     \/ script = "tree" /\ NNext /\ UNCHANGED <<bvars, rvars, dvars, wvars, fvars, mvars>>
     \/ script = "theme" /\ DNext /\ UNCHANGED <<bvars, rvars, nvars, wvars, fvars, mvars>>
     \/ script = "panel" /\ WNext /\ UNCHANGED <<bvars, rvars, nvars, dvars, fvars, mvars>>
     \/ script = "sections" /\ FNext /\ UNCHANGED <<bvars, rvars, nvars, dvars, wvars, mvars>>
     \/ script = "buttons" /\ Buttons /\ UNCHANGED <<bvars, rvars, nvars, dvars, wvars, fvars>>
     \/ script = "glow" /\ Glow /\ UNCHANGED <<bvars, rvars, nvars, dvars, wvars, fvars>>
MCFairSpec == MCInit /\ [][MCNext]_MCvars /\ BFairness /\ NFairness
=============================================================================
