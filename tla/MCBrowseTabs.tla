---------------------------- MODULE MCBrowseTabs ----------------------------
(* An instance of BrowseTabs for TLC.  Tab records and pages of the net are *)
(* interchangeable: no definition orders them.                             *)
EXTENDS BrowseTabs, TLC

TabAndUrlSymmetry == Permutations(TabRecords) \cup Permutations(Urls \ FileUrls)
=============================================================================
