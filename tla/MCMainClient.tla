---------------------------- MODULE MCMainClient ----------------------------
(* Small instances of MainClient for TLC: pages are interchangeable.  Each *)
(* page has a client of its own, or one page has two.                      *)
EXTENDS MainClient, TLC

OneEach == {<<p, 1>> : p \in Pages}
TwoOn(p) == {<<p, 1>>, <<p, 2>>}
MCLayouts == {OneEach} \cup {TwoOn(p) : p \in Pages}

(* Of two clients of a page, one starts again or is disposed of.           *)
First == {<<p, 1>> : p \in Pages}

PageSymmetry == Permutations(Pages)
=============================================================================
