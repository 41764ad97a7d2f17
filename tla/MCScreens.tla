----------------------------- MODULE MCScreens -----------------------------
(* Small instances of Screens for TLC.                                     *)
EXTENDS Screens, TLC

(* Nothing, an address, an invoice of 100 sats, one without an amount.     *)
TestPastes == {Blank, Other, Bolt11(1, "u"), Bolt11(NoDigits, "none")}

TestSelections == {<<"a", "b">>}
=============================================================================
