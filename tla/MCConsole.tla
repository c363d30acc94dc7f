----------------------------- MODULE MCConsole -----------------------------
(* Bounds and model values with which TLC checks Console. *)
EXTENDS Console

CONSTANTS tab1, tab2

Tabs == {tab1, tab2}
TabsAlike == Permutations(Tabs)

UsdtAndWsol == <<"usdt", "wsol">>
=============================================================================
