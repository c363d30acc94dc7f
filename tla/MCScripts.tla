----------------------------- MODULE MCScripts -----------------------------
(* Bounds and model values with which TLC checks Scripts. *)
EXTENDS Scripts

CONSTANT tab1

OneTab == {tab1}

UsdtAndWsol == <<"usdt", "wsol">>
Keys == <<"key0", "key1">>
=============================================================================
