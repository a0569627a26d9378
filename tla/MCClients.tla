------------------------------ MODULE MCClients ------------------------------
(* Clients for TLC: both clients, every query of theirs, every role. *)
EXTENDS Clients

CONSTANTS k1, k2

Admin == INSTANCE AdminScreens
Web == INSTANCE WebScreens

BothApis == [admin |-> Admin!Api, web |-> Web!Api]
BothScreens == [admin |-> Admin!Pages, web |-> Web!Pages]
BothMenus == [admin |-> Admin!Menu, web |-> Web!Menu]
BothFrames == [admin |-> Admin!AppLayout, web |-> Web!AppLayout]

Interchangeable == Permutations(Slots)
=============================================================================
