----------------------------- MODULE MCSessions -----------------------------
(* A small instance of Sessions.  Calls, exchanges and requests are         *)
(* interchangeable, and only safety is checked.                             *)
EXTENDS Sessions, TLC

Interchangeable ==
    Permutations(Calls) \cup Permutations(Exchanges) \cup Permutations(Requests)
=============================================================================
