------------------------------ MODULE EmodTable ------------------------------
(***************************************************************************)
(* What the emodule manager promises its callers, without saying how an    *)
(* emodule gets into memory: a set of registered emodules that only grows, *)
(* one emodule at a time, an emodule never before the ones it depends on.  *)
(* EmodLoader implements it.                                               *)
(***************************************************************************)
EXTENDS Naturals, Sequences

CONSTANTS Emodule, Manager, Deps

VARIABLE registered

Init == registered = {Manager}

Register(m) ==
  /\ m \notin registered
  /\ \A i \in DOMAIN Deps[m] : Deps[m][i] \in registered
  /\ registered' = registered \cup {m}

Next == \E m \in Emodule : Register(m)

Spec == Init /\ [][Next]_registered
==============================================================================
