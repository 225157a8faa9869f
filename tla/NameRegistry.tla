----------------------------- MODULE NameRegistry -----------------------------
(***************************************************************************)
(* A map from names to tasks, as RegisterAs and WhoIs present it, except    *)
(* that registering a name may also lose names that collide with it.  It   *)
(* need not: a map that loses none is a registry too.                      *)
(***************************************************************************)
CONSTANTS
  Names,
  Registrants,
  Collides(_, _), \* do two names share a bucket?
  Unregistered

VARIABLE registry

Init == registry = [n \in Names |-> Unregistered]

\* t registers under n, in place of whoever had.
Register(n, t) ==
  /\ registry' \in [Names -> Registrants \cup {Unregistered}]
  /\ registry'[n] = t
  /\ \A m \in Names \ {n} : \/ registry'[m] = registry[m]
                            \/ registry'[m] = Unregistered /\ Collides(m, n)

Next == \E n \in Names, t \in Registrants : Register(n, t)

Spec == Init /\ [][Next]_registry
=============================================================================
