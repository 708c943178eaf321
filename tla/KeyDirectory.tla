---------------------------- MODULE KeyDirectory ----------------------------
(***************************************************************************)
(* What a key set promises its users: a name resolves to nothing or to one *)
(* target, and once it resolves it resolves to the same for good.          *)
(***************************************************************************)
CONSTANTS Names, Targets, Unbound

VARIABLE bound  \* bound[name]: what the name resolves to

Init == bound = [name \in Names |-> Unbound]

\* The names that come to resolve in one step, to one target.
Fresh == {name \in Names : bound[name] = Unbound /\ bound'[name] # Unbound}

Bind ==
    /\ bound' \in [Names -> Targets \union {Unbound}]
    /\ \A name \in Names : bound[name] # Unbound => bound'[name] = bound[name]
    /\ \A m, n \in Fresh : bound'[m] = bound'[n]

Spec == Init /\ [][Bind]_bound
=============================================================================
