------------------------------ MODULE MCOffice ------------------------------
(* An administrator or two and a manager, two processes, two requests at    *)
(* once; the lists are read while grants change, administrators disable     *)
(* each other, and two requests change the stock.                           *)
EXTENDS Office, TLC

CONSTANTS ann, bob, cid, dan, p1, p2, r1, r2

MCSymmetry == Permutations(Procs) \cup Permutations(Requests)

MCStartRole == (cid :> "manager" @@ dan :> "none") @@ [u \in {ann, bob} |-> "admin"]

MCStock == Ask("stock", Nobody, "admin", {})

MCWorlds ==
  {[users |-> {ann, cid}, asks |-> {Look, Ask("grants", cid, "admin", {}), Ask("role", cid, "technician", {})},
    requests |-> 3, time |-> 3, restarts |-> 0],
   [users |-> {ann, bob}, asks |-> {Ask(k, u, "admin", {}) : k \in {"disable", "enable"}, u \in {ann, bob}},
    requests |-> 3, time |-> 0, restarts |-> 0],
   [users |-> {ann, bob}, asks |-> {Ask("remove", ann, "admin", {}), Ask("role", bob, "manager", {}),
                                      Ask("create", dan, "technician", {})},
    requests |-> 3, time |-> 0, restarts |-> 0],
   [users |-> {ann}, asks |-> {MCStock}, requests |-> 5, time |-> 0, restarts |-> 1]}
=============================================================================
