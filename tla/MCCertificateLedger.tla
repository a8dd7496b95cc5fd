------------------------ MODULE MCCertificateLedger ------------------------
(* Two machines: of one a station sends three records out of an erasure, a  *)
(* failure and a later erasure, in any order and perhaps some of them again;*)
(* the wipe of the other is typed by hand.                                  *)
EXTENDS CertificateLedger

CONSTANTS a1, a2, c1, c2

Drive(serial) == [serial |-> serial, model |-> 1, gb |-> 1, wwn |-> 0, path |-> 1]

NoDrive == [serial |-> 0, model |-> 0, gb |-> 0, wwn |-> 0, path |-> 0]

ByStation(serial, status, at) ==
  [status |-> status, method |-> 1, manual |-> FALSE, at |-> at, drive |-> Drive(serial),
   profile |-> {[slot |-> 1, serial |-> serial, model |-> 1, gb |-> 1, internal |-> TRUE]}]

ByHand == [status |-> "wiped", method |-> 1, manual |-> TRUE, at |-> 0,
           drive |-> NoDrive, profile |-> {}]

MCMachines == a1 :> {ByStation(1, "wiped", 1), ByStation(1, "failed", 2), ByStation(1, "wiped", 3)}
              @@ a2 :> {ByHand}

MCRows == a1 :> 3 @@ a2 :> 1

ASSUME WipesAreNamed

MCSymmetry == Permutations(Callers)
=============================================================================
