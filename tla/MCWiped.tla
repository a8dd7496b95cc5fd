------------------------------- MODULE MCWiped -------------------------------
(* One machine, in two views that do not meet: what its drives hold, told    *)
(* by the records that reach the server one at a time; and two requests at   *)
(* once that file such records and settle the machine's status.              *)
EXTENDS MCWipeRecords, WipeSettle

CONSTANTS q1, q2

VARIABLE view   \* which of the two

Listed == {[slot |-> n, serial |-> n, model |-> 1, gb |-> 1, internal |-> TRUE] : n \in 1..2}

Sent(outcome, serial, at, call, profile) ==
  [outcome |-> outcome, at |-> at, call |-> call, profile |-> profile,
   drive |-> [serial |-> serial, model |-> 1, gb |-> 1, wwn |-> 0, path |-> serial]]

\* The failure claims an erased machine; a person at the station passes it.
MCWipes == {Sent("wiped", 1, 2, "none", Listed), Sent("wiped", 2, 1, "none", Listed),
            Sent("failed", 2, 3, "data_wiped", {}), Sent("none", 0, 0, "ready_for_sale", Listed)}

ASSUME MCCaptures == NoPlainCapture

\* The drives stand still while the requests are looked at.
Still == world = Calm /\ session = CHOOSE s \in Sessions(1) : TRUE

MCInit ==
  /\ Init /\ SettleInit
  /\ \/ view = "drives" /\ exists
     \/ view = "requests" /\ Still

MCNext ==
  \/ view = "drives" /\ Next /\ UNCHANGED <<view, settleVars>>
  \/ view = "requests" /\ SettleNext /\ UNCHANGED <<view, vars>>

MCSpec == MCInit /\ [][MCNext]_<<view, vars, settleVars>>
=============================================================================
