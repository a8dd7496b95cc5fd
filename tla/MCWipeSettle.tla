----------------------------- MODULE MCWipeSettle -----------------------------
(* A machine of two drives: an erase of one of them, and a capture.        *)
EXTENDS WipeSettle

CONSTANTS q1, q2

Listed == {[slot |-> n, serial |-> n, model |-> 1, gb |-> 1, internal |-> TRUE] : n \in 1..2}

Sent(outcome, serial, at, call, profile) ==
  [outcome |-> outcome, at |-> at, call |-> call, profile |-> profile,
   drive |-> [serial |-> serial, model |-> 1, gb |-> 1, wwn |-> 0, path |-> serial]]

MCRecapture == {Sent("wiped", 1, 1, "none", Listed), Sent("none", 0, 0, "none", Listed)}
=============================================================================
