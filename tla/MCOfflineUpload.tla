--------------------------- MODULE MCOfflineUpload ---------------------------
(* A device in stock and a tag not seen before, two lots, and who else is about. *)
EXTENDS OfflineUpload

CONSTANTS d1, d2, l1, l2, r1, r2, none, unknown, nobody

MCStocked == {d1}
MCWorlds == {{}, {"lots"}, {"devices", "rivals"}, {"grants"}, {"manager", "lots"}}
MCAlone == {{}}

=============================================================================
