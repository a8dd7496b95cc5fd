--------------------------- MODULE MCWipeRecords ---------------------------
(* Two drives, told apart by nothing, by a serial, or by a WWN, in the     *)
(* circumstances that make a roll-up hard, one at a time.                  *)
EXTENDS WipeRecords

Drive(serial, wwn) == [serial |-> serial, model |-> 1, gb |-> 1, wwn |-> wwn]

Serials == <<Drive(1, 0), Drive(2, 0)>>
Twins == <<Drive(0, 0), Drive(0, 0)>>
Wwns == <<Drive(0, 1), Drive(0, 2)>>

\* Nothing goes wrong but wipes.
Calm == [drives |-> Serials, flaky |-> {}, reorders |-> FALSE, listings |-> {TRUE},
         outcomes |-> {"erased", "failed"}, skews |-> {0}, sticks |-> {"new"},
         offline |-> FALSE, manual |-> FALSE, wipes |-> 4, rows |-> 4]

MCWorlds ==
  { Calm,
    [Calm EXCEPT !.offline = TRUE, !.wipes = 3, !.rows = 3],
    [Calm EXCEPT !.flaky = {2}, !.reorders = TRUE, !.listings = {TRUE, FALSE},
                 !.outcomes = {"erased", "trimmed", "failed"}, !.wipes = 3],
    [Calm EXCEPT !.drives = Twins, !.flaky = {2}, !.reorders = TRUE],
    [Calm EXCEPT !.drives = Wwns, !.flaky = {1, 2}, !.reorders = TRUE],
    [Calm EXCEPT !.skews = {-2, 0, 2}, !.manual = TRUE, !.wipes = 3],
    [Calm EXCEPT !.flaky = {2}, !.sticks = {"new", "old"}, !.offline = TRUE, !.wipes = 2, !.rows = 3] }

=============================================================================
