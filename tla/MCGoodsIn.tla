------------------------------ MODULE MCGoodsIn ------------------------------
(* PalletStock's two worlds, and devices in one or two lots beside an empty *)
(* asset pallet: moved, sold and returned with a process that stops, then   *)
(* lots and sub-lots coming and going, then beside pallets of counted goods.*)
EXTENDS GoodsIn, TLC

CONSTANTS q1, q2, i1, d1, d2, d3, a, b, s1

MCStocked == << [pallet |-> 1, item |-> i1, qty |-> 2],
                [pallet |-> 2, item |-> i1, qty |-> 1] >>

MCSymmetry == Permutations(Requests) \cup Permutations(Devices) \cup Permutations(Lots)

MCTotals == {<<>>, <<5>>}

Shift(ops, n, ds, ls) == [ops |-> ops, tasks |-> n, devices |-> ds, lots |-> ls]

MCShifts ==
  {Shift({}, 0, {}, {}),
   Shift({"pallets", "sell", "sellPallet", "sellLot", "return", "crash"}, 4, {d1, d2, d3}, {a}),
   Shift({"lots", "devices", "removeDevice", "removeLot", "pallets", "sellLot", "return"}, 4, {d1}, {a}),
   Shift({"pallets", "transfer", "sellPallet", "return"}, 5, {d1, d2, d3}, {a, b}),
   Shift({"counted", "pallets", "sellPallet"}, 2, {d1}, {a})}
=============================================================================
