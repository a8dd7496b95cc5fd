------------------------------- MODULE GoodsIn -------------------------------
(***************************************************************************)
(* assets.service.ts, batches.service.ts, lots.service.ts and the devices  *)
(* of pallets.service.ts: devices come in with a lot, stand on an asset    *)
(* pallet, are sold one by one, with their pallet or with their lot, and   *)
(* are returned.  Each operation is a series of statements and only the    *)
(* deletion of a lot is a transaction, so the process may stop in between; *)
(* here one request acts at a time.  Counted goods are PalletStock's.      *)
(*                                                                         *)
(* A status is "sold" or not.  sold_at stands for the sale: devices sold   *)
(* together have the same.  Prices are pence.  Who may act, the order of a *)
(* query's rows, and an administrator's edits of a sold device are left    *)
(* out.                                                                    *)
(***************************************************************************)
EXTENDS PalletStock

CONSTANTS Devices, Lots, Subs,   \* the ids of devices, lots and sub-lots
          Shifts,                \* what may happen: see May
          Totals                 \* the totals a whole sale is entered with

ASSUME GoodsAssumption ==
  /\ Nobody \notin Lots \cup Subs
  /\ IsFiniteSet(Devices)
  /\ \A s \in Shifts : s.lots \subseteq Lots
  /\ \A t \in Totals : t \in Seq(Nat) /\ Len(t) <= 1

VARIABLES device,  \* the rows; status "none" before, "deleted" after
          lot,     \* a lot's status
          sub,     \* the lot a sub-lot is in, or "none" or "deleted"
          sales,   \* the whole sales: the total entered, the devices, has it ended
          task,    \* the request on devices and lots under way
          shift, tasks

goods == <<device, lot, sub, sales>>
goodsVars == <<device, lot, sub, sales, task, shift, tasks>>
allVars == <<vars, goodsVars>>

Unsold(status, l, s) ==
  [status |-> status, lot |-> l, sub |-> s, pallet |-> 0, sale |-> 0, price |-> <<>>, from |-> 0]

NoDevice == Unsold("none", Nobody, Nobody)

Deleted == Unsold("deleted", Nobody, Nobody)

NoTask == [op |-> "none"]

Present == {d \in Devices : device[d].status \in {"in", "sold"}}
InStock == {d \in Devices : device[d].status = "in"}

Standing(p) == {d \in Present : device[d].pallet = p}

LotsThere == {l \in Lots : lot[l] \in {"open", "sold"}}
SubsThere == {s \in Subs : sub[s] \in Lots \cup {Nobody}}

May(op) == Busy = {} /\ task = NoTask /\ op \in shift.ops /\ tasks < shift.tasks

\* A request of one statement.
Write(op) == May(op) /\ tasks' = tasks + 1 /\ UNCHANGED <<vars, task, shift>>

\* A request that goes on as t.
Start(op, t) == May(op) /\ tasks' = tasks + 1 /\ task' = t /\ UNCHANGED <<vars, shift>>

Then(t) == task' = t /\ UNCHANGED <<shift, tasks>>

Less(d) == IF task.todo = {d} THEN NoTask ELSE [task EXCEPT !.todo = @ \ {d}]

-----------------------------------------------------------------------------
(* Lots and sub-lots *)

CreateLot ==
  /\ Write("lots") /\ \E l \in Lots : lot[l] = "none" /\ lot' = [lot EXCEPT ![l] = "open"]
  /\ UNCHANGED <<device, sub, sales>>

\* The status is whatever the request says.
UpdateLot ==
  /\ Write("lots")
  /\ \E l \in LotsThere, s \in {"open", "sold"} : lot[l] # s /\ lot' = [lot EXCEPT ![l] = s]
  /\ UNCHANGED <<device, sub, sales>>

\* Its devices and its sub-lots go with it, unless one is on a pallet; a device
\* elsewhere that was in one of the sub-lots forgets it.
RemoveLot ==
  /\ Write("removeLot")
  /\ \E l \in LotsThere :
       LET subs == {s \in SubsThere : sub[s] = l} IN
       /\ \A d \in Present : device[d].lot = l => device[d].pallet = 0
       /\ lot' = [lot EXCEPT ![l] = "deleted"]
       /\ sub' = [s \in Subs |-> IF s \in subs THEN "deleted" ELSE sub[s]]
       /\ device' = [d \in Devices |->
            IF d \in Present /\ device[d].lot = l THEN Deleted
            ELSE IF device[d].sub \in subs THEN [device[d] EXCEPT !.sub = Nobody] ELSE device[d]]
  /\ UNCHANGED sales

CreateSub ==
  /\ Write("lots") /\ \E s \in Subs, l \in LotsThere : sub[s] = "none" /\ sub' = [sub EXCEPT ![s] = l]
  /\ UNCHANGED <<device, lot, sales>>

UpdateSub ==
  /\ Write("lots") /\ \E s \in SubsThere, l \in LotsThere : sub[s] # l /\ sub' = [sub EXCEPT ![s] = l]
  /\ UNCHANGED <<device, lot, sales>>

RemoveSub ==
  /\ Write("lots")
  /\ \E s \in SubsThere :
       /\ sub' = [sub EXCEPT ![s] = "deleted"]
       /\ device' = [d \in Devices |-> IF device[d].sub = s THEN [device[d] EXCEPT !.sub = Nobody] ELSE device[d]]
  /\ UNCHANGED <<lot, sales>>

-----------------------------------------------------------------------------
(* Devices *)

CreateDevice ==
  /\ Write("devices")
  /\ \E d \in Devices, l \in LotsThere \cup {Nobody}, s \in SubsThere \cup {Nobody} :
       /\ device[d].status = "none"
       /\ device' = [device EXCEPT ![d] = Unsold("in", l, s)]
  /\ UNCHANGED <<lot, sub, sales>>

\* A sold device is locked.  The lot, the sub-lot and the status are whatever
\* the request says: "sold" too, with no sale behind it.
UpdateDevice ==
  /\ Write("devices")
  /\ \E d \in InStock, l \in LotsThere, s \in SubsThere \cup {Nobody}, status \in {"in", "sold"} :
       device' = [device EXCEPT ![d] =
         [status |-> status, lot |-> l, sub |-> s, pallet |-> device[d].pallet,
          sale |-> device[d].sale, price |-> device[d].price, from |-> device[d].from]]
  /\ UNCHANGED <<lot, sub, sales>>

RemoveDevice ==
  /\ Write("removeDevice")
  /\ \E d \in Present : device' = [device EXCEPT ![d] = Deleted]
  /\ UNCHANGED <<lot, sub, sales>>

-----------------------------------------------------------------------------
(* Onto pallets and off them *)

\* What a move skips: sold devices, and those on this pallet or another one.
Movable(d, p) == d \in InStock /\ device[d].pallet = 0

Fill(p, ds) == [op |-> "add", pallet |-> p, todo |-> {d \in ds : Movable(d, p)}]

AddAssets ==
  \E p \in Ids, ds \in SUBSET Present :
    /\ Live(p) /\ pallet[p].layout = "asset" /\ pallet[p].status # "shipped"
    /\ Fill(p, ds).todo # {}
    /\ Start("pallets", Fill(p, ds)) /\ UNCHANGED goods

\* A new pallet first, then the same way.
TransferBatch ==
  \E l \in LotsThere, p \in NewIds :
    LET t == Fill(p, {d \in InStock : device[d].lot = l}) IN
    /\ t.todo # {} /\ May("transfer") /\ tasks' = tasks + 1 /\ task' = t
    /\ pallet' = [pallet EXCEPT ![p] = [status |-> "open", layout |-> "asset"]]
    /\ UNCHANGED <<line, sold, merges, booked, lock, req, world, made, shift, goods>>

AddNext ==
  /\ task.op = "add"
  /\ \E d \in task.todo :
       device' = [device EXCEPT ![d].pallet = task.pallet] /\ Then(Less(d))
  /\ UNCHANGED <<vars, lot, sub, sales>>

\* "Sold-with-the-pallet: the link IS the shipped manifest."
Removable(d) == d \in InStock /\ device[d].pallet # 0

RemoveAssets ==
  \E ds \in SUBSET {d \in Devices : Removable(d)} :
    /\ ds # {} /\ Start("pallets", [op |-> "take", todo |-> ds])
    /\ UNCHANGED goods

TakeNext ==
  /\ task.op = "take"
  /\ \E d \in task.todo : device' = [device EXCEPT ![d].pallet = 0] /\ Then(Less(d))
  /\ UNCHANGED <<vars, lot, sub, sales>>

-----------------------------------------------------------------------------
(* Selling *)

NewSale == Len(sales) + 1

Opened(total) == sales' = Append(sales, [total |-> total, units |-> 0, ended |-> FALSE])

SoldAs(d, sale, price, p, from) ==
  [status |-> "sold", lot |-> device[d].lot, sub |-> device[d].sub, pallet |-> p,
   sale |-> sale, price |-> price, from |-> from]

\* A device sold on its own leaves its pallet, which is kept as history.
Sell ==
  /\ Write("sell")
  /\ \E d \in InStock, price \in Totals :
       /\ device' = [device EXCEPT ![d] =
            SoldAs(d, NewSale, price, 0, IF device[d].pallet # 0 THEN device[d].pallet ELSE device[d].from)]
       /\ sales' = Append(sales, [total |-> price, units |-> 1, ended |-> TRUE])
  /\ UNCHANGED <<lot, sub>>

\* Mutant: the last share is like the others.
Share_Even(total, n, last) == IF total = <<>> THEN <<>> ELSE <<(2 * total[1] + n) \div (2 * n)>>

\* splitSaleTotal: equal rounded shares, what is left on the last.
Share(total, n, last) ==
  IF total = <<>> THEN <<>>
  ELSE LET share == (2 * total[1] + n) \div (2 * n)
       IN  <<IF last THEN total[1] - share * (n - 1) ELSE share>>

\* sellPallet, of an asset pallet, shipped or not.
SellAssetPallet ==
  \E p \in Ids, total \in Totals :
    LET unsold == Standing(p) \cap InStock IN
    /\ Live(p) /\ pallet[p].layout = "asset" /\ unsold # {}
    /\ Start("sellPallet", [op |-> "sellPallet", pallet |-> p, todo |-> unsold, sale |-> NewSale,
                            total |-> total, count |-> Cardinality(unsold)])
    /\ Opened(total) /\ UNCHANGED <<device, lot, sub>>

\* Device by device; its pallet stays, the manifest of what left.
SellNext ==
  /\ task.op = "sellPallet"
  /\ \E d \in task.todo :
       /\ device' = [device EXCEPT ![d] =
            SoldAs(d, task.sale, Share(task.total, task.count, task.todo = {d}), device[d].pallet, task.pallet)]
       /\ Then([op |-> IF task.todo = {d} THEN "ship" ELSE "sellPallet", pallet |-> task.pallet,
                todo |-> task.todo \ {d}, sale |-> task.sale, total |-> task.total, count |-> task.count])
  /\ UNCHANGED <<vars, lot, sub, sales>>

Ended == sales' = [sales EXCEPT ![task.sale] = [total |-> task.total, units |-> task.count, ended |-> TRUE]]

Ship ==
  /\ task.op = "ship"
  /\ pallet' = IF Exists(task.pallet) THEN [pallet EXCEPT ![task.pallet].status = "shipped"] ELSE pallet
  /\ Ended /\ Then(NoTask)
  /\ UNCHANGED <<line, sold, merges, booked, lock, req, world, made, device, lot, sub>>

SellBatch ==
  \E l \in LotsThere, total \in Totals :
    LET unsold == {d \in InStock : device[d].lot = l} IN
    /\ Start("sellLot", [op |-> IF unsold = {} THEN "close" ELSE "bulk", lot |-> l, todo |-> unsold,
                         sale |-> NewSale, total |-> total, count |-> Cardinality(unsold)])
    /\ Opened(total) /\ UNCHANGED <<device, lot, sub>>

\* Mutant: the lot's devices are all sold, the sold ones again.
BulkSell_All(d) == d \in Present /\ device[d].lot = task.lot

BulkSell(d) == d \in InStock /\ device[d].lot = task.lot

\* One statement; neither the pallet nor an earlier price is touched.
Bulk ==
  /\ task.op = "bulk"
  /\ device' = [d \in Devices |->
       IF BulkSell(d) THEN SoldAs(d, task.sale, device[d].price, device[d].pallet, device[d].from)
       ELSE device[d]]
  /\ Then([task EXCEPT !.op = IF task.total = <<>> THEN "close" ELSE "price"])
  /\ UNCHANGED <<vars, lot, sub, sales>>

\* Every device the total divided by their number, in whole pence ...
PriceAll ==
  /\ task.op = "price"
  /\ device' = [d \in Devices |->
       IF d \in task.todo THEN [device[d] EXCEPT !.price = <<task.total[1] \div task.count>>] ELSE device[d]]
  /\ Then([task EXCEPT !.op = "rest"])
  /\ UNCHANGED <<vars, lot, sub, sales>>

\* ... and one of them what is left.
PriceRest ==
  /\ task.op = "rest"
  /\ \E d \in task.todo :
       device' = [device EXCEPT ![d].price = <<@[1] + (task.total[1] % task.count)>>]
  /\ Then([task EXCEPT !.op = "close"])
  /\ UNCHANGED <<vars, lot, sub, sales>>

CloseLot ==
  /\ task.op = "close"
  /\ lot' = [lot EXCEPT ![task.lot] = "sold"]
  /\ Ended /\ Then(NoTask)
  /\ UNCHANGED <<vars, device, sub>>

-----------------------------------------------------------------------------
(* Returns, one or in bulk: to the lot the device was in, or to any *)

Back(d, l) ==
  Unsold("in", l, IF l = device[d].lot THEN device[d].sub ELSE Nobody)

ReturnFromSold ==
  \E ds \in SUBSET (Present \ InStock), l \in LotsThere \cup {Nobody, "own"} :
    /\ ds # {} /\ Start("return", [op |-> "return", todo |-> ds, lot |-> l, to |-> Nobody])
    /\ UNCHANGED goods

\* A request that does not name a lot, or no lot, means the lot the device was in.
Target(d) == IF task.lot = "own" THEN device[d].lot ELSE task.lot

ReturnNext ==
  /\ task.op = "return"
  /\ \E d \in task.todo :
       /\ device' = [device EXCEPT ![d] = Back(d, Target(d))]
       /\ Then([op |-> "reopen", todo |-> task.todo \ {d}, lot |-> task.lot, to |-> Target(d)])
  /\ UNCHANGED <<vars, lot, sub, sales>>

\* "A lot that was sold wholesale but just got a device back ... reopen it."
ReopenLot ==
  /\ task.op = "reopen"
  /\ lot' = IF task.to \in LotsThere THEN [lot EXCEPT ![task.to] = "open"] ELSE lot
  /\ Then(IF task.todo = {} THEN NoTask ELSE [task EXCEPT !.op = "return"])
  /\ UNCHANGED <<vars, device, sub, sales>>

-----------------------------------------------------------------------------
(* Pallets of either kind *)

Counted(q) ==
  /\ task = NoTask /\ (world = "goods" => "counted" \in shift.ops)
  /\ Request(q) /\ UNCHANGED goodsVars

\* Mutant: nothing counts the devices on a pallet of counted goods.
NoDeviceOn_Unasked(q) == req'[q].op \in {"delete"} => Standing(req'[q].pallet) = {}

\* A pallet with devices is neither deleted nor sold as counted goods.
NoDeviceOn(q) == req'[q].op \in {"delete", "sellAll"} => Standing(req'[q].pallet) = {}

\* Devices forget a pallet that goes.
Forgetting(d, p) ==
  [status |-> device[d].status, lot |-> device[d].lot, sub |-> device[d].sub,
   pallet |-> IF device[d].pallet = p THEN 0 ELSE device[d].pallet, sale |-> device[d].sale,
   price |-> device[d].price, from |-> IF device[d].from = p THEN 0 ELSE device[d].from]

PalletStep(q) ==
  /\ Step(q)
  /\ device' = IF req[q].op # "delete" THEN device ELSE [d \in Devices |-> Forgetting(d, req[q].pallet)]
  /\ UNCHANGED <<lot, sub, sales, task, shift, tasks>>

-----------------------------------------------------------------------------
\* The process stops between two statements.
Crash ==
  /\ task # NoTask /\ "crash" \in shift.ops
  /\ Then(NoTask) /\ UNCHANGED <<vars, goods>>

\* The counted goods of PalletStock's worlds, or devices in a lot beside an
\* asset pallet and an empty pallet for counted goods.
GoodsInit ==
  /\ shift \in Shifts
  /\ IF shift.ops = {} THEN Init
     ELSE /\ world = "goods" /\ made = 0 /\ line = <<>> /\ sold = <<>> /\ merges = {}
          /\ pallet = [p \in Ids |-> IF p = 1 THEN [status |-> "open", layout |-> "asset"]
                                     ELSE IF p = 2 THEN [status |-> "open", layout |-> "variant"] ELSE NoPallet]
          /\ lock = [p \in Ids |-> Nobody] /\ req = [q \in Requests |-> Idle]
          /\ booked = [i \in Items |-> 0]
  /\ lot = [l \in Lots |-> IF l \in shift.lots THEN "open" ELSE "none"]
  /\ sub = [s \in Subs |-> "none"]
  /\ \E l \in [shift.devices -> shift.lots] :
       device = [d \in Devices |-> IF d \in shift.devices THEN Unsold("in", l[d], Nobody) ELSE NoDevice]
  /\ sales = <<>> /\ task = NoTask /\ tasks = 0

Desk ==
  \/ CreateLot \/ UpdateLot \/ RemoveLot \/ CreateSub \/ UpdateSub \/ RemoveSub
  \/ CreateDevice \/ UpdateDevice \/ RemoveDevice
  \/ AddAssets \/ TransferBatch \/ RemoveAssets
  \/ Sell \/ SellAssetPallet \/ SellBatch \/ ReturnFromSold

Statement ==
  \/ AddNext \/ TakeNext \/ SellNext \/ Ship
  \/ Bulk \/ PriceAll \/ PriceRest \/ CloseLot
  \/ ReturnNext \/ ReopenLot

GoodsNext ==
  \/ Desk \/ Statement \/ Crash
  \/ \E q \in Requests : Counted(q) /\ NoDeviceOn(q)
  \/ \E q \in Requests : PalletStep(q)

GoodsSpec == GoodsInit /\ [][GoodsNext]_allVars

-----------------------------------------------------------------------------
(* Properties *)

SoldBy(sale) == {d \in Devices : device[d].sale = sale}

\* "The stored sum equals what was entered": the prices of the devices of a whole
\* sale add up to its total, for every sale that ran to its end and whose devices
\* are all still sold, whatever else was moved, sold, returned or deleted.
SalesAddUp ==
  \A s \in DOMAIN sales :
    sales[s].ended /\ sales[s].total # <<>> /\ Cardinality(SoldBy(s)) = sales[s].units /\ sales[s].units > 0 =>
      SumOver([d \in SoldBy(s) |-> device[d].price[1]], SoldBy(s)) = sales[s].total[1]

\* A sold device keeps the record of its sale, and its place on the pallet that
\* left with it, through every later request and every stop of the process, until
\* it is returned or deleted; only the sale itself still prices it.
SaleRecordStands ==
  [][\A d \in Devices : device[d].status = "sold" =>
       \/ device'[d].status = "deleted"
       \/ device'[d].status = "in" /\ task.op = "return" /\ device'[d].pallet = 0
       \/ /\ device'[d].status = "sold"
          /\ device'[d].sale = device[d].sale /\ device'[d].pallet = device[d].pallet
          /\ \/ device'[d].price = device[d].price
             \/ task.op \in {"price", "rest"} /\ task.sale = device[d].sale]_allVars

\* A sale never ships "a pallet whose devices stay in stock and double-count".
ShippedWhole ==
  /\ task.op = "ship" => Standing(task.pallet) \cap InStock = {}
  /\ \A q \in Requests : req[q].op = "empty" => Standing(req[q].pallet) = {}
=============================================================================
