---------------------------- MODULE GoodsInProofs ----------------------------
(***************************************************************************)
(* Proofs about counted goods and devices (PalletStock, GoodsIn), for any  *)
(* number of requests, pallets, lines, devices, lots and sales.  PalletInv *)
(* and GoodsInv say what a request under way holds and has read; Balanced  *)
(* counts the goods in the middle of a request, SaleInv the devices and    *)
(* the pence in the middle of a sale.                                      *)
(***************************************************************************)
EXTENDS GoodsIn, SumLemmas, SequenceTheorems, FiniteSetTheorems

-----------------------------------------------------------------------------
(* What a request can be. *)

PalletRow == [status : Statuses \cup {"none", "deleted"}, layout : {"none", "variant", "spec", "asset"}]

LineRow == [pallet : 0..MaxPallets, item : Items, qty : Nat]

SoldRow == [pallet : 0..MaxPallets, item : Items, qty : Nat, back : BOOLEAN]

Patches == [op : {"patch"}, pallet : Ids, status : {"open", "shipped", "none"}, layout : {"variant", "asset", "none"}]
Deletes == [op : {"delete"}, pallet : Ids]
Inserts == [op : {"insert", "clear"}, pallet : Ids, item : Items, qty : Nat]
Sells == [op : {"sell", "shrink"}, pallet : Ids, line : Nat, item : Items, qty : Nat, seen : Nat]
SellAlls == [op : {"sellAll", "empty"}, pallet : Ids, todo : SUBSET [line : Nat, item : Items, qty : Nat]]
Puts == [op : {"put", "reopen", "stamp"}, pallet : Ids, line : Nat, item : Items, qty : Nat, seen : Nat,
         sale : Nat, status : Statuses]
Merges == [op : {"lock", "merge"}, pallet : Ids, second : Ids, todo : SUBSET Ids]

Reqs == {Idle} \cup Patches \cup Deletes \cup Inserts \cup Sells \cup SellAlls \cup Puts \cup Merges

\* The requests that nothing else runs beside.
Solo == {"patch", "delete", "insert", "clear", "sellAll", "empty", "put", "reopen", "stamp"}

OnLine == {"sell", "shrink"}

Merging == {"lock", "merge"}

PalletTypeOK ==
  /\ pallet \in [Ids -> PalletRow]
  /\ line \in Seq(LineRow)
  /\ sold \in Seq(SoldRow)
  /\ lock \in [Ids -> Requests \cup {Nobody}]
  /\ req \in [Requests -> Reqs]
  /\ booked \in [Items -> Int]

(* A merge holds the rows it has locked, all before those it has yet to lock. *)
LocksRise ==
  /\ \A q \in Requests : req[q].op \in Merging =>
       /\ req[q].todo \subseteq {req[q].pallet, req[q].second}
       /\ req[q].op = "lock" => req[q].todo # {}
  /\ \A q \in Requests, p \in Ids : lock[p] = q =>
       /\ req[q].op \in Merging
       /\ \A s \in req[q].todo : p < s

(* Who may be under way beside whom. *)
Beside ==
  /\ \A q, r \in Requests : q # r /\ req[q].op \in Solo => req[r] = Idle
  /\ \A q, r \in Requests : q # r /\ req[q].op \in OnLine => req[r].op \in Merging \cup {"idle"}
  /\ world = "merging" => \A q \in Requests : req[q].op \notin Solo

(* Goods stand on pallets that are not merged, and no request writes to another. *)
LinesLive == \A l \in DOMAIN line : line[l].pallet # 0 => Live(line[l].pallet)

OnlyLive ==
  /\ LinesLive
  /\ \A q \in Requests : req[q].op \in Solo => Live(req[q].pallet)

(* What a request has read still stands: its line, its lines, its sale. *)
LineRead(q) ==
  /\ req[q].op \in OnLine =>
       /\ req[q].line \in DOMAIN line /\ line[req[q].line].pallet # 0
       /\ line[req[q].line].item = req[q].item /\ line[req[q].line].qty = req[q].seen
       /\ req[q].qty <= req[q].seen
  /\ req[q].op = "put" /\ req[q].line # 0 =>
       /\ req[q].line \in On(req[q].pallet)
       /\ line[req[q].line].item = req[q].item /\ line[req[q].line].qty = req[q].seen

TodoRead(q) ==
  req[q].op \in {"sellAll", "empty"} =>
    /\ \A t \in req[q].todo :
         t.line \in On(req[q].pallet) /\ line[t.line].item = t.item /\ line[t.line].qty = t.qty
    /\ req[q].op = "empty" => req[q].todo = {}

SaleRead(q) ==
  req[q].op \in {"put", "reopen", "stamp"} =>
    /\ req[q].sale \in DOMAIN sold /\ ~sold[req[q].sale].back
    /\ sold[req[q].sale].item = req[q].item /\ sold[req[q].sale].qty = req[q].qty

Reads == \A q \in Requests : LineRead(q) /\ TodoRead(q) /\ SaleRead(q)

PalletInv == PalletTypeOK /\ LocksRise /\ Beside /\ OnlyLive

LEMMA ReqOps ==
  ASSUME NEW r \in Reqs
  PROVE  /\ r.op = "idle" <=> r = Idle
         /\ r.op = "patch" <=> r \in Patches
         /\ r.op = "delete" <=> r \in Deletes
         /\ r.op \in {"insert", "clear"} <=> r \in Inserts
         /\ r.op \in OnLine <=> r \in Sells
         /\ r.op \in {"sellAll", "empty"} <=> r \in SellAlls
         /\ r.op \in {"put", "reopen", "stamp"} <=> r \in Puts
         /\ r.op \in Merging <=> r \in Merges
         /\ r.op \in Solo => r.pallet \in Ids
<1>1. r = Idle => r.op = "idle"
  BY DEF Idle
<1>2. r \in Patches => r.op = "patch" /\ r.pallet \in Ids
  BY DEF Patches
<1>3. r \in Deletes => r.op = "delete" /\ r.pallet \in Ids
  BY DEF Deletes
<1>4. r \in Inserts => r.op \in {"insert", "clear"} /\ r.pallet \in Ids
  BY DEF Inserts
<1>5. r \in Sells => r.op \in OnLine /\ r.pallet \in Ids
  BY DEF Sells, OnLine
<1>6. r \in SellAlls => r.op \in {"sellAll", "empty"} /\ r.pallet \in Ids
  BY DEF SellAlls
<1>7. r \in Puts => r.op \in {"put", "reopen", "stamp"} /\ r.pallet \in Ids
  BY DEF Puts
<1>8. r \in Merges => r.op \in Merging
  BY DEF Merges, Merging
<1> QED
  BY <1>1, <1>2, <1>3, <1>4, <1>5, <1>6, <1>7, <1>8 DEF Reqs, Solo, OnLine, Merging

LEMMA InitPallets == Init => PalletInv
<1> SUFFICES ASSUME Init PROVE PalletInv
  OBVIOUS
<1>1. Idle \in Reqs /\ Idle.op = "idle"
  BY DEF Idle, Reqs
<1>2. PICK layout \in [1..Pallets -> {"variant", "spec"}] :
        pallet = [p \in Ids |-> IF p <= Pallets THEN [status |-> "open", layout |-> layout[p]] ELSE NoPallet]
  BY DEF Init
<1>3. Pallets \in Nat /\ MaxPallets \in Nat /\ Pallets <= MaxPallets /\ Nobody \notin Requests
  BY StockAssumption
<1>4. line \in Seq([pallet : 1..Pallets, item : Items, qty : Nat])
  BY StockAssumption DEF Init
<1>5. /\ DOMAIN line = 1..Len(line) /\ Len(line) \in Nat
      /\ \A l \in DOMAIN line : line[l] \in [pallet : 1..Pallets, item : Items, qty : Nat]
  BY <1>4, LenProperties, ElementOfSeq
<1>6. \A l \in DOMAIN line : line[l] \in LineRow /\ line[l].pallet \in 1..Pallets
  BY <1>3, <1>5 DEF LineRow
<1>7. line \in Seq(LineRow)
  <2>1. line \in [1..Len(line) -> [pallet : 1..Pallets, item : Items, qty : Nat]]
    BY <1>4, LenProperties
  <2>2. line \in [1..Len(line) -> LineRow]
    BY <1>5, <1>6, <2>1
  <2> QED
    BY <1>5, <2>2, SeqDef
<1>8. \A p \in 1..Pallets : p \in Ids /\ Live(p)
  BY <1>2, <1>3 DEF Ids, Live, Exists, Statuses
<1>9. pallet \in [Ids -> PalletRow]
  BY <1>2, <1>3 DEF Ids, PalletRow, NoPallet, Statuses
<1>10. \A i \in Items : Units(DOMAIN line, i) \in Int
  <2> SUFFICES ASSUME NEW i \in Items PROVE Units(DOMAIN line, i) \in Int
    OBVIOUS
  <2> DEFINE g == [l \in DOMAIN line |-> IF l \in DOMAIN line /\ line[l].item = i THEN line[l].qty ELSE 0]
  <2>1. \A l \in 1..Len(line) : g[l] \in Int
    BY <1>5, <1>6 DEF LineRow
  <2> HIDE DEF g
  <2>2. SumTo(g, Len(line)) \in Int
    BY <1>5, <2>1, SumInt
  <2> QED
    BY <2>2 DEF g, Units
<1>11. PalletTypeOK
  <2>1. sold \in Seq(SoldRow)
    BY DEF Init
  <2> QED
    BY <1>1, <1>7, <1>9, <1>10, <2>1 DEF Init, PalletTypeOK
<1>12. LocksRise /\ Beside
  BY <1>1, <1>3 DEF Init, LocksRise, Beside, Solo, OnLine, Merging
<1>13. OnlyLive
  BY <1>1, <1>6, <1>8 DEF Init, OnlyLive, LinesLive, Solo
<1> QED
  BY <1>11, <1>12, <1>13 DEF PalletInv

-----------------------------------------------------------------------------
(* Steps. *)

Others(q) == \A r \in Requests \ {q} : req'[r] = req[r]

LEMMA ReqTypes ==
  ASSUME PalletInv, NEW q \in Requests
  PROVE  req[q] \in Reqs
BY DEF PalletInv, PalletTypeOK

(* A request that goes on, or ends. *)
LEMMA GoOn ==
  ASSUME PalletInv, NEW q \in Requests, NEW r \in Reqs, Go(q, r),
         \/ req[q].op \in Solo /\ r.op \in Solo \cup {"idle"}
         \/ req[q].op \in OnLine /\ r.op \in OnLine \cup {"idle"}
  PROVE  /\ req' \in [Requests -> Reqs] /\ lock' \in [Ids -> Requests \cup {Nobody}]
         /\ LocksRise' /\ Beside'
         /\ req'[q] = r /\ Others(q)
         /\ \A s \in Requests \ {q} : req[s].op \notin Solo
<1>1. req' = [req EXCEPT ![q] = r] /\ UNCHANGED <<lock, world, made>>
  BY DEF Go
<1>2. req \in [Requests -> Reqs] /\ lock \in [Ids -> Requests \cup {Nobody}]
  BY DEF PalletInv, PalletTypeOK
<1>3. req'[q] = r /\ \A s \in Requests \ {q} : req'[s] = req[s]
  BY <1>1, <1>2
<1>4. r.op \notin Merging /\ req[q].op \notin Merging /\ req[q] # Idle
  BY DEF Solo, OnLine, Merging, Idle
<1>5. LocksRise'
  BY <1>1, <1>3, <1>4 DEF PalletInv, LocksRise
<1>6. r = Idle <=> r.op = "idle"
  BY ReqOps
<1>7. Beside'
  <2>1. \A s \in Requests \ {q} : req[s].op \notin Solo
    BY <1>4 DEF PalletInv, Beside
  <2>2. CASE req[q].op \in Solo /\ r.op \in Solo \cup {"idle"}
    <3>1. \A s \in Requests \ {q} : req'[s] = Idle /\ Idle.op = "idle"
      BY <1>3, <2>2 DEF PalletInv, Beside, Idle
    <3>2. world # "merging" /\ world' = world
      BY <1>1, <2>2 DEF PalletInv, Beside
    <3> QED
      BY <1>3, <1>6, <2>2, <3>1, <3>2 DEF Beside, Solo, OnLine
  <2>3. CASE req[q].op \in OnLine /\ r.op \in OnLine \cup {"idle"}
    <3>1. \A s \in Requests \ {q} : req'[s].op \in Merging \cup {"idle"}
      BY <1>3, <2>3 DEF PalletInv, Beside
    <3> QED
      BY <1>3, <2>3, <3>1 DEF Beside, Solo, OnLine, Merging
  <2> QED
    BY <2>2, <2>3
<1>8. \A s \in Requests \ {q} : req[s].op \notin Solo
  BY <1>4 DEF PalletInv, Beside
<1> QED
  BY <1>1, <1>2, <1>3, <1>5, <1>7, <1>8 DEF Others

(* A request that begins. *)
LEMMA BeginPallets ==
  ASSUME PalletInv, NEW q \in Requests, NEW r \in Reqs, Begin(q, r),
         r.op \in Solo => Live(r.pallet),
         r.op \in Solo \cup {"sell", "lock"},
         r.op = "lock" => r.todo \subseteq {r.pallet, r.second} /\ r.todo # {}
  PROVE  PalletInv'
<1>1. /\ req' = [req EXCEPT ![q] = r] /\ UNCHANGED <<stock, lock, world>> /\ MayBegin(q, r.op)
  BY DEF Begin
<1>2. req \in [Requests -> Reqs] /\ lock \in [Ids -> Requests \cup {Nobody}]
  BY DEF PalletInv, PalletTypeOK
<1>3. req'[q] = r /\ req[q] = Idle /\ Idle.op = "idle" /\ \A s \in Requests \ {q} : req'[s] = req[s]
  BY <1>1, <1>2 DEF MayBegin, Idle
<1>4. PalletTypeOK'
  BY <1>1, <1>2 DEF PalletInv, PalletTypeOK, stock
<1>5. LocksRise'
  BY <1>1, <1>3 DEF PalletInv, LocksRise, Merging, Solo
<1>6. Beside'
  <2>1. \A s \in Requests \ {q} : req[s].op \notin Solo
    <3>1. CASE world = "merging"
      BY <3>1 DEF PalletInv, Beside
    <3>2. CASE world # "merging"
      BY <1>1, <1>3, <3>2 DEF MayBegin, Busy, Solo
    <3> QED
      BY <3>1, <3>2
  <2>2. CASE world # "merging"
    <3>1. \A s \in Requests \ {q} : req'[s] = Idle
      BY <1>1, <1>3, <2>2 DEF MayBegin, Busy
    <3> QED
      BY <1>1, <1>3, <2>2, <3>1 DEF Beside, Solo, OnLine
  <2>3. CASE world = "merging" /\ r.op = "lock"
    BY <1>1, <1>3, <2>1, <2>3 DEF PalletInv, Beside, Solo, OnLine, Merging
  <2>4. CASE world = "merging" /\ r.op # "lock"
    <3>1. r.op = "sell" /\ \A s \in Busy : req[s].op \in Merging
      BY <1>1, <2>4 DEF MayBegin, OnOneLine, Solo, Merging
    <3>2. \A s \in Requests \ {q} : req'[s].op \in Merging \cup {"idle"}
      BY <1>3, <3>1 DEF Busy
    <3> QED
      BY <1>1, <1>3, <2>1, <2>4, <3>1, <3>2 DEF Beside, Solo, OnLine, Merging
  <2> QED
    BY <2>2, <2>3, <2>4
<1>7. OnlyLive'
  <2>1. pallet' = pallet /\ line' = line
    BY <1>1 DEF stock
  <2>2. \A p : Live(p)' = Live(p)
    BY <2>1 DEF Live, Exists
  <2> QED
    BY <1>3, <2>1, <2>2 DEF PalletInv, OnlyLive, LinesLive
<1> QED
  BY <1>4, <1>5, <1>6, <1>7 DEF PalletInv

(* The lines, by their places. *)
LEMMA LineTypes ==
  ASSUME line \in Seq(LineRow)
  PROVE  /\ Len(line) \in Nat /\ DOMAIN line = 1..Len(line) /\ line \in [DOMAIN line -> LineRow]
         /\ \A l \in DOMAIN line :
              /\ line[l] \in LineRow /\ line[l].qty \in Nat /\ line[l].item \in Items
              /\ line[l].pallet \in 0..MaxPallets
<1>1. /\ Len(line) \in Nat /\ DOMAIN line = 1..Len(line) /\ line \in [1..Len(line) -> LineRow]
      /\ \A l \in DOMAIN line : line[l] \in LineRow
  BY LenProperties, ElementOfSeq
<1> QED
  BY <1>1 DEF LineRow

LEMMA SameLines ==
  ASSUME line \in Seq(LineRow), line' \in [DOMAIN line -> LineRow]
  PROVE  line' \in Seq(LineRow) /\ DOMAIN line' = DOMAIN line /\ Len(line') = Len(line)
<1>1. Len(line) \in Nat /\ DOMAIN line = 1..Len(line)
  BY LenProperties
<1>2. line' \in Seq(LineRow)
  BY <1>1, SeqDef
<1> QED
  BY <1>1, <1>2, LenProperties

LEMMA DropLines ==
  ASSUME line \in Seq(LineRow), NEW ls, Drop(ls)
  PROVE  /\ line' \in Seq(LineRow) /\ DOMAIN line' = DOMAIN line /\ Len(line') = Len(line)
         /\ \A l \in DOMAIN line :
              /\ line'[l].item = line[l].item /\ line'[l].qty = line[l].qty
              /\ line'[l].pallet = IF l \in ls THEN 0 ELSE line[l].pallet
<1>1. ASSUME NEW l \in DOMAIN line
      PROVE  /\ line'[l] \in LineRow /\ line'[l].item = line[l].item /\ line'[l].qty = line[l].qty
             /\ line'[l].pallet = IF l \in ls THEN 0 ELSE line[l].pallet
  <2>1. line[l] \in LineRow /\ MaxPallets \in Nat
    BY LineTypes, StockAssumption
  <2>2. line'[l] = IF l \in ls THEN [line[l] EXCEPT !.pallet = 0] ELSE line[l]
    BY DEF Drop
  <2> QED
    BY <2>1, <2>2 DEF LineRow
<1>2. line' = [l \in DOMAIN line |-> line'[l]]
  BY DEF Drop
<1>3. line' \in [DOMAIN line -> LineRow]
  BY <1>1, <1>2
<1> QED
  BY <1>1, <1>3, SameLines

LEMMA SetQuantity ==
  ASSUME line \in Seq(LineRow), NEW l \in DOMAIN line, NEW n \in Nat, SetQty(l, n)
  PROVE  /\ line' \in Seq(LineRow) /\ DOMAIN line' = DOMAIN line /\ Len(line') = Len(line)
         /\ line'[l].qty = n
         /\ \A k \in DOMAIN line :
              /\ line'[k].item = line[k].item /\ line'[k].pallet = line[k].pallet
              /\ k # l => line'[k].qty = line[k].qty
<1>1. line \in [DOMAIN line -> LineRow] /\ line[l] \in LineRow
  BY LineTypes
<1> DEFINE row == [line[l] EXCEPT !.qty = n]
<1>2. row \in LineRow /\ row.qty = n /\ row.item = line[l].item /\ row.pallet = line[l].pallet
  BY <1>1 DEF LineRow
<1>3. line' = [line EXCEPT ![l] = row]
  BY DEF SetQty
<1> HIDE DEF row
<1>4. line' \in [DOMAIN line -> LineRow]
  BY <1>1, <1>2, <1>3
<1>5. line'[l] = row /\ \A k \in DOMAIN line \ {l} : line'[k] = line[k]
  BY <1>1, <1>3
<1> QED
  BY <1>2, <1>4, <1>5, SameLines

LEMMA AddedLine ==
  ASSUME line \in Seq(LineRow), NEW row \in LineRow, line' = Append(line, row)
  PROVE  /\ line' \in Seq(LineRow) /\ Len(line') = Len(line) + 1
         /\ DOMAIN line' = DOMAIN line \cup {Len(line) + 1} /\ Len(line) + 1 \notin DOMAIN line
         /\ line'[Len(line) + 1] = row
         /\ \A l \in DOMAIN line : line'[l] = line[l]
<1>1. /\ Len(line) \in Nat /\ DOMAIN line = 1..Len(line) /\ line' \in Seq(LineRow)
      /\ Len(line') = Len(line) + 1 /\ DOMAIN line' = 1..(Len(line) + 1) /\ line'[Len(line) + 1] = row
      /\ \A l \in 1..Len(line) : line'[l] = line[l]
  BY LenProperties, AppendProperties
<1> QED
  BY <1>1

LEMMA UnitsInt ==
  ASSUME line \in Seq(LineRow), NEW ls, NEW i
  PROVE  Units(ls, i) \in Int
<1> DEFINE g == [l \in DOMAIN line |-> IF l \in ls /\ line[l].item = i THEN line[l].qty ELSE 0]
<1>1. \A l \in 1..Len(line) : g[l] \in Int
  BY LineTypes
<1>2. Len(line) \in Nat
  BY LineTypes
<1> HIDE DEF g
<1>3. SumTo(g, Len(line)) \in Int
  BY <1>1, <1>2, SumInt
<1> QED
  BY <1>3 DEF g, Units

LEMMA RequestPallets ==
  ASSUME PalletInv, NEW q \in Requests, Request(q)
  PROVE  PalletInv'
<1>1. /\ pallet \in [Ids -> PalletRow] /\ req \in [Requests -> Reqs] /\ line \in Seq(LineRow)
      /\ \A p : Live(p) => p \in Ids /\ pallet[p].status \in {"open", "shipped"}
  BY DEF PalletInv, PalletTypeOK, Live, Exists, Statuses
<1>2. CASE Create(q)
  <2>1. PICK p \in NewIds, s \in Statuses, layout \in {"variant", "asset"} :
          pallet' = [pallet EXCEPT ![p] = [status |-> s, layout |-> layout]]
    BY <1>2 DEF Create
  <2>2. /\ p \in Ids /\ pallet[p].status = "none" /\ pallet' \in [Ids -> PalletRow]
        /\ \A x \in Ids \ {p} : pallet'[x] = pallet[x]
    BY <1>1, <2>1 DEF NewIds, PalletRow
  <2>3. \A x : Live(x) => Live(x)'
    BY <1>1, <2>2 DEF Live, Exists, Statuses
  <2>4. UNCHANGED <<line, sold, merges, booked, lock, req, world>>
    BY <1>2 DEF Create
  <2> QED
    BY <2>2, <2>3, <2>4 DEF PalletInv, PalletTypeOK, LocksRise, Beside, OnlyLive, LinesLive
<1>3. CASE CreateFromSpec(q)
  <2>0. PICK p \in NewIds, i \in Items, n \in 0..MaxQty :
          /\ pallet' = [pallet EXCEPT ![p] = [status |-> "open", layout |-> "spec"]]
          /\ \E next \in {Idle, [op |-> "insert", pallet |-> p, item |-> i, qty |-> n]} :
               req' = [req EXCEPT ![q] = next]
    BY <1>3 DEF CreateFromSpec
  <2>1. PICK r \in {Idle, [op |-> "insert", pallet |-> p, item |-> i, qty |-> n]} :
          /\ pallet' = [pallet EXCEPT ![p] = [status |-> "open", layout |-> "spec"]]
          /\ req' = [req EXCEPT ![q] = r]
    BY <2>0
  <2>2. /\ p \in Ids /\ pallet[p].status = "none" /\ pallet' \in [Ids -> PalletRow]
        /\ \A x \in Ids \ {p} : pallet'[x] = pallet[x]
    BY <1>1, <2>1 DEF NewIds, PalletRow, Statuses
  <2>3. /\ \A x : Live(x) => Live(x)'
        /\ Live(p)'
    BY <1>1, <2>1, <2>2 DEF Live, Exists, Statuses
  <2>4. UNCHANGED <<line, sold, merges, booked, lock, world>>
    BY <1>3 DEF CreateFromSpec
  <2>5. world # "merging" /\ \A s \in Requests : req[s] = Idle
    BY <1>3 DEF CreateFromSpec, MayBegin, OnOneLine, Busy
  <2>6. /\ r \in Reqs
        /\ r = Idle \/ (r.op = "insert" /\ r.pallet = p)
    BY <2>1, <2>2, StockAssumption DEF Reqs, Inserts
  <2>7. req'[q] = r /\ Idle.op = "idle" /\ \A s \in Requests \ {q} : req'[s] = Idle
    BY <1>1, <2>1, <2>5 DEF Idle
  <2>8. req' \in [Requests -> Reqs]
    BY <1>1, <2>1, <2>6
  <2>9. Beside' /\ LocksRise'
    BY <2>4, <2>5, <2>6, <2>7 DEF PalletInv, Beside, LocksRise, Solo, OnLine, Merging
  <2>10. OnlyLive'
    BY <2>3, <2>4, <2>6, <2>7 DEF PalletInv, OnlyLive, LinesLive, Solo
  <2> QED
    BY <2>2, <2>4, <2>8, <2>9, <2>10 DEF PalletInv, PalletTypeOK
<1>4. CASE Update(q)
  <2>1. PICK p \in Ids, s \in {"open", "shipped", "none"}, layout \in {"variant", "asset", "none"} :
          Live(p) /\ Begin(q, [op |-> "patch", pallet |-> p, status |-> s, layout |-> layout])
    BY <1>4 DEF Update
  <2> DEFINE r == [op |-> "patch", pallet |-> p, status |-> s, layout |-> layout]
  <2>2. r \in Reqs /\ r.op = "patch" /\ r.pallet = p
    BY DEF Reqs, Patches
  <2>3. Begin(q, r)
    BY <2>1
  <2> HIDE DEF r
  <2> QED
    BY <2>1, <2>2, <2>3, BeginPallets DEF Solo
<1>5. CASE RemovePallet(q)
  <2>1. PICK p \in Ids : Live(p) /\ Begin(q, [op |-> "delete", pallet |-> p])
    BY <1>5 DEF RemovePallet
  <2> DEFINE r == [op |-> "delete", pallet |-> p]
  <2>2. r \in Reqs /\ r.op = "delete" /\ r.pallet = p
    BY DEF Reqs, Deletes
  <2>3. Begin(q, r)
    BY <2>1
  <2> HIDE DEF r
  <2> QED
    BY <2>1, <2>2, <2>3, BeginPallets DEF Solo
<1>6. ASSUME NEW p \in Ids, NEW i \in Items, NEW n \in 0..MaxQty, NEW op \in {"insert", "clear"}, Live(p),
             Begin(q, [op |-> op, pallet |-> p, item |-> i, qty |-> n])
      PROVE  PalletInv'
  <2> DEFINE r == [op |-> op, pallet |-> p, item |-> i, qty |-> n]
  <2>2. r \in Reqs /\ r.op = op /\ r.pallet = p
    BY StockAssumption DEF Reqs, Inserts
  <2>3. Begin(q, r)
    BY <1>6
  <2> HIDE DEF r
  <2> QED
    BY <1>6, <2>2, <2>3, BeginPallets DEF Solo
<1>7. CASE AddLine(q) \/ ReplaceSpec(q)
  BY <1>6, <1>7 DEF AddLine, ReplaceSpec
<1>8. CASE UpdateLine(q)
  <2>1. PICK l \in DOMAIN line, n \in 0..MaxQty :
          SetQty(l, n) /\ Book(line[l].item, n - line[l].qty)
    BY <1>8 DEF UpdateLine
  <2>2. /\ line' \in Seq(LineRow) /\ DOMAIN line' = DOMAIN line
        /\ \A k \in DOMAIN line : line'[k].pallet = line[k].pallet
    <3>1. n \in Nat
      BY StockAssumption
    <3> QED
      BY <1>1, <2>1, <3>1, SetQuantity
  <2>3. booked' \in [Items -> Int]
    BY <1>1, <2>1, LineTypes, StockAssumption DEF Book, PalletInv, PalletTypeOK
  <2>4. UNCHANGED <<pallet, sold, merges, lock, req, world>>
    BY <1>8 DEF UpdateLine
  <2> QED
    BY <2>2, <2>3, <2>4 DEF PalletInv, PalletTypeOK, LocksRise, Beside, OnlyLive, LinesLive, Live, Exists
<1>9. CASE RemoveLine(q)
  <2>1. PICK l \in DOMAIN line : Drop({l}) /\ BookOut({l})
    BY <1>9 DEF RemoveLine
  <2>2. /\ line' \in Seq(LineRow) /\ DOMAIN line' = DOMAIN line
        /\ \A k \in DOMAIN line : line'[k].pallet \in {line[k].pallet, 0}
    BY <1>1, <2>1, DropLines
  <2>3. booked' \in [Items -> Int]
    BY <1>1, <2>1, UnitsInt DEF BookOut, PalletInv, PalletTypeOK
  <2>4. UNCHANGED <<pallet, sold, merges, lock, req, world>>
    BY <1>9 DEF RemoveLine
  <2> QED
    BY <2>2, <2>3, <2>4 DEF PalletInv, PalletTypeOK, LocksRise, Beside, OnlyLive, LinesLive, Live, Exists
<1>10. CASE SellLine(q)
  <2>0. PICK l \in DOMAIN line : \E n \in 1..line[l].qty :
          /\ Live(line[l].pallet)
          /\ Begin(q, [op |-> "sell", pallet |-> line[l].pallet, line |-> l, item |-> line[l].item,
                       qty |-> n, seen |-> line[l].qty])
    BY <1>10 DEF SellLine
  <2>1. PICK n \in 1..line[l].qty :
          /\ Live(line[l].pallet)
          /\ Begin(q, [op |-> "sell", pallet |-> line[l].pallet, line |-> l, item |-> line[l].item,
                       qty |-> n, seen |-> line[l].qty])
    BY <2>0
  <2> DEFINE r == [op |-> "sell", pallet |-> line[l].pallet, line |-> l, item |-> line[l].item,
                   qty |-> n, seen |-> line[l].qty]
  <2>2. r \in Reqs /\ r.op = "sell"
    <3>1. l \in Nat /\ n \in Nat /\ line[l].qty \in Nat /\ line[l].item \in Items /\ line[l].pallet \in Ids
      BY <1>1, <2>1, LineTypes
    <3> QED
      BY <3>1 DEF Reqs, Sells
  <2>3. Begin(q, r)
    BY <2>1
  <2> HIDE DEF r
  <2> QED
    BY <2>2, <2>3, BeginPallets DEF Solo
<1>11. CASE SellPallet(q)
  <2>1. PICK p \in Ids :
          /\ Live(p)
          /\ Begin(q, [op |-> "sellAll", pallet |-> p,
                       todo |-> {[line |-> l, item |-> line[l].item, qty |-> line[l].qty] :
                                   l \in {m \in On(p) : line[m].qty > 0}}])
    BY <1>11 DEF SellPallet
  <2> DEFINE todo == {[line |-> l, item |-> line[l].item, qty |-> line[l].qty] :
                        l \in {m \in On(p) : line[m].qty > 0}}
             r == [op |-> "sellAll", pallet |-> p, todo |-> todo]
  <2>2. todo \subseteq [line : Nat, item : Items, qty : Nat]
    BY <1>1, LineTypes DEF On
  <2>3. Begin(q, r)
    BY <2>1
  <2> HIDE DEF todo
  <2>4. r \in Reqs /\ r.op = "sellAll" /\ r.pallet = p
    BY <2>2 DEF Reqs, SellAlls
  <2> HIDE DEF r
  <2> QED
    BY <2>1, <2>3, <2>4, BeginPallets DEF Solo
<1>12. CASE Return(q)
  <2>0. PICK s \in DOMAIN sold, p \in Ids :
          /\ Live(p)
          /\ \E l \in On(p) \cup {0} :
               Begin(q, [op |-> "put", pallet |-> p, line |-> l, item |-> sold[s].item, qty |-> sold[s].qty,
                         seen |-> IF l = 0 THEN 0 ELSE line[l].qty, sale |-> s, status |-> pallet[p].status])
    BY <1>12 DEF Return
  <2>1. PICK l \in On(p) \cup {0} :
          Begin(q, [op |-> "put", pallet |-> p, line |-> l, item |-> sold[s].item, qty |-> sold[s].qty,
                    seen |-> IF l = 0 THEN 0 ELSE line[l].qty, sale |-> s, status |-> pallet[p].status])
    BY <2>0
  <2> DEFINE seen == IF l = 0 THEN 0 ELSE line[l].qty
             r == [op |-> "put", pallet |-> p, line |-> l, item |-> sold[s].item, qty |-> sold[s].qty,
                   seen |-> seen, sale |-> s, status |-> pallet[p].status]
  <2>2. /\ l \in Nat /\ seen \in Nat /\ pallet[p].status \in Statuses
    BY <1>1, <2>0, LineTypes DEF On, Statuses
  <2>3. s \in Nat /\ sold[s].item \in Items /\ sold[s].qty \in Nat
    <3>1. sold \in Seq(SoldRow)
      BY DEF PalletInv, PalletTypeOK
    <3>2. s \in Nat /\ sold[s] \in SoldRow
      BY <3>1, LenProperties, ElementOfSeq
    <3> QED
      BY <3>2 DEF SoldRow
  <2>4. Begin(q, r)
    BY <2>1
  <2> HIDE DEF seen
  <2>5. r \in Reqs /\ r.op = "put" /\ r.pallet = p
    BY <2>2, <2>3 DEF Reqs, Puts
  <2> HIDE DEF r
  <2> QED
    BY <2>0, <2>4, <2>5, BeginPallets DEF Solo
<1>13. CASE Merge(q)
  <2>1. PICK p \in Ids, s \in Ids : Begin(q, [op |-> "lock", pallet |-> p, second |-> s, todo |-> {p, s}])
    BY <1>13 DEF Merge
  <2> DEFINE r == [op |-> "lock", pallet |-> p, second |-> s, todo |-> {p, s}]
  <2>2. r \in Reqs /\ r.op = "lock" /\ r.todo \subseteq {r.pallet, r.second} /\ r.todo # {}
    BY DEF Reqs, Merges
  <2>3. Begin(q, r)
    BY <2>1
  <2> HIDE DEF r
  <2> QED
    BY <2>2, <2>3, BeginPallets DEF Solo
<1> QED
  BY <1>2, <1>3, <1>4, <1>5, <1>7, <1>8, <1>9, <1>10, <1>11, <1>12, <1>13 DEF Request

(* What a request leaves behind as it goes on. *)
LEMMA LeavesLive ==
  ASSUME PalletInv, NEW q \in Requests, NEW r \in Reqs, Go(q, r),
         \/ req[q].op \in Solo /\ r.op \in Solo \cup {"idle"}
         \/ req[q].op \in OnLine /\ r.op \in OnLine \cup {"idle"},
         pallet' \in [Ids -> PalletRow], line' \in Seq(LineRow), sold' \in Seq(SoldRow),
         booked' \in [Items -> Int], LinesLive',
         r.op \in Solo => Live(r.pallet)'
  PROVE  PalletInv'
<1>1. /\ req' \in [Requests -> Reqs] /\ lock' \in [Ids -> Requests \cup {Nobody}]
      /\ LocksRise' /\ Beside'
      /\ req'[q] = r /\ \A s \in Requests \ {q} : req'[s] = req[s]
      /\ \A s \in Requests \ {q} : req[s].op \notin Solo
  BY GoOn DEF Others
<1>2. PalletTypeOK'
  BY <1>1 DEF PalletTypeOK
<1>3. \A s \in Requests : req'[s].op \in Solo => s = q
  BY <1>1
<1>4. OnlyLive'
  BY <1>1, <1>3 DEF OnlyLive
<1> QED
  BY <1>1, <1>2, <1>4 DEF PalletInv

(* The goods on pallets that stay as they are. *)
LEMMA StillLive ==
  ASSUME PalletInv, \A x : Live(x) => Live(x)', DOMAIN line' \subseteq DOMAIN line,
         \A l \in DOMAIN line' : line'[l].pallet \in {0, line[l].pallet}
  PROVE  LinesLive'
BY DEF PalletInv, OnlyLive, LinesLive

LEMMA PatchPallet ==
  ASSUME PalletInv, NEW q \in Requests, Patch(q)
  PROVE  PalletInv'
<1> DEFINE r == req[q]
<1>1. r \in Patches /\ r.op \in Solo
  BY ReqTypes, ReqOps DEF Patch, Solo
<1>2. /\ pallet \in [Ids -> PalletRow] /\ line \in Seq(LineRow) /\ sold \in Seq(SoldRow) /\ booked \in [Items -> Int]
      /\ Live(r.pallet)
  BY <1>1 DEF PalletInv, PalletTypeOK, OnlyLive
<1>3. r.pallet \in Ids /\ Exists(r.pallet) /\ pallet[r.pallet] \in PalletRow
  BY <1>2 DEF Live, Exists
<1> DEFINE row == [status |-> IF r.status = "none" THEN pallet[r.pallet].status ELSE r.status,
                   layout |-> IF r.layout = "none" THEN pallet[r.pallet].layout ELSE r.layout]
<1>4. /\ pallet' = [pallet EXCEPT ![r.pallet] = row] /\ Go(q, Idle)
      /\ UNCHANGED <<line, sold, merges, booked>>
  BY <1>3 DEF Patch, Done
<1>5. row \in PalletRow /\ row.status \in {"open", "shipped"}
  BY <1>1, <1>2, <1>3 DEF Patches, PalletRow, Statuses, Live, Exists
<1> HIDE DEF row
<1>6. pallet' \in [Ids -> PalletRow] /\ \A x : Live(x) => Live(x)'
  BY <1>2, <1>3, <1>4, <1>5 DEF Live, Exists, Statuses
<1>7. LinesLive'
  BY <1>4, <1>6, StillLive
<1>8. Idle \in Reqs /\ Idle.op = "idle"
  BY DEF Reqs, Idle
<1> QED
  BY <1>1, <1>2, <1>4, <1>6, <1>7, <1>8, LeavesLive DEF Solo

LEMMA ReopenPallet ==
  ASSUME PalletInv, NEW q \in Requests, Reopen(q)
  PROVE  PalletInv'
<1> DEFINE r == req[q]
           n == [r EXCEPT !.op = "stamp"]
<1>1. r \in Puts /\ r.op \in Solo
  BY ReqTypes, ReqOps DEF Reopen, Solo
<1>2. /\ pallet \in [Ids -> PalletRow] /\ line \in Seq(LineRow) /\ sold \in Seq(SoldRow) /\ booked \in [Items -> Int]
      /\ Live(r.pallet)
  BY <1>1 DEF PalletInv, PalletTypeOK, OnlyLive
<1>3. r.pallet \in Ids /\ Exists(r.pallet) /\ pallet[r.pallet] \in PalletRow
  BY <1>2 DEF Live, Exists
<1>4. /\ pallet' = [pallet EXCEPT ![r.pallet].status = "open"] /\ Go(q, n)
      /\ UNCHANGED <<line, sold, merges, booked>>
  BY <1>3 DEF Reopen
<1>5. n \in Puts /\ n.op = "stamp" /\ n.pallet = r.pallet
  BY <1>1 DEF Puts
<1>6. pallet' \in [Ids -> PalletRow] /\ \A x : Live(x) => Live(x)'
  BY <1>2, <1>3, <1>4 DEF Live, Exists, Statuses, PalletRow
<1>7. LinesLive'
  BY <1>4, <1>6, StillLive
<1> HIDE DEF n
<1>8. n \in Reqs
  BY <1>5 DEF Reqs
<1> QED
  BY <1>1, <1>2, <1>4, <1>5, <1>6, <1>7, <1>8, LeavesLive DEF Solo

LEMMA DeletePallet ==
  ASSUME PalletInv, NEW q \in Requests, Delete(q)
  PROVE  PalletInv'
<1> DEFINE p == req[q].pallet
<1>1. req[q] \in Deletes /\ req[q].op \in Solo
  BY ReqTypes, ReqOps DEF Delete, Solo
<1>2. /\ pallet \in [Ids -> PalletRow] /\ line \in Seq(LineRow) /\ sold \in Seq(SoldRow) /\ booked \in [Items -> Int]
      /\ p \in Ids
  BY <1>1 DEF PalletInv, PalletTypeOK, Deletes
<1>3. /\ pallet' = [pallet EXCEPT ![p] = [status |-> "deleted", layout |-> "none"]]
      /\ Drop(On(p)) /\ BookOut(On(p)) /\ Go(q, Idle)
      /\ sold' = [s \in DOMAIN sold |-> IF sold[s].pallet = p THEN [sold[s] EXCEPT !.pallet = 0] ELSE sold[s]]
  BY DEF Delete, Done
<1>4. pallet' \in [Ids -> PalletRow] /\ \A x : x # p /\ Live(x) => Live(x)'
  BY <1>2, <1>3 DEF Live, Exists, Statuses, PalletRow
<1>5. /\ line' \in Seq(LineRow) /\ DOMAIN line' = DOMAIN line
      /\ \A l \in DOMAIN line : line'[l].pallet = IF l \in On(p) THEN 0 ELSE line[l].pallet
  BY <1>2, <1>3, DropLines
<1>6. LinesLive'
  <2> SUFFICES ASSUME NEW l \in DOMAIN line, line'[l].pallet # 0 PROVE Live(line[l].pallet)' /\ line'[l].pallet = line[l].pallet
    BY <1>5 DEF LinesLive, Live, Exists
  <2>1. l \notin On(p) /\ line'[l].pallet = line[l].pallet
    BY <1>5
  <2>2. line[l].pallet # p /\ Live(line[l].pallet)
    BY <2>1 DEF On, PalletInv, OnlyLive, LinesLive
  <2> QED
    BY <1>4, <2>1, <2>2
<1>7. sold' \in Seq(SoldRow)
  <2>1. Len(sold) \in Nat /\ DOMAIN sold = 1..Len(sold) /\ MaxPallets \in Nat /\ \A s \in DOMAIN sold : sold[s] \in SoldRow
    BY <1>2, LenProperties, ElementOfSeq, StockAssumption
  <2>2. \A s \in DOMAIN sold : (IF sold[s].pallet = p THEN [sold[s] EXCEPT !.pallet = 0] ELSE sold[s]) \in SoldRow
    BY <2>1 DEF SoldRow
  <2>3. sold' \in [1..Len(sold) -> SoldRow]
    BY <1>3, <2>1, <2>2
  <2> QED
    BY <2>1, <2>3, SeqDef
<1>8. booked' \in [Items -> Int]
  BY <1>2, <1>3, UnitsInt DEF BookOut
<1>9. Idle \in Reqs /\ Idle.op = "idle"
  BY DEF Reqs, Idle
<1> QED
  BY <1>1, <1>3, <1>4, <1>5, <1>6, <1>7, <1>8, <1>9, LeavesLive DEF Solo

(* What a step leaves alone. *)
LEMMA KeepsLive ==
  ASSUME PalletInv, pallet' = pallet
  PROVE  /\ pallet' \in [Ids -> PalletRow] /\ \A x : Live(x) => Live(x)'
         /\ line' = line => line' \in Seq(LineRow) /\ LinesLive'
         /\ sold' = sold => sold' \in Seq(SoldRow)
         /\ booked' = booked => booked' \in [Items -> Int]
<1>1. \A x : Live(x) => Live(x)'
  BY DEF Live, Exists
<1> QED
  BY <1>1 DEF PalletInv, PalletTypeOK, OnlyLive, LinesLive

(* The goods that go leave the others where they are. *)
LEMMA DropKeeps ==
  ASSUME PalletInv, pallet' = pallet, NEW ls, Drop(ls)
  PROVE  line' \in Seq(LineRow) /\ LinesLive'
<1>1. /\ line' \in Seq(LineRow) /\ DOMAIN line' = DOMAIN line
      /\ \A l \in DOMAIN line : line'[l].pallet = IF l \in ls THEN 0 ELSE line[l].pallet
  BY DropLines DEF PalletInv, PalletTypeOK
<1>2. LinesLive'
  BY <1>1, KeepsLive, StillLive
<1> QED
  BY <1>1, <1>2

LEMMA AddKeeps ==
  ASSUME PalletInv, pallet' = pallet, NEW p, NEW i \in Items, NEW n \in Nat, Live(p),
         line' = Append(line, [pallet |-> p, item |-> i, qty |-> n])
  PROVE  line' \in Seq(LineRow) /\ LinesLive'
<1> DEFINE row == [pallet |-> p, item |-> i, qty |-> n]
<1>1. row \in LineRow /\ row.pallet = p
  BY StockAssumption DEF LineRow, Live, Exists, Ids
<1> HIDE DEF row
<1>2. line \in Seq(LineRow) /\ line' = Append(line, row)
  BY DEF PalletInv, PalletTypeOK, row
<1>3. /\ line' \in Seq(LineRow) /\ DOMAIN line' = DOMAIN line \cup {Len(line) + 1}
      /\ line'[Len(line) + 1] = row /\ \A l \in DOMAIN line : line'[l] = line[l]
  BY <1>1, <1>2, AddedLine
<1>4. LinesLive'
  <2> SUFFICES ASSUME NEW l \in DOMAIN line \cup {Len(line) + 1}, line'[l].pallet # 0
               PROVE  \E x : x = line'[l].pallet /\ Live(x)
    BY <1>3 DEF LinesLive, Live, Exists
  <2> QED
    BY <1>1, <1>3 DEF PalletInv, OnlyLive, LinesLive
<1> QED
  BY <1>3, <1>4

LEMMA QuantityKeeps ==
  ASSUME PalletInv, pallet' = pallet, NEW l \in DOMAIN line, NEW n \in Nat, SetQty(l, n)
  PROVE  line' \in Seq(LineRow) /\ LinesLive'
<1>1. line \in Seq(LineRow)
  BY DEF PalletInv, PalletTypeOK
<1>2. /\ line' \in Seq(LineRow) /\ DOMAIN line' = DOMAIN line
      /\ \A k \in DOMAIN line : line'[k].pallet = line[k].pallet
  BY <1>1, SetQuantity
<1>3. LinesLive'
  BY <1>2, KeepsLive, StillLive
<1> QED
  BY <1>2, <1>3

LEMMA InsertPallet ==
  ASSUME PalletInv, NEW q \in Requests, Insert(q)
  PROVE  PalletInv'
<1> DEFINE r == req[q]
<1>1. r \in Inserts /\ r.op \in Solo
  BY ReqTypes, ReqOps DEF Insert, Solo
<1>2. r.item \in Items /\ r.qty \in Nat /\ Live(r.pallet) /\ booked \in [Items -> Int]
  BY <1>1 DEF Inserts, PalletInv, PalletTypeOK, OnlyLive
<1>3. /\ line' = Append(line, [pallet |-> r.pallet, item |-> r.item, qty |-> r.qty]) /\ Book(r.item, r.qty)
      /\ Go(q, Idle) /\ UNCHANGED <<pallet, sold, merges>>
  BY <1>2 DEF Insert, Done, Live
<1>4. booked' \in [Items -> Int]
  BY <1>2, <1>3 DEF Book
<1>5. line' \in Seq(LineRow) /\ LinesLive'
  BY <1>2, <1>3, AddKeeps
<1>6. Idle \in Reqs /\ Idle.op = "idle"
  BY DEF Reqs, Idle
<1> QED
  BY <1>1, <1>3, <1>4, <1>5, <1>6, KeepsLive, LeavesLive DEF Solo

LEMMA ClearPallet ==
  ASSUME PalletInv, NEW q \in Requests, Clear(q)
  PROVE  PalletInv'
<1> DEFINE r == req[q]
           n == [r EXCEPT !.op = "insert"]
<1>1. r \in Inserts /\ r.op \in Solo /\ Live(r.pallet) /\ booked \in [Items -> Int] /\ line \in Seq(LineRow)
  BY ReqTypes, ReqOps DEF Clear, Solo, PalletInv, PalletTypeOK, OnlyLive
<1>2. /\ Drop(On(r.pallet)) /\ BookOut(On(r.pallet)) /\ (Go(q, Idle) \/ Go(q, n))
      /\ UNCHANGED <<pallet, sold, merges>>
  BY DEF Clear, Done
<1>3. n \in Inserts /\ n.op = "insert" /\ n.pallet = r.pallet
  BY <1>1 DEF Inserts
<1> HIDE DEF n
<1>4. booked' \in [Items -> Int]
  BY <1>1, <1>2, UnitsInt DEF BookOut
<1>5. line' \in Seq(LineRow) /\ LinesLive'
  BY <1>2, DropKeeps
<1>6. Idle \in Reqs /\ Idle.op = "idle" /\ n \in Reqs
  BY <1>3 DEF Reqs, Idle
<1>7. Live(n.pallet)
  BY <1>1, <1>3
<1>8. CASE Go(q, Idle)
  BY <1>1, <1>2, <1>4, <1>5, <1>6, <1>8, KeepsLive, LeavesLive DEF Solo
<1>9. CASE Go(q, n)
  <2>1. r.op \in Solo /\ n.op \in Solo /\ n \in Reqs
    BY <1>1, <1>3, <1>6 DEF Solo
  <2>2. pallet' \in [Ids -> PalletRow] /\ sold' \in Seq(SoldRow) /\ \A x : Live(x) => Live(x)'
    BY <1>2, KeepsLive
  <2> QED
    BY <1>4, <1>5, <1>7, <1>9, <2>1, <2>2, LeavesLive
<1> QED
  BY <1>2, <1>8, <1>9

LEMMA SoldTypes ==
  ASSUME PalletInv, NEW p \in Ids, NEW r, r.item \in Items, r.qty \in Nat, sold' = Append(sold, Row(p, r))
  PROVE  sold' \in Seq(SoldRow)
<1>1. Row(p, r) \in SoldRow
  BY StockAssumption DEF Row, SoldRow, Ids
<1> QED
  BY <1>1, AppendProperties DEF PalletInv, PalletTypeOK

LEMMA SellsStep ==
  ASSUME PalletInv, Reads, NEW q \in Requests, ArchiveLine(q) \/ Shrink(q)
  PROVE  PalletInv'
<1> DEFINE r == req[q]
           n == [r EXCEPT !.op = "shrink"]
<1>1. r \in Sells /\ r.op \in OnLine
  BY ReqTypes, ReqOps DEF ArchiveLine, Shrink, OnLine
<1>2. n \in Sells /\ n.op = "shrink"
  BY <1>1 DEF Sells
<1> HIDE DEF n
<1>3. Idle \in Reqs /\ Idle.op = "idle" /\ n \in Reqs /\ Idle.op \notin Solo /\ n.op \notin Solo
  BY <1>2 DEF Reqs, Idle, Solo
<1>4. r.pallet \in Ids /\ r.item \in Items /\ r.qty \in Nat /\ r.seen \in Nat
  BY <1>1 DEF Sells
<1>5. CASE ArchiveLine(q)
  <2>1. /\ UNCHANGED <<pallet, line, merges, booked>>
        /\ (sold' = Append(sold, Row(r.pallet, r)) /\ Go(q, n)) \/ (sold' = sold /\ Go(q, Idle))
    BY <1>5 DEF ArchiveLine, Done, n
  <2>2. sold' \in Seq(SoldRow)
    BY <1>4, <2>1, SoldTypes, KeepsLive
  <2> QED
    BY <1>1, <1>2, <1>3, <2>1, <2>2, KeepsLive, LeavesLive DEF OnLine
<1>6. CASE Shrink(q)
  <2>1. /\ UNCHANGED <<pallet, sold, merges, booked>> /\ Go(q, Idle)
        /\ IF r.qty >= r.seen THEN Drop({r.line}) ELSE SetQty(r.line, r.seen - r.qty)
    BY <1>6 DEF Shrink, Done
  <2>2. r.line \in DOMAIN line
    BY <1>1 DEF Reads, LineRead
  <2>3. line' \in Seq(LineRow) /\ LinesLive'
    BY <1>4, <2>1, <2>2, DropKeeps, QuantityKeeps
  <2> QED
    BY <1>1, <1>3, <2>1, <2>3, KeepsLive, LeavesLive
<1> QED
  BY <1>5, <1>6

LEMMA SellAllStep ==
  ASSUME PalletInv, NEW q \in Requests, ArchiveNext(q) \/ Empty(q)
  PROVE  PalletInv'
<1> DEFINE r == req[q]
<1>1. r \in SellAlls /\ r.op \in Solo /\ Live(r.pallet)
  BY ReqTypes, ReqOps DEF ArchiveNext, Empty, Solo, PalletInv, OnlyLive
<1>2. r.pallet \in Ids /\ r.todo \subseteq [line : Nat, item : Items, qty : Nat] /\ Exists(r.pallet)
  BY <1>1 DEF SellAlls, Live
<1>3. CASE ArchiveNext(q)
  <2>1. PICK t \in r.todo :
          /\ sold' = Append(sold, Row(r.pallet, t))
          /\ Go(q, [op |-> IF r.todo = {t} THEN "empty" ELSE "sellAll", pallet |-> r.pallet, todo |-> r.todo \ {t}])
          /\ UNCHANGED <<pallet, line, merges, booked>>
    BY <1>2, <1>3 DEF ArchiveNext
  <2> DEFINE n == [op |-> IF r.todo = {t} THEN "empty" ELSE "sellAll", pallet |-> r.pallet, todo |-> r.todo \ {t}]
  <2>2. n \in SellAlls /\ n.op \in Solo /\ n.pallet = r.pallet
    BY <1>2 DEF SellAlls, Solo
  <2>3. Go(q, n) /\ UNCHANGED <<pallet, line, merges, booked>>
    BY <2>1
  <2> HIDE DEF n
  <2>4. n \in Reqs /\ Live(n.pallet)
    BY <1>1, <2>2 DEF Reqs
  <2>5. sold' \in Seq(SoldRow)
    BY <1>2, <2>1, SoldTypes
  <2>6. /\ pallet' \in [Ids -> PalletRow] /\ line' \in Seq(LineRow) /\ LinesLive' /\ booked' \in [Items -> Int]
        /\ \A x : Live(x) => Live(x)'
    BY <2>3, KeepsLive
  <2> QED
    BY <1>1, <2>2, <2>3, <2>4, <2>5, <2>6, LeavesLive
<1>4. CASE Empty(q)
  <2> DEFINE n == [op |-> "patch", pallet |-> r.pallet, status |-> "shipped", layout |-> "none"]
  <2>1. Drop(On(r.pallet)) /\ Go(q, n) /\ UNCHANGED <<pallet, sold, merges, booked>>
    BY <1>4 DEF Empty
  <2>2. n \in Patches /\ n.op \in Solo /\ n.pallet = r.pallet
    BY <1>2 DEF Patches, Solo
  <2> HIDE DEF n
  <2>3. n \in Reqs /\ Live(n.pallet)
    BY <1>1, <2>2 DEF Reqs
  <2>4. line' \in Seq(LineRow) /\ LinesLive'
    BY <2>1, DropKeeps
  <2>5. /\ pallet' \in [Ids -> PalletRow] /\ sold' \in Seq(SoldRow) /\ booked' \in [Items -> Int]
        /\ \A x : Live(x) => Live(x)'
    BY <2>1, KeepsLive
  <2> QED
    BY <1>1, <2>1, <2>2, <2>3, <2>4, <2>5, LeavesLive
<1> QED
  BY <1>3, <1>4

LEMMA PutsStep ==
  ASSUME PalletInv, Reads, NEW q \in Requests, Put(q) \/ Stamp(q)
  PROVE  PalletInv'
<1> DEFINE r == req[q]
           n == [r EXCEPT !.op = Reopens(r)]
<1>1. r \in Puts /\ r.op \in Solo /\ Live(r.pallet)
  BY ReqTypes, ReqOps DEF Put, Stamp, Solo, PalletInv, OnlyLive
<1>2. /\ r.line \in Nat /\ r.item \in Items /\ r.qty \in Nat /\ r.seen \in Nat /\ Exists(r.pallet)
  BY <1>1 DEF Puts, Live
<1>3. n \in Puts /\ n.op \in Solo /\ n.pallet = r.pallet
  BY <1>1 DEF Puts, Solo, Reopens
<1> HIDE DEF n
<1>4. n \in Reqs /\ Live(n.pallet) /\ Idle \in Reqs /\ Idle.op = "idle"
  BY <1>1, <1>3 DEF Reqs, Idle
<1>5. CASE Put(q)
  <2>1. Go(q, n) /\ UNCHANGED <<pallet, sold, merges, booked>>
    BY <1>2, <1>5 DEF Put, n
  <2>2. line' \in Seq(LineRow) /\ LinesLive'
    <3>1. CASE r.line # 0 /\ SetQty(r.line, r.seen + r.qty)
      <4>1. r.line \in DOMAIN line /\ r.seen + r.qty \in Nat
        BY <1>2, <1>5, <3>1 DEF Reads, LineRead, On, Put
      <4> QED
        BY <2>1, <3>1, <4>1, QuantityKeeps
    <3>2. CASE line' = Append(line, [pallet |-> r.pallet, item |-> r.item, qty |-> r.qty])
      BY <1>1, <1>2, <2>1, <3>2, AddKeeps
    <3> QED
      BY <1>2, <1>5, <3>1, <3>2 DEF Put
  <2>3. /\ pallet' \in [Ids -> PalletRow] /\ sold' \in Seq(SoldRow) /\ booked' \in [Items -> Int]
        /\ \A x : Live(x) => Live(x)'
    BY <2>1, KeepsLive
  <2> QED
    BY <1>1, <1>3, <1>4, <2>1, <2>2, <2>3, LeavesLive
<1>6. CASE Stamp(q)
  <2>1. /\ sold' = [sold EXCEPT ![r.sale].back = TRUE] /\ Go(q, Idle)
        /\ UNCHANGED <<pallet, line, merges, booked>>
    BY <1>6 DEF Stamp, Done
  <2>2. sold' \in Seq(SoldRow)
    <3>1. Len(sold) \in Nat /\ DOMAIN sold = 1..Len(sold) /\ sold \in [1..Len(sold) -> SoldRow]
      BY LenProperties DEF PalletInv, PalletTypeOK
    <3>2. sold' \in [1..Len(sold) -> SoldRow]
      BY <2>1, <3>1 DEF SoldRow
    <3> QED
      BY <3>1, <3>2, SeqDef
  <2>3. pallet' \in [Ids -> PalletRow] /\ line' \in Seq(LineRow) /\ LinesLive' /\ booked' \in [Items -> Int]
    BY <2>1, KeepsLive
  <2> QED
    BY <1>1, <1>4, <2>1, <2>2, <2>3, LeavesLive DEF Solo
<1> QED
  BY <1>5, <1>6

-----------------------------------------------------------------------------
(* Merges. *)

LEMMA MergeGoesOn ==
  ASSUME PalletInv, NEW q \in Requests, NEW r \in Reqs, req[q].op \in Merging, r.op \in Merging \cup {"idle"},
         req' = [req EXCEPT ![q] = r], world' = world
  PROVE  /\ req' \in [Requests -> Reqs] /\ Beside'
         /\ req'[q] = r /\ \A s \in Requests \ {q} : req'[s] = req[s]
         /\ \A s \in Requests : req[s].op \notin Solo /\ req'[s].op \notin Solo
<1>1. req \in [Requests -> Reqs]
  BY DEF PalletInv, PalletTypeOK
<1>2. req'[q] = r /\ (\A s \in Requests \ {q} : req'[s] = req[s]) /\ req' \in [Requests -> Reqs]
  BY <1>1
<1>3. req[q] # Idle /\ r.op \notin Solo \cup OnLine
  BY DEF Idle, Merging, Solo, OnLine
<1>4. \A s \in Requests : req[s].op \notin Solo
  BY <1>3 DEF PalletInv, Beside, Merging, Solo
<1>5. Beside'
  BY <1>2, <1>3, <1>4 DEF PalletInv, Beside
<1> QED
  BY <1>2, <1>3, <1>4, <1>5

LEMMA NextRow ==
  ASSUME NEW todo, todo \subseteq Ids, todo # {}, NEW r
  PROVE  LockNext(todo, r) \in todo /\ \A s \in todo : LockNext(todo, r) <= s
<1>1. todo \subseteq Nat
  BY DEF Ids
<1>2. \E p \in todo : \A s \in todo : p <= s
  BY <1>1, LeastNat
<1> QED
  BY <1>2 DEF LockNext

LEMMA LockRowStep ==
  ASSUME PalletInv, NEW q \in Requests, LockRow(q)
  PROVE  PalletInv'
<1> DEFINE r == req[q]
           p == LockNext(r.todo, r)
           n == [op |-> IF r.todo = {p} THEN "merge" ELSE "lock", pallet |-> r.pallet,
                 second |-> r.second, todo |-> r.todo \ {p}]
<1>1. r \in Merges /\ r.op = "lock" /\ r.op \in Merging
  BY ReqTypes, ReqOps DEF LockRow, Merging
<1>2. /\ r.todo \subseteq {r.pallet, r.second} /\ r.todo # {} /\ r.todo \subseteq Ids
      /\ \A x \in Ids : lock[x] = q => \A s \in r.todo : x < s
  BY <1>1 DEF PalletInv, LocksRise, Merges
<1>3. p \in r.todo /\ \A s \in r.todo : p <= s
  BY <1>2, NextRow
<1>4. lock[p] = Nobody /\ lock' = [lock EXCEPT ![p] = q] /\ req' = [req EXCEPT ![q] = n]
      /\ UNCHANGED <<stock, world, made>>
  BY DEF LockRow, Unlocked
<1> HIDE DEF p
<1>5. n \in Merges /\ n.op \in Merging /\ n.todo = r.todo \ {p} /\ n.pallet = r.pallet /\ n.second = r.second
      /\ (n.op = "lock" => n.todo # {})
  BY <1>1, <1>3 DEF Merges, Merging
<1> HIDE DEF n
<1>6. n \in Reqs /\ n.op # "idle"
  BY <1>5 DEF Reqs, Merging
<1>7. /\ req' \in [Requests -> Reqs] /\ Beside'
      /\ req'[q] = n /\ \A s \in Requests \ {q} : req'[s] = req[s]
      /\ \A s \in Requests : req'[s].op \notin Solo
  BY <1>1, <1>4, <1>5, <1>6, MergeGoesOn
<1>8. lock \in [Ids -> Requests \cup {Nobody}] /\ p \in Ids /\ Nobody \notin Requests
  BY <1>2, <1>3, StockAssumption DEF PalletInv, PalletTypeOK
<1>9. /\ lock' \in [Ids -> Requests \cup {Nobody}] /\ lock'[p] = q
      /\ \A x \in Ids \ {p} : lock'[x] = lock[x]
  BY <1>4, <1>8
<1>10. LocksRise'
  <2>1. ASSUME NEW x \in Ids, lock'[x] = q, NEW s \in n.todo PROVE x < s
    BY <1>2, <1>3, <1>5, <1>8, <1>9, <2>1 DEF Ids
  <2>2. \A s \in Requests \ {q}, x \in Ids : lock'[x] = s => lock[x] = s
    BY <1>9
  <2> QED
    BY <1>2, <1>5, <1>7, <2>1, <2>2 DEF PalletInv, LocksRise
<1>11. PalletTypeOK' /\ OnlyLive'
  BY <1>4, <1>7, <1>9, KeepsLive DEF PalletInv, PalletTypeOK, OnlyLive, stock
<1> QED
  BY <1>7, <1>10, <1>11 DEF PalletInv

LEMMA Released ==
  ASSUME PalletInv, NEW q \in Requests, req[q].op = "merge", Release(q)
  PROVE  /\ req' \in [Requests -> Reqs] /\ Beside' /\ LocksRise' /\ lock' \in [Ids -> Requests \cup {Nobody}]
         /\ \A s \in Requests : req[s].op \notin Solo /\ req'[s].op \notin Solo
         /\ req'[q] = Idle /\ \A s \in Requests \ {q} : req'[s] = req[s]
<1>1. /\ lock' = [p \in Ids |-> IF lock[p] = q THEN Nobody ELSE lock[p]]
      /\ req' = [req EXCEPT ![q] = Idle] /\ world' = world
  BY DEF Release
<1>2. Idle \in Reqs /\ Idle.op = "idle" /\ req[q].op \in Merging
  BY DEF Reqs, Idle, Merging
<1>3. /\ req' \in [Requests -> Reqs] /\ Beside'
      /\ req'[q] = Idle /\ \A s \in Requests \ {q} : req'[s] = req[s]
      /\ \A s \in Requests : req[s].op \notin Solo /\ req'[s].op \notin Solo
  BY <1>1, <1>2, MergeGoesOn
<1>4. lock \in [Ids -> Requests \cup {Nobody}] /\ Nobody \notin Requests
  BY StockAssumption DEF PalletInv, PalletTypeOK
<1>5. LocksRise'
  BY <1>1, <1>2, <1>3, <1>4 DEF PalletInv, LocksRise, Merging
<1> QED
  BY <1>1, <1>3, <1>4, <1>5

LEMMA CommitStep ==
  ASSUME PalletInv, NEW q \in Requests, Commit(q)
  PROVE  /\ PalletInv'
         /\ DOMAIN line' = DOMAIN line
         /\ \A l \in DOMAIN line : line'[l].item = line[l].item /\ line'[l].qty = line[l].qty
         /\ \A l \in DOMAIN line : line'[l].pallet = 0 <=> line[l].pallet = 0
<1> DEFINE r == req[q]
           from == {r.pallet, r.second}
<1>1. /\ \A x \in from : pallet[x].status = "open"
      /\ r.op = "merge" /\ Release(q) /\ UNCHANGED <<sold, booked>>
  BY DEF Commit, Mergeable
<1>2. from \subseteq Ids
  <2>1. r \in Merges
    BY <1>1, ReqTypes, ReqOps DEF Merging
  <2> QED
    BY <2>1 DEF Merges
<1>3. PICK new \in NewIds :
        /\ pallet' = [p \in Ids |->
                        IF p = new THEN [status |-> "open", layout |-> pallet[r.pallet].layout]
                        ELSE IF p \in from THEN [status |-> "merged", layout |-> pallet[p].layout]
                        ELSE pallet[p]]
        /\ line' = Moved(from, new)
  BY DEF Commit
<1> HIDE DEF from
<1>4. new \in Ids /\ pallet[new].status = "none" /\ new # 0
  BY <1>3 DEF NewIds, Ids
<1>5. pallet \in [Ids -> PalletRow] /\ line \in Seq(LineRow) /\ r.pallet \in Ids
  BY <1>2 DEF PalletInv, PalletTypeOK, from
<1>6. /\ pallet' \in [Ids -> PalletRow]
      /\ \A x : Live(x) /\ x \notin from => Live(x)'
      /\ Live(new)'
  <2>1. \A x \in Ids : pallet[x] \in PalletRow /\ pallet[x].layout \in {"none", "variant", "spec", "asset"}
    BY <1>5 DEF PalletRow
  <2>2. \A x \in Ids : pallet'[x] \in PalletRow
    BY <1>3, <1>5, <2>1 DEF PalletRow, Statuses
  <2>3. pallet' \in [Ids -> PalletRow]
    BY <1>3, <2>2
  <2>4. \A x : Live(x) /\ x \notin from => x \in Ids /\ x # new /\ pallet'[x] = pallet[x]
    BY <1>3, <1>4 DEF Live, Exists, Statuses
  <2>5. new \in Ids /\ pallet'[new].status = "open"
    BY <1>3, <1>4
  <2> QED
    BY <2>3, <2>4, <2>5 DEF Live, Exists, Statuses
<1>7. ASSUME NEW l \in DOMAIN line
      PROVE  /\ line'[l] \in LineRow /\ line'[l].item = line[l].item /\ line'[l].qty = line[l].qty
             /\ line'[l].pallet = IF line[l].pallet \in from THEN new ELSE line[l].pallet
  <2>1. line'[l] = IF line[l].pallet \in from THEN [line[l] EXCEPT !.pallet = new] ELSE line[l]
    BY <1>3 DEF Moved
  <2>2. line[l] \in LineRow /\ MaxPallets \in Nat
    BY <1>5, LineTypes, StockAssumption
  <2> QED
    BY <1>4, <2>1, <2>2 DEF LineRow, Ids
<1>8. line' \in [DOMAIN line -> LineRow]
  <2>1. line' = [l \in DOMAIN line |-> IF line[l].pallet \in from THEN [line[l] EXCEPT !.pallet = new] ELSE line[l]]
    BY <1>3 DEF Moved
  <2> QED
    BY <1>7, <2>1
<1>9. line' \in Seq(LineRow) /\ DOMAIN line' = DOMAIN line
  BY <1>5, <1>8, SameLines
<1>10. /\ req' \in [Requests -> Reqs] /\ Beside' /\ LocksRise' /\ lock' \in [Ids -> Requests \cup {Nobody}]
       /\ \A s \in Requests : req'[s].op \notin Solo
  BY <1>1, Released
<1>11. LinesLive'
  <2> SUFFICES ASSUME NEW l \in DOMAIN line, line'[l].pallet # 0
               PROVE  \E x : x = line'[l].pallet /\ Live(x)'
    BY <1>9 DEF LinesLive, Live, Exists
  <2>1. CASE line[l].pallet \in from
    BY <1>6, <1>7, <2>1
  <2>2. CASE line[l].pallet \notin from
    BY <1>6, <1>7, <2>2 DEF PalletInv, OnlyLive, LinesLive
  <2> QED
    BY <2>1, <2>2
<1>12. PalletTypeOK' /\ OnlyLive'
  BY <1>1, <1>6, <1>9, <1>10, <1>11 DEF PalletInv, PalletTypeOK, OnlyLive
<1>13. \A l \in DOMAIN line : line'[l].pallet = 0 <=> line[l].pallet = 0
  <2>1. 0 \notin from
    BY <1>2 DEF Ids
  <2> QED
    BY <1>4, <1>7, <2>1
<1> QED
  BY <1>7, <1>9, <1>10, <1>12, <1>13 DEF PalletInv

LEMMA RefuseStep ==
  ASSUME PalletInv, NEW q \in Requests, Refuse(q)
  PROVE  PalletInv'
<1>1. req[q].op = "merge" /\ Release(q) /\ UNCHANGED stock
  BY DEF Refuse
<1>2. /\ req' \in [Requests -> Reqs] /\ Beside' /\ LocksRise' /\ lock' \in [Ids -> Requests \cup {Nobody}]
      /\ \A s \in Requests : req'[s].op \notin Solo
  BY <1>1, Released
<1> QED
  BY <1>1, <1>2, KeepsLive DEF PalletInv, PalletTypeOK, OnlyLive, stock

LEMMA StepPallets ==
  ASSUME PalletInv, Reads, NEW q \in Requests, Step(q)
  PROVE  PalletInv'
BY PatchPallet, DeletePallet, InsertPallet, ClearPallet, SellsStep, SellAllStep, PutsStep, ReopenPallet,
   LockRowStep, RefuseStep, CommitStep DEF Step

-----------------------------------------------------------------------------
(* What a request has read. *)

(* Nothing begins beside a request that may mind it. *)
LEMMA BeginsBeside ==
  ASSUME PalletInv, NEW q \in Requests, Request(q), NEW s \in Requests \ {q}
  PROVE  /\ req[s].op \notin Solo
         /\ req[s].op \in OnLine => UNCHANGED stock
         /\ req[q] = Idle /\ req'[s] = req[s]
<1>1. ASSUME NEW op, MayBegin(q, op)
      PROVE  /\ req[s].op \notin Solo /\ req[q] = Idle
             /\ req[s].op \in OnLine => op = "lock"
  <2>1. CASE world = "merging"
    BY <1>1, <2>1 DEF MayBegin, Busy, PalletInv, Beside, OnLine, Idle
  <2>2. CASE world # "merging"
    BY <1>1, <2>2 DEF MayBegin, Busy, OnLine, Solo, Idle
  <2> QED
    BY <2>1, <2>2
<1>2. ASSUME NEW r, Begin(q, r)
      PROVE  /\ req[s].op \notin Solo /\ req[q] = Idle
             /\ req'[s] = req[s] /\ (req[s].op \in OnLine => UNCHANGED stock)
  <2>1. MayBegin(q, r.op) /\ UNCHANGED stock /\ req' = [req EXCEPT ![q] = r]
    BY <1>2 DEF Begin
  <2>2. req'[s] = req[s]
    BY <2>1 DEF PalletInv, PalletTypeOK
  <2> QED
    BY <1>1, <2>1, <2>2
<1>3. CASE Create(q) \/ CreateFromSpec(q)
  <2>1. req' = req \/ \E r : req' = [req EXCEPT ![q] = r]
    BY <1>3 DEF Create, CreateFromSpec
  <2>2. req'[s] = req[s]
    BY <2>1 DEF PalletInv, PalletTypeOK
  <2> QED
    BY <1>1, <1>3, <2>2 DEF Create, CreateFromSpec
<1>4. CASE UpdateLine(q)
  BY <1>1, <1>4 DEF UpdateLine
<1>5. CASE RemoveLine(q)
  BY <1>1, <1>5 DEF RemoveLine
<1>6. CASE Update(q) \/ RemovePallet(q)
  BY <1>2, <1>6 DEF Update, RemovePallet
<1>7. CASE AddLine(q) \/ ReplaceSpec(q)
  BY <1>2, <1>7 DEF AddLine, ReplaceSpec
<1>8. CASE SellLine(q) \/ SellPallet(q)
  BY <1>2, <1>8 DEF SellLine, SellPallet
<1>9. CASE Return(q)
  BY <1>2, <1>9 DEF Return
<1>10. CASE Merge(q)
  BY <1>2, <1>10 DEF Merge
<1> QED
  BY <1>3, <1>4, <1>5, <1>6, <1>7, <1>8, <1>9, <1>10 DEF Request

(* A step beside a request is a merge's. *)
LEMMA StepsBeside ==
  ASSUME PalletInv, NEW q \in Requests, Step(q), NEW s \in Requests \ {q}
  PROVE  /\ req[s].op \notin Solo /\ req'[s] = req[s]
         /\ req[s].op \in OnLine => LockRow(q) \/ Refuse(q) \/ Commit(q)
<1>1. req[q].op # "idle" /\ (req[q].op \in Solo \cup OnLine \/ LockRow(q) \/ Refuse(q) \/ Commit(q))
  BY DEF Step, Patch, Delete, Insert, Clear, ArchiveLine, Shrink, ArchiveNext, Empty, Put, Reopen, Stamp,
         LockRow, Refuse, Commit, Solo, OnLine
<1>2. req[q] # Idle
  BY <1>1 DEF Idle
<1>3. req[s].op \notin Solo
  BY <1>2 DEF PalletInv, Beside
<1>4. req[s].op \in OnLine => req[q].op \notin Solo \cup OnLine
  <2>1. req[s].op \in OnLine => req[q].op \in Merging \cup {"idle"}
    BY DEF PalletInv, Beside
  <2> QED
    BY <2>1 DEF Merging, Solo, OnLine
<1>5. \E r : req' = [req EXCEPT ![q] = r]
  BY DEF Step, Patch, Delete, Insert, Clear, ArchiveLine, Shrink, ArchiveNext, Empty, Put, Reopen, Stamp,
         LockRow, Refuse, Commit, Release, Go, Done
<1>6. req'[s] = req[s]
  BY <1>5 DEF PalletInv, PalletTypeOK
<1> QED
  BY <1>1, <1>3, <1>4, <1>6

(* The merge that moves a line leaves it as it was read. *)
LEMMA OthersRead ==
  ASSUME PalletInv, Reads, NEW q \in Requests, Request(q) \/ Step(q), NEW s \in Requests \ {q}, PalletInv'
  PROVE  LineRead(s)' /\ TodoRead(s)' /\ SaleRead(s)'
<1>1. req[s].op \notin Solo /\ req'[s] = req[s]
  BY BeginsBeside, StepsBeside
<1>2. TodoRead(s)' /\ SaleRead(s)'
  BY <1>1 DEF TodoRead, SaleRead, Solo
<1>3. req[s].op # "put"
  BY <1>1 DEF Solo
<1>4. SUFFICES ASSUME req[s].op \in OnLine PROVE LineRead(s)'
  BY <1>1, <1>2, <1>3 DEF LineRead
<1>5. CASE Request(q)
  BY <1>1, <1>3, <1>4, <1>5, BeginsBeside DEF Reads, LineRead, stock
<1>6. CASE LockRow(q) \/ Refuse(q)
  BY <1>1, <1>3, <1>4, <1>6 DEF Reads, LineRead, stock, LockRow, Refuse
<1>7. CASE Commit(q)
  BY <1>1, <1>3, <1>4, <1>7, CommitStep DEF Reads, LineRead
<1> QED
  BY <1>4, <1>5, <1>6, <1>7, StepsBeside

Firsts == {"idle", "patch", "delete", "insert", "clear", "sell", "sellAll", "put", "lock"}

(* A request begins with what it has just read. *)
LEMMA BeginsRead ==
  ASSUME PalletInv, NEW q \in Requests, Request(q)
  PROVE  LineRead(q)' /\ TodoRead(q)' /\ SaleRead(q)' /\ req'[q].op \in Firsts
<1>1. req \in [Requests -> Reqs] /\ line \in Seq(LineRow) /\ sold \in Seq(SoldRow) /\ Idle.op = "idle"
  BY DEF PalletInv, PalletTypeOK, Idle
<1>2. ASSUME NEW r, Begin(q, r)
      PROVE  req'[q] = r /\ line' = line /\ sold' = sold
  BY <1>1, <1>2 DEF Begin, stock
<1>3. ASSUME req'[q].op \in {"idle", "patch", "delete", "insert", "clear", "lock"}
      PROVE  LineRead(q)' /\ TodoRead(q)' /\ SaleRead(q)' /\ req'[q].op \in Firsts
  BY <1>3 DEF LineRead, TodoRead, SaleRead, OnLine, Firsts
<1>4. CASE Create(q) \/ UpdateLine(q) \/ RemoveLine(q)
  <2>1. req' = req /\ req[q] = Idle
    BY <1>4 DEF Create, UpdateLine, RemoveLine, MayBegin
  <2> QED
    BY <1>1, <1>3, <2>1
<1>5. CASE CreateFromSpec(q)
  <2>1. PICK p \in NewIds, i \in Items, n \in 0..MaxQty :
          \E next \in {Idle, [op |-> "insert", pallet |-> p, item |-> i, qty |-> n]} :
            req' = [req EXCEPT ![q] = next]
    BY <1>5 DEF CreateFromSpec
  <2>2. req'[q] = Idle \/ req'[q] = [op |-> "insert", pallet |-> p, item |-> i, qty |-> n]
    BY <1>1, <2>1
  <2> QED
    BY <1>1, <1>3, <2>2
<1>6. CASE Update(q) \/ RemovePallet(q) \/ Merge(q) \/ AddLine(q) \/ ReplaceSpec(q)
  <2>1. CASE Update(q)
    BY <1>2, <1>3, <2>1 DEF Update
  <2>2. CASE RemovePallet(q)
    BY <1>2, <1>3, <2>2 DEF RemovePallet
  <2>3. CASE Merge(q)
    BY <1>2, <1>3, <2>3 DEF Merge
  <2>4. CASE AddLine(q)
    BY <1>2, <1>3, <2>4 DEF AddLine
  <2>5. CASE ReplaceSpec(q)
    BY <1>2, <1>3, <2>5 DEF ReplaceSpec
  <2> QED
    BY <1>6, <2>1, <2>2, <2>3, <2>4, <2>5
<1>7. CASE SellLine(q)
  <2>1. PICK l \in DOMAIN line : \E n \in 1..line[l].qty :
          /\ Live(line[l].pallet)
          /\ Begin(q, [op |-> "sell", pallet |-> line[l].pallet, line |-> l, item |-> line[l].item,
                       qty |-> n, seen |-> line[l].qty])
    BY <1>7 DEF SellLine
  <2>2. PICK n \in 1..line[l].qty :
          Begin(q, [op |-> "sell", pallet |-> line[l].pallet, line |-> l, item |-> line[l].item,
                    qty |-> n, seen |-> line[l].qty])
    BY <2>1
  <2>3. line[l].pallet # 0 /\ line[l].qty \in Nat
    BY <1>1, <2>1, LineTypes DEF Live, Exists, Ids
  <2>4. /\ line' = line
        /\ req'[q] = [op |-> "sell", pallet |-> line[l].pallet, line |-> l, item |-> line[l].item,
                      qty |-> n, seen |-> line[l].qty]
    BY <1>2, <2>2
  <2> QED
    BY <2>3, <2>4 DEF LineRead, TodoRead, SaleRead, OnLine, Firsts
<1>8. CASE SellPallet(q)
  <2>1. PICK p \in Ids :
          Begin(q, [op |-> "sellAll", pallet |-> p,
                    todo |-> {[line |-> l, item |-> line[l].item, qty |-> line[l].qty] :
                                l \in {m \in On(p) : line[m].qty > 0}}])
    BY <1>8 DEF SellPallet
  <2> DEFINE todo == {[line |-> l, item |-> line[l].item, qty |-> line[l].qty] :
                        l \in {m \in On(p) : line[m].qty > 0}}
  <2>2. \A t \in todo : t.line \in On(p) /\ line[t.line].item = t.item /\ line[t.line].qty = t.qty
    OBVIOUS
  <2>3. line' = line /\ req'[q] = [op |-> "sellAll", pallet |-> p, todo |-> todo]
    BY <1>2, <2>1
  <2> HIDE DEF todo
  <2>4. req'[q].op = "sellAll" /\ req'[q].pallet = p /\ req'[q].todo = todo
    BY <2>3
  <2>5. On(p)' = On(p)
    BY <2>3 DEF On
  <2>6. TodoRead(q)'
    BY <2>2, <2>3, <2>4, <2>5 DEF TodoRead, On
  <2> QED
    BY <2>4, <2>6 DEF LineRead, SaleRead, OnLine, Firsts
<1>9. CASE Return(q)
  <2>1. PICK s \in DOMAIN sold, p \in Ids :
          /\ ~sold[s].back
          /\ \E l \in {0} \cup {l \in On(p) : line[l].item = sold[s].item} :
               Begin(q, [op |-> "put", pallet |-> p, line |-> l, item |-> sold[s].item, qty |-> sold[s].qty,
                         seen |-> IF l = 0 THEN 0 ELSE line[l].qty, sale |-> s, status |-> pallet[p].status])
    BY <1>9 DEF Return
  <2>2. PICK l \in {0} \cup {l \in On(p) : line[l].item = sold[s].item} :
          Begin(q, [op |-> "put", pallet |-> p, line |-> l, item |-> sold[s].item, qty |-> sold[s].qty,
                    seen |-> IF l = 0 THEN 0 ELSE line[l].qty, sale |-> s, status |-> pallet[p].status])
    BY <2>1
  <2>3. /\ line' = line /\ sold' = sold
        /\ req'[q] = [op |-> "put", pallet |-> p, line |-> l, item |-> sold[s].item, qty |-> sold[s].qty,
                      seen |-> IF l = 0 THEN 0 ELSE line[l].qty, sale |-> s, status |-> pallet[p].status]
    BY <1>2, <2>2
  <2>4. l # 0 => l \in On(p) /\ line[l].item = sold[s].item
    BY <2>2
  <2>5. /\ req'[q].op = "put" /\ req'[q].pallet = p /\ req'[q].line = l /\ req'[q].item = sold[s].item
        /\ req'[q].qty = sold[s].qty /\ req'[q].sale = s /\ (l # 0 => req'[q].seen = line[l].qty)
    BY <2>3
  <2>6. SaleRead(q)'
    BY <2>1, <2>3, <2>5 DEF SaleRead
  <2>7. LineRead(q)'
    BY <2>3, <2>4, <2>5 DEF LineRead, On, OnLine
  <2> QED
    BY <2>5, <2>6, <2>7 DEF TodoRead, Firsts
<1> QED
  BY <1>4, <1>5, <1>6, <1>7, <1>8, <1>9 DEF Request

(* What it has read stands while it goes on. *)
LEMMA StepsRead ==
  ASSUME PalletInv, Reads, NEW q \in Requests, Step(q)
  PROVE  /\ LineRead(q)' /\ TodoRead(q)' /\ SaleRead(q)' /\ req'[q].op # "delete"
         /\ req'[q].op \in {"sellAll", "empty"} =>
              req[q].op = "sellAll" /\ req'[q].pallet = req[q].pallet /\ UNCHANGED line
<1>1. req \in [Requests -> Reqs] /\ req[q] \in Reqs /\ Idle.op = "idle"
  BY DEF PalletInv, PalletTypeOK, Idle
<1>2. ASSUME req'[q].op \in {"idle", "insert", "patch", "lock", "merge"}
      PROVE  /\ LineRead(q)' /\ TodoRead(q)' /\ SaleRead(q)' /\ req'[q].op # "delete"
             /\ req'[q].op \notin {"sellAll", "empty"}
  BY <1>2 DEF LineRead, TodoRead, SaleRead, OnLine
<1>3. ASSUME NEW n, Go(q, n) PROVE req'[q] = n
  BY <1>1, <1>3 DEF Go
<1>4. CASE Patch(q) \/ Delete(q) \/ Insert(q) \/ Shrink(q) \/ Stamp(q)
  <2>1. req'[q] = Idle
    BY <1>3, <1>4 DEF Patch, Delete, Insert, Shrink, Stamp, Done
  <2> QED
    BY <1>1, <1>2, <2>1
<1>5. CASE Refuse(q) \/ Commit(q)
  <2>1. req'[q] = Idle
    BY <1>1, <1>5 DEF Refuse, Commit, Release
  <2> QED
    BY <1>1, <1>2, <2>1
<1>6. CASE LockRow(q)
  <2> DEFINE p == LockNext(req[q].todo, req[q])
             n == [op |-> IF req[q].todo = {p} THEN "merge" ELSE "lock", pallet |-> req[q].pallet,
                   second |-> req[q].second, todo |-> req[q].todo \ {p}]
  <2>1. req' = [req EXCEPT ![q] = n]
    BY <1>6 DEF LockRow
  <2>2. n.op \in {"lock", "merge"}
    OBVIOUS
  <2> HIDE DEF n
  <2>3. req'[q] = n
    BY <1>1, <2>1
  <2> QED
    BY <1>2, <2>2, <2>3
<1>7. CASE Clear(q)
  <2>1. req[q] \in Inserts
    BY <1>1, <1>7, ReqOps DEF Clear
  <2>2. req'[q].op \in {"idle", "insert"}
    BY <1>1, <1>3, <1>7, <2>1 DEF Clear, Done, Inserts
  <2> QED
    BY <1>2, <2>2
<1>8. CASE Empty(q)
  BY <1>2, <1>3, <1>8 DEF Empty
<1>9. CASE ArchiveLine(q)
  <2>1. req[q] \in Sells /\ req[q].op \in OnLine /\ LineRead(q)
    BY <1>1, <1>9, ReqOps DEF ArchiveLine, OnLine, Reads
  <2>2. line' = line /\ (req'[q] = Idle \/ req'[q] = [req[q] EXCEPT !.op = "shrink"])
    BY <1>3, <1>9 DEF ArchiveLine, Done
  <2>3. CASE req'[q] = [req[q] EXCEPT !.op = "shrink"]
    <3>1. /\ req'[q].op = "shrink" /\ req'[q].line = req[q].line /\ req'[q].item = req[q].item
          /\ req'[q].qty = req[q].qty /\ req'[q].seen = req[q].seen
      BY <2>1, <2>3 DEF Sells
    <3> QED
      BY <2>1, <2>2, <3>1 DEF LineRead, TodoRead, SaleRead, OnLine
  <2> QED
    BY <1>1, <1>2, <2>2, <2>3
<1>10. CASE ArchiveNext(q)
  <2>1. TodoRead(q) /\ req[q].op = "sellAll" /\ line' = line
    BY <1>10 DEF ArchiveNext, Reads
  <2>2. \/ req'[q] = Idle
        \/ \E t \in req[q].todo :
             req'[q] = [op |-> IF req[q].todo = {t} THEN "empty" ELSE "sellAll", pallet |-> req[q].pallet,
                        todo |-> req[q].todo \ {t}]
    BY <1>3, <1>10 DEF ArchiveNext, Done
  <2>3. ASSUME NEW t \in req[q].todo,
               req'[q] = [op |-> IF req[q].todo = {t} THEN "empty" ELSE "sellAll", pallet |-> req[q].pallet,
                          todo |-> req[q].todo \ {t}]
        PROVE  /\ LineRead(q)' /\ TodoRead(q)' /\ SaleRead(q)' /\ req'[q].op # "delete"
               /\ req'[q].pallet = req[q].pallet
    <3>1. /\ req'[q].op \in {"empty", "sellAll"} /\ req'[q].pallet = req[q].pallet
          /\ req'[q].todo = req[q].todo \ {t} /\ (req'[q].op = "empty" => req[q].todo = {t})
      BY <2>3
    <3>2. \A p : On(p)' = On(p)
      BY <2>1 DEF On
    <3>3. \A u \in req'[q].todo :
            u.line \in On(req[q].pallet) /\ line[u.line].item = u.item /\ line[u.line].qty = u.qty
      BY <2>1, <3>1 DEF TodoRead
    <3>4. TodoRead(q)'
      BY <2>1, <3>1, <3>2, <3>3 DEF TodoRead, On
    <3> QED
      BY <3>1, <3>4 DEF LineRead, SaleRead, OnLine
  <2> QED
    BY <1>1, <1>2, <2>1, <2>2, <2>3
<1>11. CASE Put(q) \/ Reopen(q)
  <2>1. req[q] \in Puts /\ SaleRead(q) /\ req[q].op \in {"put", "reopen"}
    BY <1>1, <1>11, ReqOps DEF Put, Reopen, Reads
  <2>2. sold' = sold /\ (req'[q] = Idle \/ \E op \in {"reopen", "stamp"} : req'[q] = [req[q] EXCEPT !.op = op])
    BY <1>3, <1>11 DEF Put, Reopen, Done, Reopens
  <2>3. ASSUME NEW op \in {"reopen", "stamp"}, req'[q] = [req[q] EXCEPT !.op = op]
        PROVE  /\ LineRead(q)' /\ TodoRead(q)' /\ SaleRead(q)' /\ req'[q].op \notin {"delete", "sellAll", "empty"}
    <3>1. /\ req'[q].op = op /\ req'[q].sale = req[q].sale /\ req'[q].item = req[q].item
          /\ req'[q].qty = req[q].qty
      BY <2>1, <2>3 DEF Puts
    <3> QED
      BY <2>1, <2>2, <3>1 DEF LineRead, TodoRead, SaleRead, OnLine
  <2> QED
    BY <1>1, <1>2, <2>2, <2>3
<1> QED
  BY <1>4, <1>5, <1>6, <1>7, <1>8, <1>9, <1>10, <1>11 DEF Step

LEMMA PalletsStand ==
  ASSUME PalletInv, Reads, NEW q \in Requests, Request(q) \/ Step(q)
  PROVE  PalletInv' /\ Reads'
<1>1. PalletInv'
  BY RequestPallets, StepPallets
<1>2. \A s \in Requests \ {q} : LineRead(s)' /\ TodoRead(s)' /\ SaleRead(s)'
  BY <1>1, OthersRead
<1>3. LineRead(q)' /\ TodoRead(q)' /\ SaleRead(q)'
  BY BeginsRead, StepsRead
<1> QED
  BY <1>1, <1>2, <1>3 DEF Reads

-----------------------------------------------------------------------------
(* Devices. *)

Prices == Seq(Int)

DeviceRow ==
  [status : {"none", "in", "sold", "deleted"}, lot : Lots \cup {Nobody}, sub : Subs \cup {Nobody},
   pallet : Ids \cup {0}, sale : Nat, price : Prices, from : Ids \cup {0}]

SaleRow == [total : Totals, units : Nat, ended : BOOLEAN]

Adds == [op : {"add"}, pallet : Ids, todo : SUBSET Devices]
Takes == [op : {"take"}, todo : SUBSET Devices]
PalletSales == [op : {"sellPallet", "ship"}, pallet : Ids, todo : SUBSET Devices, sale : Nat, total : Totals,
                count : Nat]
LotSales == [op : {"bulk", "price", "rest", "close"}, lot : Lots, todo : SUBSET Devices, sale : Nat,
             total : Totals, count : Nat]
Returns == [op : {"return", "reopen"}, todo : SUBSET Devices, lot : Lots \cup {Nobody, "own"},
            to : Lots \cup {Nobody}]

Tasks == {NoTask} \cup Adds \cup Takes \cup PalletSales \cup LotSales \cup Returns

GoodsTypeOK ==
  /\ device \in [Devices -> DeviceRow]
  /\ task \in Tasks
  /\ sales \in Seq(SaleRow)

(* What the request on devices has read still stands. *)
TaskReads ==
  /\ task.op \in {"sellPallet", "ship"} => Live(task.pallet)
  /\ task.op \in {"add", "take"} => task.todo \subseteq InStock
  /\ task.op = "sellPallet" => task.todo = Standing(task.pallet) \cap InStock /\ task.count # 0
  /\ task.op = "ship" => Standing(task.pallet) \cap InStock = {}
  /\ task.op = "bulk" => task.todo = {d \in InStock : device[d].lot = task.lot}
  /\ task.op \in {"bulk", "price", "rest"} => task.todo # {} /\ task.count = Cardinality(task.todo)
  /\ task.op \in {"price", "rest"} =>
       /\ task.total # <<>>
       /\ \A d \in task.todo : device[d].status = "sold" /\ device[d].sale = task.sale
  /\ task.op = "rest" => \A d \in task.todo : device[d].price = <<task.total[1] \div task.count>>

(* A pallet that is sold as counted goods, or deleted, has no device. *)
PalletsBare ==
  \A q \in Requests : req[q].op \in {"sellAll", "empty", "delete"} => Standing(req[q].pallet) = {}

(* It is alone. *)
TaskAlone == task # NoTask => Busy = {}

GoodsInv == PalletInv /\ Reads /\ GoodsTypeOK /\ TaskAlone /\ TaskReads /\ PalletsBare

LEMMA TaskOps ==
  ASSUME task \in Tasks
  PROVE  /\ task.op = "none" <=> task = NoTask
         /\ task.op = "add" <=> task \in Adds
         /\ task.op = "take" <=> task \in Takes
         /\ task.op \in {"sellPallet", "ship"} <=> task \in PalletSales
         /\ task.op \in {"bulk", "price", "rest", "close"} <=> task \in LotSales
         /\ task.op \in {"return", "reopen"} <=> task \in Returns
<1>1. task = NoTask => task.op = "none"
  BY DEF NoTask
<1>2. task \in Adds => task.op = "add"
  BY DEF Adds
<1>3. task \in Takes => task.op = "take"
  BY DEF Takes
<1>4. task \in PalletSales => task.op \in {"sellPallet", "ship"}
  BY DEF PalletSales
<1>5. task \in LotSales => task.op \in {"bulk", "price", "rest", "close"}
  BY DEF LotSales
<1>6. task \in Returns => task.op \in {"return", "reopen"}
  BY DEF Returns
<1> QED
  BY <1>1, <1>2, <1>3, <1>4, <1>5, <1>6 DEF Tasks

(* The fields of a device. *)
LEMMA DeviceTypes ==
  ASSUME GoodsTypeOK, NEW d \in Devices
  PROVE  /\ device[d] \in DeviceRow
         /\ device[d].status \in {"none", "in", "sold", "deleted"}
         /\ device[d].lot \in Lots \cup {Nobody} /\ device[d].sub \in Subs \cup {Nobody}
         /\ device[d].pallet \in Ids \cup {0} /\ device[d].from \in Ids \cup {0}
         /\ device[d].sale \in Nat /\ device[d].price \in Prices
BY DEF GoodsTypeOK, DeviceRow

LEMMA InitGoods == GoodsInit => GoodsInv
<1> SUFFICES ASSUME GoodsInit PROVE GoodsInv
  OBVIOUS
<1>1. /\ shift \in Shifts /\ sales = <<>> /\ task = NoTask /\ shift.lots \subseteq Lots
      /\ Nobody \notin Requests /\ MaxPallets \in Nat
  BY GoodsAssumption, StockAssumption DEF GoodsInit
<1>2. Idle \in Reqs /\ Idle.op = "idle" /\ NoTask.op = "none" /\ NoTask \in Tasks
  BY DEF Idle, Reqs, NoTask, Tasks
<1>3. req = [q \in Requests |-> Idle]
  BY DEF GoodsInit, Init
<1>4. Reads /\ PalletsBare
  BY <1>2, <1>3 DEF Reads, LineRead, TodoRead, SaleRead, OnLine, PalletsBare
<1>5. PalletInv
  <2>1. CASE shift.ops = {}
    BY <2>1, InitPallets DEF GoodsInit
  <2>2. CASE shift.ops # {}
    <3>1. /\ line = <<>> /\ sold = <<>> /\ lock = [p \in Ids |-> Nobody] /\ booked = [i \in Items |-> 0]
          /\ pallet = [p \in Ids |-> IF p = 1 THEN [status |-> "open", layout |-> "asset"]
                                     ELSE IF p = 2 THEN [status |-> "open", layout |-> "variant"] ELSE NoPallet]
      BY <2>2 DEF GoodsInit
    <3>2. pallet \in [Ids -> PalletRow]
      BY <3>1 DEF PalletRow, Statuses, NoPallet
    <3>3. PalletTypeOK
      BY <1>2, <1>3, <3>1, <3>2 DEF PalletTypeOK
    <3>4. LocksRise /\ Beside
      BY <1>1, <1>2, <1>3, <3>1 DEF LocksRise, Beside, Solo, OnLine, Merging
    <3>5. OnlyLive
      BY <1>2, <1>3, <3>1 DEF OnlyLive, LinesLive, Solo
    <3> QED
      BY <3>3, <3>4, <3>5 DEF PalletInv
  <2> QED
    BY <2>1, <2>2
<1>6. device \in [Devices -> DeviceRow]
  <2>1. PICK l \in [shift.devices -> shift.lots] :
          device = [d \in Devices |-> IF d \in shift.devices THEN Unsold("in", l[d], Nobody) ELSE NoDevice]
    BY DEF GoodsInit
  <2>2. NoDevice \in DeviceRow /\ \A x \in Lots : Unsold("in", x, Nobody) \in DeviceRow
    BY DEF NoDevice, Unsold, DeviceRow, Prices
  <2> QED
    BY <1>1, <2>1, <2>2
<1>7. GoodsTypeOK
  BY <1>1, <1>2, <1>6 DEF GoodsTypeOK
<1>8. TaskReads /\ TaskAlone
  BY <1>1, <1>2 DEF TaskReads, TaskAlone
<1> QED
  BY <1>4, <1>5, <1>7, <1>8 DEF GoodsInv

(* A sold device keeps the record of its sale. *)
RecordsStand ==
  \A d \in Devices : device[d].status = "sold" =>
    \/ device'[d].status = "deleted"
    \/ device'[d].status = "in" /\ task.op = "return" /\ device'[d].pallet = 0
    \/ /\ device'[d].status = "sold"
       /\ device'[d].sale = device[d].sale /\ device'[d].pallet = device[d].pallet
       /\ \/ device'[d].price = device[d].price
          \/ task.op \in {"price", "rest"} /\ task.sale = device[d].sale

(* A step of the request on devices, which is alone. *)
LEMMA TaskSteps ==
  ASSUME GoodsInv, UNCHANGED req, Busy = {}, PalletInv', Reads', task' \in Tasks,
         device' \in [Devices -> DeviceRow], sales' \in Seq(SaleRow), TaskReads'
  PROVE  GoodsInv'
<1>1. \A q \in Requests : req'[q] = Idle /\ Idle.op = "idle"
  BY DEF Busy, Idle
<1>2. PalletsBare'
  BY <1>1 DEF PalletsBare
<1>3. TaskAlone'
  BY <1>1 DEF TaskAlone, Busy
<1> QED
  BY <1>2, <1>3 DEF GoodsInv, GoodsTypeOK

LEMMA SamePallets ==
  ASSUME GoodsInv, UNCHANGED vars
  PROVE  /\ PalletInv' /\ Reads'
         /\ UNCHANGED <<pallet, req>> /\ (\A x : Live(x) => Live(x)')
<1>1. /\ pallet' = pallet /\ line' = line /\ sold' = sold /\ lock' = lock /\ req' = req
      /\ booked' = booked /\ world' = world
  BY DEF vars
<1>2. PalletTypeOK'
  BY <1>1 DEF GoodsInv, PalletInv, PalletTypeOK
<1>3. LocksRise' /\ Beside'
  BY <1>1 DEF GoodsInv, PalletInv, LocksRise, Beside
<1>4. \A x : Live(x) => Live(x)'
  BY <1>1 DEF Live, Exists
<1>5. OnlyLive'
  BY <1>1, <1>4 DEF GoodsInv, PalletInv, OnlyLive, LinesLive
<1>6. Reads'
  BY <1>1 DEF GoodsInv, Reads, LineRead, TodoRead, SaleRead, On
<1> QED
  BY <1>1, <1>2, <1>3, <1>4, <1>5, <1>6 DEF PalletInv

(* A request of one statement. *)
LEMMA WriteStep ==
  ASSUME GoodsInv, NEW op, Write(op), device' \in [Devices -> DeviceRow], sales' \in Seq(SaleRow)
  PROVE  GoodsInv'
<1>1. Busy = {} /\ task = NoTask /\ task' = NoTask /\ UNCHANGED vars
  BY DEF Write, May
<1>2. TaskReads' /\ task' \in Tasks
  BY <1>1 DEF TaskReads, Tasks, NoTask
<1> QED
  BY <1>1, <1>2, SamePallets, TaskSteps

(* A request on devices goes on, or begins. *)
LEMMA GoesOn ==
  ASSUME GoodsInv, UNCHANGED vars, Busy = {}, task' \in Tasks,
         device' \in [Devices -> DeviceRow], sales' \in Seq(SaleRow), TaskReads'
  PROVE  GoodsInv'
BY SamePallets, TaskSteps

(* The devices that a statement leaves as they are. *)
LEMMA SameDevices ==
  ASSUME device' = device
  PROVE  /\ RecordsStand /\ InStock' = InStock
         /\ \A p : (Standing(p) \cap InStock)' = Standing(p) \cap InStock
         /\ \A p : Standing(p)' = Standing(p)
<1>1. RecordsStand
  BY DEF RecordsStand
<1> QED
  BY <1>1 DEF InStock, Standing, Present

LEMMA UnsoldRow ==
  ASSUME NEW s \in {"none", "in", "deleted"}, NEW l \in Lots \cup {Nobody}, NEW b \in Subs \cup {Nobody}
  PROVE  /\ Unsold(s, l, b) \in DeviceRow /\ Unsold(s, l, b).status = s
         /\ Unsold(s, l, b).pallet = 0 /\ Unsold(s, l, b).sale = 0
BY DEF Unsold, DeviceRow, Prices

-----------------------------------------------------------------------------
(* Lots, sub-lots and devices. *)

LEMMA LotsStep ==
  ASSUME GoodsInv, CreateLot \/ UpdateLot \/ CreateSub \/ UpdateSub
  PROVE  GoodsInv' /\ RecordsStand
<1>1. Write("lots") /\ UNCHANGED <<device, sales>>
  BY DEF CreateLot, UpdateLot, CreateSub, UpdateSub
<1>2. device' \in [Devices -> DeviceRow] /\ sales' \in Seq(SaleRow)
  BY <1>1 DEF GoodsInv, GoodsTypeOK
<1> QED
  BY <1>1, <1>2, WriteStep, SameDevices

(* Each device is deleted, or forgets its sub-lot, or stays. *)
LEMMA LeavesLot ==
  ASSUME GoodsInv, NEW op, Write(op), UNCHANGED sales, device' = [d \in Devices |-> device'[d]],
         \A d \in Devices : device'[d] \in {Deleted, [device[d] EXCEPT !.sub = Nobody], device[d]}
  PROVE  GoodsInv' /\ RecordsStand
<1>1. ASSUME NEW d \in Devices
      PROVE  /\ device'[d] \in DeviceRow
             /\ device[d].status = "sold" =>
                  \/ device'[d].status = "deleted"
                  \/ /\ device'[d].status = "sold" /\ device'[d].sale = device[d].sale
                     /\ device'[d].pallet = device[d].pallet /\ device'[d].price = device[d].price
  <2>1. device[d] \in DeviceRow
    BY DeviceTypes DEF GoodsInv
  <2>2. Deleted \in DeviceRow /\ Deleted.status = "deleted"
    BY UnsoldRow DEF Deleted
  <2> QED
    BY <2>1, <2>2 DEF DeviceRow
<1>2. device' \in [Devices -> DeviceRow]
  BY <1>1
<1>3. RecordsStand
  BY <1>1 DEF RecordsStand
<1>4. sales' \in Seq(SaleRow)
  BY DEF GoodsInv, GoodsTypeOK
<1> QED
  BY <1>2, <1>3, <1>4, WriteStep

LEMMA RemovesStep ==
  ASSUME GoodsInv, RemoveLot \/ RemoveSub \/ RemoveDevice
  PROVE  GoodsInv' /\ RecordsStand
<1>1. device \in [Devices -> DeviceRow]
  BY DEF GoodsInv, GoodsTypeOK
<1>2. CASE RemoveLot
  <2>1. PICK l \in LotsThere :
          device' = [d \in Devices |->
            IF d \in Present /\ device[d].lot = l THEN Deleted
            ELSE IF device[d].sub \in {s \in SubsThere : sub[s] = l} THEN [device[d] EXCEPT !.sub = Nobody]
            ELSE device[d]]
    BY <1>2 DEF RemoveLot
  <2>2. Write("removeLot") /\ UNCHANGED sales
    BY <1>2 DEF RemoveLot
  <2> QED
    BY <2>1, <2>2, LeavesLot
<1>3. CASE RemoveSub
  <2>1. PICK s \in SubsThere :
          device' = [d \in Devices |-> IF device[d].sub = s THEN [device[d] EXCEPT !.sub = Nobody] ELSE device[d]]
    BY <1>3 DEF RemoveSub
  <2>2. Write("lots") /\ UNCHANGED sales
    BY <1>3 DEF RemoveSub
  <2> QED
    BY <2>1, <2>2, LeavesLot
<1>4. CASE RemoveDevice
  <2>1. PICK x \in Devices : device' = [device EXCEPT ![x] = Deleted]
    BY <1>4 DEF RemoveDevice, Present
  <2>2. Write("removeDevice") /\ UNCHANGED sales
    BY <1>4 DEF RemoveDevice
  <2>3. device' = [d \in Devices |-> device'[d]] /\ \A d \in Devices : device'[d] \in {Deleted, device[d]}
    BY <1>1, <2>1
  <2> QED
    BY <2>2, <2>3, LeavesLot
<1> QED
  BY <1>2, <1>3, <1>4

LEMMA DevicesStep ==
  ASSUME GoodsInv, CreateDevice \/ UpdateDevice
  PROVE  GoodsInv' /\ RecordsStand
<1>1. device \in [Devices -> DeviceRow] /\ GoodsTypeOK
  BY DEF GoodsInv, GoodsTypeOK
<1>2. PICK d \in Devices, row \in DeviceRow : device[d].status # "sold" /\ device' = [device EXCEPT ![d] = row]
  <2>1. CASE CreateDevice
    <3>1. PICK d \in Devices, l \in LotsThere \cup {Nobody}, s \in SubsThere \cup {Nobody} :
            device[d].status = "none" /\ device' = [device EXCEPT ![d] = Unsold("in", l, s)]
      BY <2>1 DEF CreateDevice
    <3>2. Unsold("in", l, s) \in DeviceRow
      BY UnsoldRow DEF LotsThere, SubsThere
    <3> QED
      BY <3>1, <3>2
  <2>2. CASE UpdateDevice
    <3>1. PICK d \in InStock, l \in LotsThere, s \in SubsThere \cup {Nobody}, status \in {"in", "sold"} :
            device' = [device EXCEPT ![d] =
              [status |-> status, lot |-> l, sub |-> s, pallet |-> device[d].pallet,
               sale |-> device[d].sale, price |-> device[d].price, from |-> device[d].from]]
      BY <2>2 DEF UpdateDevice
    <3>2. d \in Devices /\ device[d].status = "in"
      BY DEF InStock
    <3>3. [status |-> status, lot |-> l, sub |-> s, pallet |-> device[d].pallet,
           sale |-> device[d].sale, price |-> device[d].price, from |-> device[d].from] \in DeviceRow
      BY <1>1, <3>2, DeviceTypes DEF DeviceRow, LotsThere, SubsThere
    <3> QED
      BY <3>1, <3>2, <3>3
  <2> QED
    BY <2>1, <2>2
<1>3. Write("devices") /\ UNCHANGED sales
  BY DEF CreateDevice, UpdateDevice
<1>4. device' \in [Devices -> DeviceRow] /\ \A x \in Devices \ {d} : device'[x] = device[x]
  BY <1>1, <1>2
<1>5. RecordsStand
  BY <1>2, <1>4 DEF RecordsStand
<1>6. sales' \in Seq(SaleRow)
  BY <1>3 DEF GoodsInv, GoodsTypeOK
<1> QED
  BY <1>3, <1>4, <1>5, <1>6, WriteStep

-----------------------------------------------------------------------------
(* Onto pallets and off them. *)

LEMMA Begins ==
  ASSUME NEW op, NEW t, Start(op, t)
  PROVE  Busy = {} /\ task = NoTask /\ task' = t /\ UNCHANGED vars
BY DEF Start, May

LEMMA SameRows ==
  ASSUME GoodsInv, UNCHANGED goods
  PROVE  /\ device' = device /\ device' \in [Devices -> DeviceRow] /\ sales' \in Seq(SaleRow)
         /\ RecordsStand /\ InStock' = InStock
         /\ \A p : (Standing(p) \cap InStock)' = Standing(p) \cap InStock
<1>1. device' = device /\ sales' = sales
  BY DEF goods
<1> QED
  BY <1>1, SameDevices DEF GoodsInv, GoodsTypeOK

LEMMA FillTask ==
  ASSUME NEW p \in Ids, NEW ds, ds \subseteq Devices
  PROVE  Fill(p, ds) \in Tasks /\ Fill(p, ds).op = "add" /\ Fill(p, ds).todo \subseteq InStock
<1>1. Fill(p, ds).op = "add" /\ Fill(p, ds).todo \subseteq InStock /\ Fill(p, ds).todo \subseteq Devices
  BY DEF Fill, Movable
<1>2. Fill(p, ds) \in Adds
  BY DEF Fill, Adds
<1> QED
  BY <1>1, <1>2 DEF Tasks

LEMMA MovesBegin ==
  ASSUME GoodsInv, AddAssets \/ RemoveAssets
  PROVE  GoodsInv' /\ RecordsStand
<1>1. UNCHANGED goods
  BY DEF AddAssets, RemoveAssets
<1>2. PICK t \in Tasks : t.op \in {"add", "take"} /\ t.todo \subseteq InStock /\ \E op : Start(op, t)
  <2>1. CASE AddAssets
    <3>1. PICK p \in Ids, ds \in SUBSET Present : Start("pallets", Fill(p, ds))
      BY <2>1 DEF AddAssets
    <3>2. ds \subseteq Devices
      BY DEF Present
    <3> QED
      BY <3>1, <3>2, FillTask
  <2>2. CASE RemoveAssets
    <3>1. PICK ds \in SUBSET {d \in Devices : Removable(d)} : Start("pallets", [op |-> "take", todo |-> ds])
      BY <2>2 DEF RemoveAssets
    <3> DEFINE t == [op |-> "take", todo |-> ds]
    <3>2. t \in Tasks /\ t.op = "take" /\ t.todo \subseteq InStock
      BY DEF Tasks, Takes, Removable
    <3>3. Start("pallets", t)
      BY <3>1
    <3> HIDE DEF t
    <3> QED
      BY <3>2, <3>3
  <2> QED
    BY <2>1, <2>2
<1>3. Busy = {} /\ task' = t /\ UNCHANGED vars
  BY <1>2, Begins
<1>4. TaskReads'
  BY <1>1, <1>2, <1>3, SameRows DEF TaskReads
<1> QED
  BY <1>1, <1>3, <1>4, SameRows, GoesOn

(* A pallet that is new, or changes its status, leaves the others as they are. *)
LEMMA OnePallet ==
  ASSUME GoodsInv, NEW p \in Ids, NEW row \in PalletRow, pallet' = [pallet EXCEPT ![p] = row],
         row.status \in {"open", "shipped"},
         UNCHANGED <<line, sold, merges, booked, lock, req, world, made>>
  PROVE  PalletInv' /\ Reads'
<1>1. /\ pallet \in [Ids -> PalletRow] /\ pallet' \in [Ids -> PalletRow] /\ pallet'[p] = row
      /\ \A x \in Ids \ {p} : pallet'[x] = pallet[x]
  BY DEF GoodsInv, PalletInv, PalletTypeOK
<1>2. \A x : Live(x) => Live(x)'
  BY <1>1 DEF Live, Exists, Statuses
<1>3. PalletTypeOK'
  BY <1>1 DEF GoodsInv, PalletInv, PalletTypeOK
<1>4. LocksRise' /\ Beside'
  BY DEF GoodsInv, PalletInv, LocksRise, Beside
<1>5. OnlyLive'
  BY <1>2 DEF GoodsInv, PalletInv, OnlyLive, LinesLive
<1>6. Reads'
  BY DEF GoodsInv, Reads, LineRead, TodoRead, SaleRead, On
<1> QED
  BY <1>3, <1>4, <1>5, <1>6 DEF PalletInv

LEMMA TransferStep ==
  ASSUME GoodsInv, TransferBatch
  PROVE  GoodsInv' /\ RecordsStand
<1>1. PICK l \in LotsThere, p \in NewIds :
        /\ May("transfer") /\ task' = Fill(p, {d \in InStock : device[d].lot = l})
        /\ pallet' = [pallet EXCEPT ![p] = [status |-> "open", layout |-> "asset"]]
        /\ UNCHANGED <<line, sold, merges, booked, lock, req, world, made, shift, goods>>
  BY DEF TransferBatch
<1> DEFINE t == Fill(p, {d \in InStock : device[d].lot = l})
           row == [status |-> "open", layout |-> "asset"]
<1>2. p \in Ids /\ {d \in InStock : device[d].lot = l} \subseteq Devices /\ Busy = {}
  BY <1>1 DEF NewIds, InStock, May
<1>3. t \in Tasks /\ t.op = "add" /\ t.todo \subseteq InStock
  BY <1>2, FillTask
<1>4. task' = t /\ UNCHANGED goods
  BY <1>1
<1> HIDE DEF t
<1>5. TaskReads'
  BY <1>3, <1>4, SameRows DEF TaskReads
<1>6. row \in PalletRow /\ row.status = "open"
  BY DEF PalletRow, Statuses
<1>7. PalletInv' /\ Reads'
  BY <1>1, <1>2, <1>6, OnePallet
<1> QED
  BY <1>1, <1>2, <1>3, <1>4, <1>5, <1>7, SameRows, TaskSteps

(* One device less to do. *)
LEMMA LessTask ==
  ASSUME task \in Adds \cup Takes, NEW d \in task.todo
  PROVE  /\ Less(d) \in Tasks
         /\ Less(d).op \in {"add", "take", "none"} /\ (Less(d).op # "none" => Less(d).todo = task.todo \ {d})
<1>1. [task EXCEPT !.todo = @ \ {d}] \in Adds \cup Takes
  BY DEF Adds, Takes
<1>2. /\ [task EXCEPT !.todo = @ \ {d}].op \in {"add", "take"}
      /\ [task EXCEPT !.todo = @ \ {d}].todo = task.todo \ {d}
  BY DEF Adds, Takes
<1> QED
  BY <1>1, <1>2 DEF Less, Tasks, NoTask

LEMMA MovesStep ==
  ASSUME GoodsInv, AddNext \/ TakeNext
  PROVE  GoodsInv' /\ RecordsStand
<1>1. task \in Adds \cup Takes /\ task.todo \subseteq InStock /\ task # NoTask
  BY TaskOps DEF GoodsInv, GoodsTypeOK, TaskReads, AddNext, TakeNext, NoTask
<1>2. PICK d \in task.todo, p \in Ids \cup {0} :
        device' = [device EXCEPT ![d].pallet = p] /\ task' = Less(d)
  <2>1. CASE AddNext
    <3>1. task.pallet \in Ids
      BY <2>1, TaskOps DEF AddNext, GoodsInv, GoodsTypeOK, Adds
    <3> QED
      BY <2>1, <3>1 DEF AddNext, Then
  <2>2. CASE TakeNext
    BY <2>2 DEF TakeNext, Then
  <2> QED
    BY <2>1, <2>2
<1>3. UNCHANGED <<vars, lot, sub, sales>>
  BY DEF AddNext, TakeNext
<1>4. d \in Devices /\ device[d].status = "in" /\ device \in [Devices -> DeviceRow] /\ device[d] \in DeviceRow
  BY <1>1, DeviceTypes DEF InStock, GoodsInv, GoodsTypeOK
<1>5. /\ device' \in [Devices -> DeviceRow] /\ device'[d].status = "in"
      /\ \A x \in Devices \ {d} : device'[x] = device[x]
  BY <1>2, <1>4 DEF DeviceRow
<1>6. RecordsStand
  BY <1>4, <1>5 DEF RecordsStand
<1>7. InStock' = InStock
  BY <1>4, <1>5 DEF InStock
<1>8. TaskReads'
  BY <1>1, <1>2, <1>7, LessTask DEF TaskReads
<1>9. task' \in Tasks
  BY <1>1, <1>2, LessTask
<1>10. Busy = {}
  BY <1>1 DEF GoodsInv, TaskAlone
<1>11. sales' \in Seq(SaleRow)
  BY <1>3 DEF GoodsInv, GoodsTypeOK
<1> QED
  BY <1>3, <1>5, <1>6, <1>8, <1>9, <1>10, <1>11, GoesOn

-----------------------------------------------------------------------------
(* Selling devices. *)

LEMMA CountOf ==
  ASSUME NEW S, S \subseteq Devices
  PROVE  /\ IsFiniteSet(S) /\ Cardinality(S) \in Nat
         /\ S # {} => Cardinality(S) # 0
BY FS_Subset, FS_CardinalityType, FS_EmptySet, GoodsAssumption

LEMMA TotalTypes ==
  ASSUME NEW t \in Totals
  PROVE  t \in Prices /\ (t # <<>> => Len(t) = 1 /\ t[1] \in Nat)
<1>1. t \in Seq(Nat) /\ Len(t) <= 1 /\ Len(t) \in Nat /\ t \in [1..Len(t) -> Nat]
  BY GoodsAssumption, LenProperties
<1>2. t \in Prices
  BY <1>1, SeqDef DEF Prices
<1>3. t # <<>> => Len(t) = 1
  BY <1>1, EmptySeq
<1> QED
  BY <1>1, <1>2, <1>3

LEMMA OnePrice == \A n \in Int : <<n>> \in Prices
BY DEF Prices

LEMMA ShareTypes ==
  ASSUME NEW t \in Totals, NEW n \in Nat, n # 0, NEW last \in BOOLEAN
  PROVE  Share(t, n, last) \in Prices
<1>1. CASE t = <<>>
  BY <1>1 DEF Share, Prices
<1>2. CASE t # <<>>
  <2> DEFINE share == (2 * t[1] + n) \div (2 * n)
  <2>1. share \in Int /\ t[1] \in Int
    BY <1>2, TotalTypes
  <2> DEFINE price == IF last THEN t[1] - share * (n - 1) ELSE share
  <2>2. Share(t, n, last) = <<price>>
    BY <1>2 DEF Share
  <2> HIDE DEF share
  <2>3. price \in Int
    BY <2>1
  <2> HIDE DEF price
  <2> QED
    BY <2>2, <2>3, OnePrice
<1> QED
  BY <1>1, <1>2

LEMMA SoldRowType ==
  ASSUME GoodsInv, NEW d \in Devices, NEW n \in Nat, NEW price \in Prices, NEW p \in Ids \cup {0},
         NEW from \in Ids \cup {0}
  PROVE  /\ SoldAs(d, n, price, p, from) \in DeviceRow
         /\ SoldAs(d, n, price, p, from).status = "sold" /\ SoldAs(d, n, price, p, from).sale = n
         /\ SoldAs(d, n, price, p, from).pallet = p /\ SoldAs(d, n, price, p, from).price = price
<1>1. device[d].lot \in Lots \cup {Nobody} /\ device[d].sub \in Subs \cup {Nobody}
  BY DeviceTypes DEF GoodsInv
<1> QED
  BY <1>1 DEF SoldAs, DeviceRow

LEMMA SalesGrow ==
  ASSUME GoodsInv, NEW row \in SaleRow, sales' = Append(sales, row)
  PROVE  sales' \in Seq(SaleRow) /\ NewSale \in Nat
BY AppendProperties, LenProperties DEF GoodsInv, GoodsTypeOK, NewSale

LEMMA SellStep ==
  ASSUME GoodsInv, Sell
  PROVE  GoodsInv' /\ RecordsStand
<1>1. PICK d \in InStock, price \in Totals :
        /\ device' = [device EXCEPT ![d] =
             SoldAs(d, NewSale, price, 0, IF device[d].pallet # 0 THEN device[d].pallet ELSE device[d].from)]
        /\ sales' = Append(sales, [total |-> price, units |-> 1, ended |-> TRUE])
  BY DEF Sell
<1>2. d \in Devices /\ device[d].status = "in" /\ device \in [Devices -> DeviceRow]
  BY DEF InStock, GoodsInv, GoodsTypeOK
<1> DEFINE from == IF device[d].pallet # 0 THEN device[d].pallet ELSE device[d].from
           sale == [total |-> price, units |-> 1, ended |-> TRUE]
<1>3. from \in Ids \cup {0} /\ price \in Prices /\ sale \in SaleRow
  BY <1>2, DeviceTypes, TotalTypes DEF GoodsInv, SaleRow
<1>4. sales' \in Seq(SaleRow) /\ NewSale \in Nat
  BY <1>1, <1>3, SalesGrow
<1> HIDE DEF from
<1>5. SoldAs(d, NewSale, price, 0, from) \in DeviceRow
  BY <1>2, <1>3, <1>4, SoldRowType
<1>6. device' \in [Devices -> DeviceRow] /\ \A x \in Devices \ {d} : device'[x] = device[x]
  BY <1>1, <1>2, <1>5 DEF from
<1>7. RecordsStand
  BY <1>2, <1>6 DEF RecordsStand
<1>8. Write("sell")
  BY DEF Sell
<1> QED
  BY <1>4, <1>6, <1>7, <1>8, WriteStep

LEMMA PalletSaleBegins ==
  ASSUME GoodsInv, SellAssetPallet
  PROVE  GoodsInv' /\ RecordsStand
<1>1. PICK p \in Ids, total \in Totals :
        /\ Live(p) /\ Standing(p) \cap InStock # {}
        /\ Start("sellPallet", [op |-> "sellPallet", pallet |-> p, todo |-> Standing(p) \cap InStock, sale |-> NewSale,
                                total |-> total, count |-> Cardinality(Standing(p) \cap InStock)])
        /\ sales' = Append(sales, [total |-> total, units |-> 0, ended |-> FALSE])
        /\ UNCHANGED device
  BY DEF SellAssetPallet, Opened
<1> DEFINE unsold == Standing(p) \cap InStock
           sale == [total |-> total, units |-> 0, ended |-> FALSE]
           t == [op |-> "sellPallet", pallet |-> p, todo |-> unsold, sale |-> NewSale, total |-> total,
                 count |-> Cardinality(unsold)]
<1>2. unsold \subseteq Devices /\ Cardinality(unsold) \in Nat \ {0} /\ sale \in SaleRow
  <2>1. unsold \subseteq Devices /\ unsold # {}
    BY <1>1 DEF InStock
  <2> QED
    BY <2>1, CountOf DEF SaleRow
<1>3. sales' \in Seq(SaleRow) /\ NewSale \in Nat
  BY <1>1, <1>2, SalesGrow
<1>4. Busy = {} /\ task' = t /\ UNCHANGED vars
  BY <1>1, Begins
<1> HIDE DEF unsold
<1>5. t \in PalletSales /\ t.op = "sellPallet" /\ t.pallet = p /\ t.todo = unsold /\ t.count # 0
  BY <1>2, <1>3 DEF PalletSales
<1> HIDE DEF t
<1>6. (Standing(p) \cap InStock)' = unsold /\ Live(p)'
  BY <1>1, <1>4, SameDevices, SamePallets DEF unsold
<1>7. TaskReads'
  BY <1>4, <1>5, <1>6 DEF TaskReads, Live, Exists, Standing, Present, InStock
<1>8. task' \in Tasks
  BY <1>4, <1>5 DEF Tasks
<1>9. device' \in [Devices -> DeviceRow]
  BY <1>1 DEF GoodsInv, GoodsTypeOK
<1> QED
  BY <1>1, <1>3, <1>4, <1>7, <1>8, <1>9, SameDevices, GoesOn

LEMMA LotSaleBegins ==
  ASSUME GoodsInv, SellBatch
  PROVE  GoodsInv' /\ RecordsStand
<1>1. PICK l \in LotsThere, total \in Totals :
        /\ Start("sellLot",
             [op |-> IF {d \in InStock : device[d].lot = l} = {} THEN "close" ELSE "bulk", lot |-> l,
              todo |-> {d \in InStock : device[d].lot = l}, sale |-> NewSale, total |-> total,
              count |-> Cardinality({d \in InStock : device[d].lot = l})])
        /\ sales' = Append(sales, [total |-> total, units |-> 0, ended |-> FALSE])
        /\ UNCHANGED device
  BY DEF SellBatch, Opened
<1> DEFINE unsold == {d \in InStock : device[d].lot = l}
           sale == [total |-> total, units |-> 0, ended |-> FALSE]
           t == [op |-> IF unsold = {} THEN "close" ELSE "bulk", lot |-> l, todo |-> unsold, sale |-> NewSale,
                 total |-> total, count |-> Cardinality(unsold)]
<1>2. unsold \subseteq Devices /\ Cardinality(unsold) \in Nat /\ sale \in SaleRow
  BY CountOf DEF InStock, SaleRow
<1>3. sales' \in Seq(SaleRow) /\ NewSale \in Nat /\ l \in Lots
  BY <1>1, <1>2, SalesGrow DEF LotsThere
<1>4. Busy = {} /\ task' = t /\ UNCHANGED vars
  <2>1. Start("sellLot", t)
    BY <1>1
  <2> HIDE DEF t
  <2> QED
    BY <2>1, Begins
<1>5. unsold' = unsold
  BY <1>1 DEF InStock
<1> HIDE DEF unsold
<1>6. /\ t \in LotSales /\ t.op \in {"close", "bulk"} /\ (t.op = "bulk" => unsold # {})
      /\ t.todo = unsold /\ t.count = Cardinality(unsold) /\ t.lot = l
  BY <1>2, <1>3 DEF LotSales
<1> HIDE DEF t
<1>7. TaskReads'
  <2>1. task' = t /\ {d \in InStock' : device'[d].lot = t.lot} = unsold
    BY <1>4, <1>5, <1>6 DEF unsold
  <2> QED
    BY <1>6, <2>1 DEF TaskReads
<1>8. task' \in Tasks
  BY <1>4, <1>6 DEF Tasks
<1>9. device' \in [Devices -> DeviceRow]
  BY <1>1 DEF GoodsInv, GoodsTypeOK
<1> QED
  BY <1>1, <1>3, <1>4, <1>7, <1>8, <1>9, SameDevices, GoesOn

(* The device that is sold with its pallet leaves the rest as they are. *)
LEMMA PalletSaleStep ==
  ASSUME GoodsInv, SellNext
  PROVE  GoodsInv' /\ RecordsStand
<1>1. /\ task \in PalletSales /\ task.op = "sellPallet" /\ task # NoTask
      /\ task.todo = Standing(task.pallet) \cap InStock /\ Live(task.pallet)
  BY TaskOps DEF GoodsInv, GoodsTypeOK, TaskReads, SellNext, NoTask
<1>2. /\ task.pallet \in Ids /\ task.sale \in Nat /\ task.total \in Totals /\ task.count \in Nat
      /\ task.todo \subseteq Devices
  BY <1>1 DEF PalletSales
<1>3. PICK d \in task.todo :
        /\ device' = [device EXCEPT ![d] =
             SoldAs(d, task.sale, Share(task.total, task.count, task.todo = {d}), device[d].pallet, task.pallet)]
        /\ task' = [op |-> IF task.todo = {d} THEN "ship" ELSE "sellPallet", pallet |-> task.pallet,
                    todo |-> task.todo \ {d}, sale |-> task.sale, total |-> task.total, count |-> task.count]
  BY DEF SellNext, Then
<1>4. UNCHANGED <<vars, lot, sub, sales>> /\ Busy = {}
  BY <1>1 DEF SellNext, GoodsInv, TaskAlone
<1>5. d \in Devices /\ device[d].status = "in" /\ device[d].pallet \in Ids \cup {0} /\ device[d].pallet = task.pallet
  BY <1>1, <1>2, DeviceTypes DEF InStock, Standing, GoodsInv
<1> DEFINE row == SoldAs(d, task.sale, Share(task.total, task.count, task.todo = {d}), device[d].pallet, task.pallet)
<1>6. row \in DeviceRow /\ row.status = "sold" /\ row.pallet = device[d].pallet
  <2>1. Share(task.total, task.count, task.todo = {d}) \in Prices
    BY <1>1, <1>2, <1>3, ShareTypes DEF GoodsInv, TaskReads
  <2> QED
    BY <1>2, <1>5, <2>1, SoldRowType
<1> HIDE DEF row
<1>7. device' = [device EXCEPT ![d] = row] /\ device \in [Devices -> DeviceRow]
  BY <1>3 DEF row, GoodsInv, GoodsTypeOK
<1>8. /\ device' \in [Devices -> DeviceRow] /\ device'[d] = row
      /\ \A x \in Devices \ {d} : device'[x] = device[x]
  BY <1>5, <1>6, <1>7
<1>9. RecordsStand
  BY <1>5, <1>8 DEF RecordsStand
<1>11. /\ task' \in PalletSales /\ task'.op = (IF task.todo = {d} THEN "ship" ELSE "sellPallet")
       /\ task'.pallet = task.pallet /\ task'.todo = task.todo \ {d} /\ task'.count = task.count
  BY <1>1, <1>3 DEF PalletSales
<1>12. Live(task.pallet)'
  BY <1>1, <1>4, <1>11, SamePallets DEF Live, Exists
<1>13. TaskReads'
  <2>1. (Standing(task.pallet) \cap InStock)' = task.todo \ {d}
    BY <1>1, <1>5, <1>6, <1>8, <1>11 DEF Standing, Present, InStock
  <2>2. task.count # 0
    BY <1>1 DEF GoodsInv, TaskReads
  <2> QED
    BY <1>1, <1>11, <1>12, <2>1, <2>2 DEF TaskReads
<1>14. task' \in Tasks
  BY <1>11 DEF Tasks
<1>15. sales' \in Seq(SaleRow)
  BY <1>4 DEF GoodsInv, GoodsTypeOK
<1> QED
  BY <1>4, <1>8, <1>9, <1>13, <1>14, <1>15, GoesOn

LEMMA NoTaskLeft ==
  ASSUME GoodsInv, task' = NoTask
  PROVE  TaskReads' /\ task' \in Tasks
BY DEF TaskReads, Tasks, NoTask

LEMMA SaleEnds ==
  ASSUME GoodsInv, task \in PalletSales \cup LotSales, Ended
  PROVE  sales' \in Seq(SaleRow)
<1> DEFINE row == [total |-> task.total, units |-> task.count, ended |-> TRUE]
<1>1. row \in SaleRow
  BY DEF PalletSales, LotSales, SaleRow
<1>2. sales' = [sales EXCEPT ![task.sale] = row]
  BY DEF Ended
<1> HIDE DEF row
<1>3. Len(sales) \in Nat /\ DOMAIN sales = 1..Len(sales) /\ sales \in [1..Len(sales) -> SaleRow]
  BY LenProperties DEF GoodsInv, GoodsTypeOK
<1>4. sales' \in [1..Len(sales) -> SaleRow]
  BY <1>1, <1>2, <1>3
<1> QED
  BY <1>3, <1>4, SeqDef

LEMMA ShipStep ==
  ASSUME GoodsInv, Ship
  PROVE  GoodsInv' /\ RecordsStand
<1>1. task \in PalletSales /\ task # NoTask /\ Live(task.pallet) /\ Busy = {}
  BY TaskOps DEF GoodsInv, GoodsTypeOK, TaskAlone, TaskReads, Ship, NoTask
<1>2. /\ pallet' = [pallet EXCEPT ![task.pallet].status = "shipped"] /\ Ended /\ task' = NoTask
      /\ UNCHANGED <<line, sold, merges, booked, lock, req, world, made>> /\ device' = device
  BY <1>1 DEF Ship, Live, Then
<1> DEFINE row == [pallet[task.pallet] EXCEPT !.status = "shipped"]
<1>3. pallet[task.pallet] \in PalletRow /\ task.pallet \in Ids
  BY <1>1 DEF Live, Exists, GoodsInv, PalletInv, PalletTypeOK
<1>4. row \in PalletRow /\ row.status = "shipped"
  BY <1>3 DEF PalletRow, Statuses
<1>5. pallet' = [pallet EXCEPT ![task.pallet] = row]
  BY <1>2
<1> HIDE DEF row
<1>6. PalletInv' /\ Reads'
  BY <1>2, <1>3, <1>4, <1>5, OnePallet
<1>7. sales' \in Seq(SaleRow) /\ device' \in [Devices -> DeviceRow]
  BY <1>1, <1>2, SaleEnds DEF GoodsInv, GoodsTypeOK
<1> QED
  BY <1>1, <1>2, <1>6, <1>7, NoTaskLeft, SameDevices, TaskSteps

LEMMA CloseStep ==
  ASSUME GoodsInv, CloseLot
  PROVE  GoodsInv' /\ RecordsStand
<1>1. task \in LotSales /\ task # NoTask /\ Busy = {}
  BY TaskOps DEF GoodsInv, GoodsTypeOK, TaskAlone, CloseLot, NoTask
<1>2. Ended /\ task' = NoTask /\ UNCHANGED vars /\ device' = device
  BY DEF CloseLot, Then
<1>3. sales' \in Seq(SaleRow) /\ device' \in [Devices -> DeviceRow]
  BY <1>1, <1>2, SaleEnds DEF GoodsInv, GoodsTypeOK
<1> QED
  BY <1>1, <1>2, <1>3, NoTaskLeft, SameDevices, GoesOn

(* The task of a lot's sale, one statement on. *)
LEMMA LotTask ==
  ASSUME GoodsInv, task \in LotSales, NEW op \in {"price", "rest", "close"}, task' = [task EXCEPT !.op = op]
  PROVE  /\ task' \in LotSales /\ task'.op = op /\ task'.todo = task.todo /\ task'.sale = task.sale
         /\ task'.total = task.total /\ task'.count = task.count /\ task' \in Tasks
<1>1. /\ task' \in LotSales /\ task'.op = op /\ task'.todo = task.todo /\ task'.sale = task.sale
      /\ task'.total = task.total /\ task'.count = task.count
  BY DEF LotSales
<1> QED
  BY <1>1 DEF Tasks

LEMMA BulkStep ==
  ASSUME GoodsInv, Bulk
  PROVE  GoodsInv' /\ RecordsStand
<1>1. task \in LotSales /\ task # NoTask /\ Busy = {} /\ UNCHANGED <<vars, sales>>
  BY TaskOps DEF GoodsInv, GoodsTypeOK, TaskAlone, Bulk, NoTask
<1>2. /\ task.todo = {d \in InStock : device[d].lot = task.lot} /\ task.todo # {}
      /\ task.count = Cardinality(task.todo) /\ task.sale \in Nat
  <2>1. task.sale \in Nat
    BY <1>1 DEF LotSales
  <2>2. task.op = "bulk" /\ TaskReads
    BY DEF Bulk, GoodsInv
  <2> QED
    BY <2>1, <2>2 DEF TaskReads
<1>3. device' = [d \in Devices |->
        IF BulkSell(d) THEN SoldAs(d, task.sale, device[d].price, device[d].pallet, device[d].from) ELSE device[d]]
  BY DEF Bulk
<1>4. PICK op \in {"price", "close"} : task' = [task EXCEPT !.op = op] /\ (op = "price" => task.total # <<>>)
  BY DEF Bulk, Then
<1>5. ASSUME NEW d \in Devices
      PROVE  /\ device'[d] \in DeviceRow
             /\ d \in task.todo => device[d].status = "in" /\ device'[d].status = "sold" /\ device'[d].sale = task.sale
             /\ d \notin task.todo => device'[d] = device[d]
  <2>1. /\ device[d] \in DeviceRow /\ device[d].price \in Prices
        /\ device[d].pallet \in Ids \cup {0} /\ device[d].from \in Ids \cup {0}
    BY DeviceTypes DEF GoodsInv
  <2>2. BulkSell(d) <=> d \in task.todo
    BY <1>2 DEF BulkSell
  <2>3. d \in task.todo => device[d].status = "in"
    BY <1>2 DEF InStock
  <2>4. device'[d] = IF d \in task.todo THEN SoldAs(d, task.sale, device[d].price, device[d].pallet, device[d].from)
                     ELSE device[d]
    BY <1>3, <2>2
  <2> DEFINE row == SoldAs(d, task.sale, device[d].price, device[d].pallet, device[d].from)
  <2>5. row \in DeviceRow /\ row.status = "sold" /\ row.sale = task.sale
    <3>1. task.sale \in Nat
      BY <1>2
    <3> QED
      BY <2>1, <3>1, SoldRowType
  <2> HIDE DEF row
  <2>6. device'[d] = IF d \in task.todo THEN row ELSE device[d]
    BY <2>4 DEF row
  <2> QED
    BY <2>1, <2>3, <2>5, <2>6
<1>6. device' \in [Devices -> DeviceRow]
  BY <1>3, <1>5
<1>7. RecordsStand
  BY <1>5 DEF RecordsStand
<1>8. /\ task' \in LotSales /\ task'.op = op /\ task'.todo = task.todo /\ task'.sale = task.sale
      /\ task'.total = task.total /\ task'.count = task.count /\ task' \in Tasks
  BY <1>1, <1>4, LotTask
<1>9. \A d \in task.todo : device'[d].status = "sold" /\ device'[d].sale = task.sale
  BY <1>5, <1>2 DEF InStock
<1>10. TaskReads'
  BY <1>2, <1>4, <1>8, <1>9 DEF TaskReads
<1>11. sales' \in Seq(SaleRow)
  BY <1>1 DEF GoodsInv, GoodsTypeOK
<1> QED
  BY <1>1, <1>6, <1>7, <1>8, <1>10, <1>11, GoesOn

LEMMA PriceStep ==
  ASSUME GoodsInv, PriceAll \/ PriceRest
  PROVE  GoodsInv' /\ RecordsStand
<1>1. /\ task \in LotSales /\ task # NoTask /\ Busy = {} /\ UNCHANGED <<vars, sales>>
      /\ task.op \in {"price", "rest"}
  BY TaskOps DEF GoodsInv, GoodsTypeOK, TaskAlone, PriceAll, PriceRest, NoTask
<1>2. /\ task.todo # {} /\ task.count = Cardinality(task.todo) /\ task.total # <<>>
      /\ \A d \in task.todo : device[d].status = "sold" /\ device[d].sale = task.sale
      /\ task.op = "rest" => \A d \in task.todo : device[d].price = <<task.total[1] \div task.count>>
  <2>1. TaskReads
    BY DEF GoodsInv
  <2> QED
    BY <1>1, <2>1 DEF TaskReads
<1>3. task.todo \subseteq Devices /\ task.total \in Totals /\ task.count \in Nat
  BY <1>1 DEF LotSales
<1>4. task.count # 0
  BY <1>2, <1>3, CountOf
<1>5. task.total[1] \in Nat
  BY <1>2, <1>3, TotalTypes
<1>6. task.total[1] \div task.count \in Int /\ task.total[1] % task.count \in Int
  BY <1>3, <1>4, <1>5
<1>7. PICK op \in {"rest", "close"} :
        /\ task' = [task EXCEPT !.op = op]
        /\ device' = [d \in Devices |-> device'[d]]
        /\ \A d \in Devices :
             \/ device'[d] = device[d]
             \/ d \in task.todo /\ \E n \in Int : device'[d] = [device[d] EXCEPT !.price = <<n>>]
        /\ op = "rest" => \A d \in task.todo : device'[d].price = <<task.total[1] \div task.count>>
  <2>1. CASE PriceAll
    <3>1. device' = [d \in Devices |->
            IF d \in task.todo THEN [device[d] EXCEPT !.price = <<task.total[1] \div task.count>>] ELSE device[d]]
      BY <2>1 DEF PriceAll
    <3>2. task' = [task EXCEPT !.op = "rest"]
      BY <2>1 DEF PriceAll, Then
    <3>3. \A d \in task.todo : device'[d].price = <<task.total[1] \div task.count>>
      BY <1>3, <3>1, DeviceTypes DEF GoodsInv, DeviceRow
    <3> QED
      BY <1>6, <3>1, <3>2, <3>3
  <2>2. CASE PriceRest
    <3>1. PICK d \in task.todo : device' = [device EXCEPT ![d].price = <<@[1] + (task.total[1] % task.count)>>]
      BY <2>2 DEF PriceRest
    <3>2. device[d].price = <<task.total[1] \div task.count>>
      BY <1>2, <2>2 DEF PriceRest
    <3>3. device[d].price[1] + (task.total[1] % task.count) \in Int
      BY <1>6, <3>2
    <3>4. task' = [task EXCEPT !.op = "close"]
      BY <2>2 DEF PriceRest, Then
    <3>5. device \in [Devices -> DeviceRow]
      BY DEF GoodsInv, GoodsTypeOK
    <3> QED
      BY <1>3, <3>1, <3>3, <3>4, <3>5
  <2> QED
    BY <2>1, <2>2
<1>8. ASSUME NEW d \in Devices
      PROVE  /\ device'[d] \in DeviceRow
             /\ device'[d].status = device[d].status /\ device'[d].sale = device[d].sale
             /\ device'[d].pallet = device[d].pallet
             /\ d \notin task.todo => device'[d].price = device[d].price
  <2>1. device[d] \in DeviceRow
    BY DeviceTypes DEF GoodsInv
  <2>2. ASSUME NEW n \in Int, device'[d] = [device[d] EXCEPT !.price = <<n>>]
        PROVE  /\ device'[d] \in DeviceRow
               /\ device'[d].status = device[d].status /\ device'[d].sale = device[d].sale
               /\ device'[d].pallet = device[d].pallet
    BY <2>1, <2>2, OnePrice DEF DeviceRow
  <2> QED
    BY <1>7, <2>1, <2>2
<1>9. device' \in [Devices -> DeviceRow]
  BY <1>7, <1>8
<1>10. RecordsStand
  BY <1>1, <1>2, <1>8 DEF RecordsStand
<1>11. /\ task' \in LotSales /\ task'.op = op /\ task'.todo = task.todo /\ task'.sale = task.sale
       /\ task'.total = task.total /\ task'.count = task.count /\ task' \in Tasks
  BY <1>1, <1>7, LotTask
<1>12. TaskReads'
  BY <1>2, <1>3, <1>7, <1>8, <1>11 DEF TaskReads
<1>13. sales' \in Seq(SaleRow)
  BY <1>1 DEF GoodsInv, GoodsTypeOK
<1> QED
  BY <1>1, <1>9, <1>10, <1>11, <1>12, <1>13, GoesOn

-----------------------------------------------------------------------------
(* Returned devices. *)

LEMMA ReturnsBegin ==
  ASSUME GoodsInv, ReturnFromSold
  PROVE  GoodsInv' /\ RecordsStand
<1>1. PICK ds \in SUBSET (Present \ InStock), l \in LotsThere \cup {Nobody, "own"} :
        Start("return", [op |-> "return", todo |-> ds, lot |-> l, to |-> Nobody]) /\ UNCHANGED goods
  BY DEF ReturnFromSold
<1> DEFINE t == [op |-> "return", todo |-> ds, lot |-> l, to |-> Nobody]
<1>2. t \in Returns /\ t.op = "return"
  BY DEF Returns, Present, LotsThere
<1>3. Busy = {} /\ task' = t /\ UNCHANGED vars
  BY <1>1, Begins
<1> HIDE DEF t
<1>4. TaskReads' /\ task' \in Tasks
  BY <1>2, <1>3 DEF TaskReads, Tasks
<1> QED
  BY <1>1, <1>3, <1>4, SameRows, GoesOn

LEMMA ReturnStep ==
  ASSUME GoodsInv, ReturnNext
  PROVE  GoodsInv' /\ RecordsStand
<1>1. task \in Returns /\ task # NoTask /\ Busy = {} /\ UNCHANGED <<vars, sales>> /\ task.op = "return"
  BY TaskOps DEF GoodsInv, GoodsTypeOK, TaskAlone, ReturnNext, NoTask
<1>2. PICK d \in task.todo :
        /\ device' = [device EXCEPT ![d] = Back(d, Target(d))]
        /\ task' = [op |-> "reopen", todo |-> task.todo \ {d}, lot |-> task.lot, to |-> Target(d)]
  BY DEF ReturnNext, Then
<1>3. /\ d \in Devices /\ task.todo \subseteq Devices
      /\ task.lot \in Lots \cup {Nobody, "own"} /\ device \in [Devices -> DeviceRow]
  BY <1>1 DEF Returns, GoodsInv, GoodsTypeOK
<1>4. device[d].lot \in Lots \cup {Nobody} /\ device[d].sub \in Subs \cup {Nobody}
  BY <1>3, DeviceTypes DEF GoodsInv
<1>5. Target(d) \in Lots \cup {Nobody}
  BY <1>3, <1>4 DEF Target
<1>6. Back(d, Target(d)) \in DeviceRow /\ Back(d, Target(d)).status = "in" /\ Back(d, Target(d)).pallet = 0
  BY <1>4, <1>5, UnsoldRow DEF Back
<1>7. /\ device' \in [Devices -> DeviceRow] /\ device'[d].status = "in" /\ device'[d].pallet = 0
      /\ \A x \in Devices \ {d} : device'[x] = device[x]
  BY <1>2, <1>3, <1>6
<1>8. RecordsStand
  BY <1>1, <1>7 DEF RecordsStand
<1>9. task' \in Returns /\ task'.op = "reopen"
  BY <1>2, <1>3, <1>5 DEF Returns
<1>10. TaskReads' /\ task' \in Tasks
  BY <1>9 DEF TaskReads, Tasks
<1>11. sales' \in Seq(SaleRow)
  BY <1>1 DEF GoodsInv, GoodsTypeOK
<1> QED
  BY <1>1, <1>7, <1>8, <1>10, <1>11, GoesOn

LEMMA ReopenStep ==
  ASSUME GoodsInv, ReopenLot
  PROVE  GoodsInv' /\ RecordsStand
<1>1. task \in Returns /\ task # NoTask /\ Busy = {} /\ UNCHANGED <<vars, device, sales>>
  BY TaskOps DEF GoodsInv, GoodsTypeOK, TaskAlone, ReopenLot, NoTask
<1>2. task' = NoTask \/ task' = [task EXCEPT !.op = "return"]
  BY DEF ReopenLot, Then
<1>3. TaskReads' /\ task' \in Tasks
  <2>1. CASE task' = NoTask
    BY <2>1, NoTaskLeft
  <2>2. CASE task' = [task EXCEPT !.op = "return"]
    <3>1. task' \in Returns /\ task'.op = "return"
      BY <1>1, <2>2 DEF Returns
    <3> QED
      BY <3>1 DEF TaskReads, Tasks
  <2> QED
    BY <1>2, <2>1, <2>2
<1>4. device' \in [Devices -> DeviceRow] /\ sales' \in Seq(SaleRow)
  BY <1>1 DEF GoodsInv, GoodsTypeOK
<1> QED
  BY <1>1, <1>3, <1>4, SameDevices, GoesOn

LEMMA CrashStep ==
  ASSUME GoodsInv, Crash
  PROVE  GoodsInv' /\ RecordsStand
<1>1. task # NoTask /\ Busy = {} /\ UNCHANGED <<vars, goods>> /\ task' = NoTask
  BY DEF GoodsInv, TaskAlone, Crash, Then
<1> QED
  BY <1>1, NoTaskLeft, SameRows, GoesOn

-----------------------------------------------------------------------------
(* Counted goods beside the devices. *)

(* Nobody else has a pallet to itself. *)
LEMMA OthersPallets ==
  ASSUME GoodsInv, NEW q \in Requests, Request(q) \/ Step(q), NEW s \in Requests \ {q}
  PROVE  req'[s].op \notin Solo
BY BeginsBeside, StepsBeside DEF GoodsInv

LEMMA CountedStep ==
  ASSUME GoodsInv, NEW q \in Requests, Counted(q), NoDeviceOn(q)
  PROVE  GoodsInv' /\ RecordsStand
<1>1. Request(q) /\ task = NoTask /\ task' = NoTask /\ device' = device /\ sales' = sales
  BY DEF Counted, goodsVars
<1>2. PalletInv' /\ Reads'
  BY <1>1, PalletsStand DEF GoodsInv
<1>3. GoodsTypeOK'
  BY <1>1, NoTaskLeft DEF GoodsInv, GoodsTypeOK
<1>4. TaskReads' /\ TaskAlone'
  BY <1>1, NoTaskLeft DEF TaskAlone
<1>5. PalletsBare'
  <2>1. req'[q].op # "empty"
    BY <1>1, BeginsRead DEF GoodsInv, Firsts
  <2>2. \A p : Standing(p)' = Standing(p)
    BY <1>1, SameDevices
  <2>3. req'[q].op \in {"delete", "sellAll"} => Standing(req'[q].pallet) = {}
    BY DEF NoDeviceOn
  <2> SUFFICES ASSUME NEW s \in Requests, req'[s].op \in {"sellAll", "empty", "delete"}
               PROVE  \E p : p = req'[s].pallet /\ Standing(p)' = {}
    BY DEF PalletsBare, Standing, Present
  <2>4. s = q
    BY <1>1, OthersPallets DEF Solo
  <2> QED
    BY <2>1, <2>2, <2>3, <2>4
<1> QED
  BY <1>1, <1>2, <1>3, <1>4, <1>5, SameDevices DEF GoodsInv

(* A pallet that is deleted has no device to forget it. *)
LEMMA Forgets ==
  ASSUME GoodsInv, NEW q \in Requests, PalletStep(q)
  PROVE  /\ device' \in [Devices -> DeviceRow] /\ RecordsStand
         /\ req[q].op # "delete" => device' = device
<1>1. CASE req[q].op # "delete"
  <2>1. device' = device
    BY <1>1 DEF PalletStep
  <2> QED
    BY <2>1, SameDevices DEF GoodsInv, GoodsTypeOK
<1>2. CASE req[q].op = "delete"
  <2> DEFINE p == req[q].pallet
  <2>1. device' = [d \in Devices |-> Forgetting(d, p)]
    BY <1>2 DEF PalletStep
  <2>2. Standing(p) = {}
    BY <1>2 DEF GoodsInv, PalletsBare
  <2> HIDE DEF p
  <2>3. ASSUME NEW d \in Devices
        PROVE  /\ device'[d] \in DeviceRow
               /\ device[d].status = "sold" =>
                    /\ device'[d].status = "sold" /\ device'[d].sale = device[d].sale
                    /\ device'[d].pallet = device[d].pallet /\ device'[d].price = device[d].price
    <3>1. /\ device[d].status \in {"none", "in", "sold", "deleted"}
          /\ device[d].lot \in Lots \cup {Nobody} /\ device[d].sub \in Subs \cup {Nobody}
          /\ device[d].pallet \in Ids \cup {0} /\ device[d].from \in Ids \cup {0}
          /\ device[d].sale \in Nat /\ device[d].price \in Prices
      BY DeviceTypes DEF GoodsInv
    <3>2. device'[d] = Forgetting(d, p)
      BY <2>1
    <3>3. device[d].status = "sold" => device[d].pallet # p
      BY <2>2 DEF Standing, Present
    <3> QED
      BY <3>1, <3>2, <3>3 DEF DeviceRow, Forgetting
  <2>4. device' \in [Devices -> DeviceRow]
    BY <2>1, <2>3
  <2> QED
    BY <1>2, <2>3, <2>4 DEF RecordsStand
<1> QED
  BY <1>1, <1>2

LEMMA PalletStepGoods ==
  ASSUME GoodsInv, NEW q \in Requests, PalletStep(q)
  PROVE  GoodsInv' /\ RecordsStand
<1>1. Step(q) /\ UNCHANGED <<sales, task>>
  BY DEF PalletStep
<1>2. PalletInv' /\ Reads'
  BY <1>1, PalletsStand DEF GoodsInv
<1>3. device' \in [Devices -> DeviceRow] /\ RecordsStand /\ (req[q].op # "delete" => device' = device)
  BY Forgets
<1>4. GoodsTypeOK'
  BY <1>1, <1>3 DEF GoodsInv, GoodsTypeOK
<1>5. req[q] # Idle
  BY <1>1 DEF Idle, Step, Patch, Delete, Insert, Clear, ArchiveLine, Shrink, ArchiveNext, Empty, Put, Reopen,
              Stamp, LockRow, Refuse, Commit
<1>6. task = NoTask /\ task' = NoTask
  BY <1>1, <1>5 DEF GoodsInv, TaskAlone, Busy
<1>7. TaskReads' /\ TaskAlone'
  BY <1>6, NoTaskLeft DEF TaskAlone
<1>8. PalletsBare'
  <2>1. /\ req'[q].op # "delete"
        /\ req'[q].op \in {"sellAll", "empty"} => req[q].op = "sellAll" /\ req'[q].pallet = req[q].pallet
    BY <1>1, StepsRead DEF GoodsInv
  <2> SUFFICES ASSUME NEW s \in Requests, req'[s].op \in {"sellAll", "empty", "delete"}
               PROVE  \E p : p = req'[s].pallet /\ Standing(p)' = {}
    BY DEF PalletsBare, Standing, Present
  <2>2. s = q
    BY <1>1, OthersPallets DEF Solo
  <2>3. Standing(req[q].pallet) = {} /\ device' = device
    BY <1>3, <2>1, <2>2 DEF GoodsInv, PalletsBare
  <2> QED
    BY <2>1, <2>2, <2>3, SameDevices
<1> QED
  BY <1>2, <1>3, <1>4, <1>7, <1>8 DEF GoodsInv

LEMMA NextGoods ==
  ASSUME GoodsInv, [GoodsNext]_allVars
  PROVE  GoodsInv'
<1>1. CASE GoodsNext
  <2>1. Desk => GoodsInv'
    BY LotsStep, RemovesStep, DevicesStep, MovesBegin, TransferStep, SellStep, PalletSaleBegins, LotSaleBegins,
       ReturnsBegin DEF Desk
  <2>2. Statement => GoodsInv'
    BY MovesStep, PalletSaleStep, ShipStep, BulkStep, PriceStep, CloseStep, ReturnStep, ReopenStep DEF Statement
  <2> QED
    BY <1>1, <2>1, <2>2, CrashStep, CountedStep, PalletStepGoods DEF GoodsNext
<1>2. CASE UNCHANGED allVars
  <2>1. UNCHANGED vars /\ device' = device /\ task' = task /\ sales' = sales /\ req' = req
    BY <1>2 DEF allVars, goodsVars, vars
  <2>2. PalletInv' /\ Reads' /\ \A x : Live(x) => Live(x)'
    BY <2>1, SamePallets
  <2>3. InStock' = InStock /\ \A p : Standing(p)' = Standing(p)
    BY <2>1, SameDevices
  <2>4. GoodsTypeOK' /\ TaskAlone'
    BY <2>1 DEF GoodsInv, GoodsTypeOK, TaskAlone, Busy
  <2>5. TaskReads'
    <3>1. Live(task.pallet)' = Live(task.pallet)
      BY <2>1 DEF Live, Exists, vars
    <3>2. Standing(task.pallet)' = Standing(task.pallet)
      BY <2>1 DEF Standing, Present
    <3>3. TaskReads
      BY DEF GoodsInv
    <3> HIDE DEF Standing, Live, InStock
    <3> QED
      BY <2>1, <2>3, <3>1, <3>2, <3>3 DEF TaskReads
  <2>6. PalletsBare'
    BY <2>1, <2>3 DEF GoodsInv, PalletsBare, Standing
  <2> QED
    BY <2>2, <2>4, <2>5, <2>6 DEF GoodsInv
<1> QED
  BY <1>1, <1>2

LEMMA NextRecords ==
  ASSUME GoodsInv, GoodsNext
  PROVE  RecordsStand
<1>1. Desk => RecordsStand
  BY LotsStep, RemovesStep, DevicesStep, MovesBegin, TransferStep, SellStep, PalletSaleBegins, LotSaleBegins,
     ReturnsBegin DEF Desk
<1>2. Statement => RecordsStand
  BY MovesStep, PalletSaleStep, ShipStep, BulkStep, PriceStep, CloseStep, ReturnStep, ReopenStep DEF Statement
<1> QED
  BY <1>1, <1>2, CrashStep, CountedStep, PalletStepGoods DEF GoodsNext

-----------------------------------------------------------------------------
(* Theorems. *)

LEMMA GoodsHold == GoodsSpec => []GoodsInv
<1>1. GoodsInit => GoodsInv
  BY InitGoods
<1>2. GoodsInv /\ [GoodsNext]_allVars => GoodsInv'
  BY NextGoods
<1> QED
  BY <1>1, <1>2, PTL DEF GoodsSpec

(* Two merges never wait for each other: rows are locked in one order. *)
THEOREM MergesNeverWait == GoodsSpec => []MergesQueue
<1>1. GoodsInv => MergesQueue
  <2> SUFFICES ASSUME GoodsInv, NEW q \in Requests, NEW r \in Requests,
                      req[q].op = "lock", req[r].op = "lock",
                      lock[LockNext(req[q].todo, req[q])] = r, lock[LockNext(req[r].todo, req[r])] = q
               PROVE  FALSE
    BY DEF MergesQueue
  <2>1. PalletInv
    BY DEF GoodsInv
  <2> DEFINE x == LockNext(req[q].todo, req[q])
             y == LockNext(req[r].todo, req[r])
  <2>2. /\ req[q] \in Merges /\ req[q].todo # {} /\ req[q].todo \subseteq Ids
        /\ req[r] \in Merges /\ req[r].todo # {} /\ req[r].todo \subseteq Ids
    BY <2>1, ReqTypes, ReqOps DEF PalletInv, LocksRise, Merging, Merges
  <2>3. x \in req[q].todo /\ y \in req[r].todo
    BY <2>2, NextRow
  <2>4. x \in Ids /\ y \in Ids /\ lock[x] = r /\ lock[y] = q
    BY <2>2, <2>3
  <2> HIDE DEF x, y
  <2>5. x < y /\ y < x
    BY <2>1, <2>3, <2>4 DEF PalletInv, LocksRise
  <2> QED
    BY <2>4, <2>5 DEF Ids
<1> QED
  BY <1>1, GoodsHold, PTL

(* A sale never ships a pallet whose devices stay in stock, and counted goods are never sold from under a device. *)
THEOREM SalesShipWhole == GoodsSpec => []ShippedWhole
<1>1. GoodsInv => ShippedWhole
  BY DEF GoodsInv, TaskReads, PalletsBare, ShippedWhole
<1> QED
  BY <1>1, GoodsHold, PTL

(* A sold device keeps the record of its sale until it is returned or deleted. *)
THEOREM SoldStaysSold == GoodsSpec => SaleRecordStands
<1>1. GoodsInv /\ [GoodsNext]_allVars => [RecordsStand]_allVars
  BY NextRecords
<1>2. GoodsSpec => [][RecordsStand]_allVars
  BY <1>1, GoodsHold, PTL DEF GoodsSpec
<1> QED
  BY <1>2 DEF SaleRecordStands, RecordsStand

(* A merged pallet's row stays, and it is in no later merge. *)
Frozen ==
  \A p \in Ids : pallet[p].status = "merged" =>
    pallet'[p] = pallet[p] /\ \A m \in merges' \ merges : m[1] # p

LEMMA OneWritten ==
  ASSUME GoodsInv, NEW p, NEW row, pallet' = [pallet EXCEPT ![p] = row], Live(p) \/ p \in NewIds, merges' \subseteq merges
  PROVE  Frozen
<1>1. pallet \in [Ids -> PalletRow]
  BY DEF GoodsInv, PalletInv, PalletTypeOK
<1> QED
  BY <1>1 DEF Frozen, Live, NewIds

LEMMA RequestFreezes ==
  ASSUME GoodsInv, NEW q \in Requests, Request(q)
  PROVE  Frozen
<1>1. CASE Create(q) \/ CreateFromSpec(q)
  <2>1. PICK p \in NewIds : \E row : pallet' = [pallet EXCEPT ![p] = row]
    BY <1>1 DEF Create, CreateFromSpec
  <2>2. merges' = merges
    BY <1>1 DEF Create, CreateFromSpec
  <2> QED
    BY <2>1, <2>2, OneWritten
<1>2. ASSUME NEW r, Begin(q, r) PROVE UNCHANGED <<pallet, merges>>
  BY <1>2 DEF Begin, stock
<1>3. CASE UNCHANGED <<pallet, merges>>
  BY <1>3 DEF Frozen
<1>4. CASE UpdateLine(q) \/ RemoveLine(q)
  BY <1>3, <1>4 DEF UpdateLine, RemoveLine
<1>5. CASE Update(q) \/ RemovePallet(q)
  BY <1>2, <1>3, <1>5 DEF Update, RemovePallet
<1>6. CASE AddLine(q) \/ ReplaceSpec(q)
  BY <1>2, <1>3, <1>6 DEF AddLine, ReplaceSpec
<1>7. CASE SellLine(q)
  BY <1>2, <1>3, <1>7 DEF SellLine
<1>8. CASE SellPallet(q)
  BY <1>2, <1>3, <1>8 DEF SellPallet
<1>9. CASE Return(q)
  BY <1>2, <1>3, <1>9 DEF Return
<1>10. CASE Merge(q)
  BY <1>2, <1>3, <1>10 DEF Merge
<1> QED
  BY <1>1, <1>4, <1>5, <1>6, <1>7, <1>8, <1>9, <1>10 DEF Request

LEMMA StepFreezes ==
  ASSUME GoodsInv, NEW q \in Requests, Step(q)
  PROVE  Frozen
<1>1. req[q].op \in Solo => Live(req[q].pallet)
  BY DEF GoodsInv, PalletInv, OnlyLive
<1>2. CASE UNCHANGED <<pallet, merges>>
  BY <1>2 DEF Frozen
<1>3. CASE Patch(q) \/ Reopen(q)
  <2>1. Live(req[q].pallet) /\ Exists(req[q].pallet) /\ merges' = merges
    BY <1>1, <1>3 DEF Patch, Reopen, Solo, Live
  <2>2. \E row : pallet' = [pallet EXCEPT ![req[q].pallet] = row]
    BY <1>3, <2>1 DEF Patch, Reopen
  <2> QED
    BY <2>1, <2>2, OneWritten
<1>4. CASE Delete(q)
  <2>1. Live(req[q].pallet) /\ merges' \subseteq merges
    BY <1>1, <1>4 DEF Delete, Solo
  <2>2. pallet' = [pallet EXCEPT ![req[q].pallet] = [status |-> "deleted", layout |-> "none"]]
    BY <1>4 DEF Delete
  <2> QED
    BY <2>1, <2>2, OneWritten
<1>5. CASE Insert(q) \/ Clear(q) \/ ArchiveLine(q) \/ Shrink(q) \/ ArchiveNext(q) \/ Empty(q) \/ Put(q) \/ Stamp(q)
  BY <1>2, <1>5 DEF Insert, Clear, ArchiveLine, Shrink, ArchiveNext, Empty, Put, Stamp
<1>6. CASE LockRow(q) \/ Refuse(q)
  BY <1>2, <1>6 DEF LockRow, Refuse, stock
<1>7. CASE Commit(q)
  <2> DEFINE from == {req[q].pallet, req[q].second}
  <2>1. \A x \in from : pallet[x].status = "open"
    BY <1>7 DEF Commit, Mergeable
  <2>2. PICK new \in NewIds :
          /\ pallet' = [p \in Ids |->
                          IF p = new THEN [status |-> "open", layout |-> pallet[req[q].pallet].layout]
                          ELSE IF p \in from THEN [status |-> "merged", layout |-> pallet[p].layout]
                          ELSE pallet[p]]
          /\ merges' = merges \cup {<<p, new>> : p \in from}
    BY <1>7 DEF Commit
  <2> HIDE DEF from
  <2>3. pallet[new].status = "none"
    BY DEF NewIds
  <2>4. \A m \in merges' \ merges : m[1] \in from
    BY <2>2
  <2> QED
    BY <2>1, <2>2, <2>3, <2>4 DEF Frozen
<1> QED
  BY <1>3, <1>4, <1>5, <1>6, <1>7 DEF Step

LEMMA NextFreezes ==
  ASSUME GoodsInv, GoodsNext
  PROVE  Frozen
<1>1. CASE UNCHANGED vars
  BY <1>1 DEF vars, Frozen
<1>2. CASE TransferBatch
  <2>1. \E p \in NewIds : pallet' = [pallet EXCEPT ![p] = [status |-> "open", layout |-> "asset"]]
    BY <1>2 DEF TransferBatch
  <2> QED
    BY <1>2, <2>1, OneWritten DEF TransferBatch
<1>3. CASE Ship
  <2>1. Live(task.pallet)
    BY <1>3 DEF Ship, GoodsInv, TaskReads
  <2>2. pallet' = [pallet EXCEPT ![task.pallet].status = "shipped"] /\ merges' = merges
    BY <1>3, <2>1 DEF Ship, Live
  <2>3. \E row : pallet' = [pallet EXCEPT ![task.pallet] = row]
    BY <2>2
  <2> QED
    BY <2>1, <2>2, <2>3, OneWritten
<1>4. CASE Desk
  <2>1. CASE CreateLot \/ UpdateLot \/ RemoveLot \/ CreateSub \/ UpdateSub \/ RemoveSub
    BY <1>1, <2>1 DEF CreateLot, UpdateLot, RemoveLot, CreateSub, UpdateSub, RemoveSub, Write
  <2>2. CASE CreateDevice \/ UpdateDevice \/ RemoveDevice \/ Sell
    BY <1>1, <2>2 DEF CreateDevice, UpdateDevice, RemoveDevice, Sell, Write
  <2>3. CASE \E op, t : Start(op, t)
    BY <1>1, <2>3, Begins
  <2>4. CASE AddAssets \/ RemoveAssets \/ SellAssetPallet
    BY <2>3, <2>4 DEF AddAssets, RemoveAssets, SellAssetPallet
  <2>5. CASE SellBatch \/ ReturnFromSold
    BY <2>3, <2>5 DEF SellBatch, ReturnFromSold
  <2> QED
    BY <1>2, <1>4, <2>1, <2>2, <2>4, <2>5 DEF Desk
<1>5. CASE Statement
  BY <1>1, <1>3, <1>5 DEF Statement, AddNext, TakeNext, SellNext, Bulk, PriceAll, PriceRest, CloseLot, ReturnNext, ReopenLot
<1>6. CASE Crash
  BY <1>1, <1>6 DEF Crash
<1>7. CASE \E q \in Requests : Counted(q) /\ NoDeviceOn(q)
  BY <1>7, RequestFreezes DEF Counted
<1>8. CASE \E q \in Requests : PalletStep(q)
  BY <1>8, StepFreezes DEF PalletStep
<1> QED
  BY <1>4, <1>5, <1>6, <1>7, <1>8 DEF GoodsNext

(* A merged pallet is empty and frozen, and merged only once: where requests run one
   after the other, and where any number of merges run beside each other and beside
   one request on a line (merge, which decides again under its locks).  Nothing is said
   of a line added or a pallet edited while a merge runs, which MayBegin leaves out. *)
THEOREM MergedIsFinal == GoodsSpec => MergedForGood
<1>1. ASSUME GoodsInv, GoodsInv', [GoodsNext]_allVars
      PROVE  [\A p \in Ids : pallet[p].status = "merged" =>
                /\ On(p) = {} /\ On(p)' = {}
                /\ pallet'[p] = pallet[p]
                /\ \A m \in merges' \ merges : m[1] # p]_vars
  <2>1. CASE UNCHANGED allVars
    BY <2>1 DEF allVars
  <2>2. CASE GoodsNext
    <3> SUFFICES ASSUME NEW p \in Ids, pallet[p].status = "merged"
                 PROVE  /\ On(p) = {} /\ On(p)' = {}
                        /\ pallet'[p] = pallet[p]
                        /\ \A m \in merges' \ merges : m[1] # p
      OBVIOUS
    <3>1. Frozen
      BY <1>1, <2>2, NextFreezes
    <3>2. pallet'[p] = pallet[p] /\ \A m \in merges' \ merges : m[1] # p
      BY <3>1 DEF Frozen
    <3>3. p # 0
      BY DEF Ids
    <3>4. On(p) = {}
      BY <1>1, <3>3 DEF On, GoodsInv, PalletInv, OnlyLive, LinesLive, Live
    <3>5. LinesLive'
      BY <1>1 DEF GoodsInv, PalletInv, OnlyLive
    <3>6. On(p)' = {}
      BY <3>2, <3>3, <3>5 DEF On, LinesLive, Live
    <3> QED
      BY <3>2, <3>4, <3>6
  <2> QED
    BY <1>1, <2>1, <2>2
<1> QED
  BY <1>1, GoodsHold, PTL DEF GoodsSpec, MergedForGood

-----------------------------------------------------------------------------
(* The units of an item, as sums over the lines and over the archive. *)

Value(ln, ls, i, l) == IF l \in ls /\ ln[l].item = i THEN ln[l].qty ELSE 0

Sum(ln, ls, i) == SumTo([l \in DOMAIN ln |-> IF l \in ls /\ ln[l].item = i THEN ln[l].qty ELSE 0], Len(ln))

ArchiveValue(sd, i, s) == IF sd[s].item = i /\ ~sd[s].back THEN sd[s].qty ELSE 0

ArchiveSum(sd, i) == SumTo([s \in DOMAIN sd |-> IF sd[s].item = i /\ ~sd[s].back THEN sd[s].qty ELSE 0], Len(sd))

LEMMA SumsOf ==
  /\ \A ls, i : Units(ls, i) = Sum(line, ls, i)
  /\ \A i : Archived(i) = ArchiveSum(sold, i)
BY DEF Units, Sum, Archived, ArchiveSum

LEMMA ValueTypes ==
  ASSUME NEW ln \in Seq(LineRow)
  PROVE  /\ Len(ln) \in Nat /\ DOMAIN ln = 1..Len(ln)
         /\ \A l \in 1..Len(ln) : ln[l] \in LineRow /\ ln[l].qty \in Nat
         /\ \A ls, i : \A l \in 1..Len(ln) : Value(ln, ls, i, l) \in Nat
         /\ \A ls, i : Sum(ln, ls, i) \in Int
<1>1. /\ Len(ln) \in Nat /\ DOMAIN ln = 1..Len(ln)
      /\ \A l \in 1..Len(ln) : ln[l] \in LineRow /\ ln[l].qty \in Nat
  <2>1. /\ Len(ln) \in Nat /\ DOMAIN ln = 1..Len(ln)
        /\ \A l \in 1..Len(ln) : ln[l] \in LineRow
    BY LenProperties, ElementOfSeq
  <2>2. \A row \in LineRow : row.qty \in Nat
    BY DEF LineRow
  <2> QED
    BY <2>1, <2>2
<1>2. \A ls, i : \A l \in 1..Len(ln) : Value(ln, ls, i, l) \in Nat
  BY <1>1 DEF Value
<1>3. ASSUME NEW ls, NEW i PROVE Sum(ln, ls, i) \in Int
  <2> DEFINE g == [l \in DOMAIN ln |-> IF l \in ls /\ ln[l].item = i THEN ln[l].qty ELSE 0]
  <2>1. \A l \in 1..Len(ln) : g[l] \in Int
    BY <1>1
  <2> HIDE DEF g
  <2>2. SumTo(g, Len(ln)) \in Int
    BY <1>1, <2>1, SumInt
  <2> QED
    BY <2>2 DEF g, Sum
<1> QED
  BY <1>1, <1>2, <1>3

(* Lines with the same values have the same sum; one line with another value makes the difference. *)
LEMMA SameSum ==
  ASSUME NEW a \in Seq(LineRow), NEW b \in Seq(LineRow), Len(b) = Len(a), NEW S, NEW T, NEW i,
         \A l \in 1..Len(a) : Value(b, T, i, l) = Value(a, S, i, l)
  PROVE  Sum(b, T, i) = Sum(a, S, i)
<1> DEFINE g == [l \in DOMAIN a |-> IF l \in S /\ a[l].item = i THEN a[l].qty ELSE 0]
           h == [l \in DOMAIN b |-> IF l \in T /\ b[l].item = i THEN b[l].qty ELSE 0]
<1>1. Len(a) \in Nat /\ DOMAIN a = 1..Len(a) /\ DOMAIN b = 1..Len(a)
  BY ValueTypes
<1>2. \A l \in 1..Len(a) : h[l] = g[l]
  BY <1>1 DEF Value
<1>3. Sum(a, S, i) = SumTo(g, Len(a)) /\ Sum(b, T, i) = SumTo(h, Len(a))
  BY DEF Sum
<1> HIDE DEF g, h
<1> QED
  BY <1>1, <1>2, <1>3, SumSame

LEMMA OneLineSum ==
  ASSUME NEW a \in Seq(LineRow), NEW b \in Seq(LineRow), Len(b) = Len(a), NEW S, NEW T, NEW i,
         NEW j \in 1..Len(a), \A l \in 1..Len(a) : l # j => Value(b, T, i, l) = Value(a, S, i, l)
  PROVE  Sum(b, T, i) = Sum(a, S, i) + (Value(b, T, i, j) - Value(a, S, i, j))
<1> DEFINE g == [l \in DOMAIN a |-> IF l \in S /\ a[l].item = i THEN a[l].qty ELSE 0]
           h == [l \in DOMAIN b |-> IF l \in T /\ b[l].item = i THEN b[l].qty ELSE 0]
<1>1. Len(a) \in Nat /\ DOMAIN a = 1..Len(a) /\ DOMAIN b = 1..Len(a)
  BY ValueTypes
<1>2. \A l \in 1..Len(a) : h[l] = Value(b, T, i, l) /\ g[l] = Value(a, S, i, l)
  BY <1>1 DEF Value
<1>3. Sum(a, S, i) = SumTo(g, Len(a)) /\ Sum(b, T, i) = SumTo(h, Len(a))
  BY DEF Sum
<1> HIDE DEF g, h
<1>4. \A l \in 1..Len(a) : g[l] \in Int /\ h[l] \in Int /\ (l # j => h[l] = g[l])
  BY <1>2, ValueTypes
<1>5. SumTo(h, Len(a)) = SumTo(g, Len(a)) + (h[j] - g[j])
  BY <1>1, <1>4, SumChange
<1> QED
  BY <1>2, <1>3, <1>5

(* Two parts. *)
LEMMA SplitSum ==
  ASSUME NEW a \in Seq(LineRow), NEW S, NEW T, S \cap T = {}, NEW i
  PROVE  Sum(a, S \cup T, i) = Sum(a, S, i) + Sum(a, T, i)
<1> DEFINE g == [l \in DOMAIN a |-> IF l \in S /\ a[l].item = i THEN a[l].qty ELSE 0]
           d == [l \in DOMAIN a |-> IF l \in T /\ a[l].item = i THEN a[l].qty ELSE 0]
           h == [l \in DOMAIN a |-> IF l \in S \cup T /\ a[l].item = i THEN a[l].qty ELSE 0]
<1>1. /\ Len(a) \in Nat /\ DOMAIN a = 1..Len(a)
      /\ \A l \in 1..Len(a) : a[l].qty \in Nat
  BY ValueTypes
<1>2. \A l \in 1..Len(a) : g[l] \in Int /\ d[l] \in Int /\ h[l] = g[l] + d[l]
  BY <1>1
<1>3. Sum(a, S, i) = SumTo(g, Len(a)) /\ Sum(a, T, i) = SumTo(d, Len(a)) /\ Sum(a, S \cup T, i) = SumTo(h, Len(a))
  BY DEF Sum
<1> HIDE DEF g, d, h
<1> QED
  BY <1>1, <1>2, <1>3, SumPlus

LEMMA NoSum ==
  ASSUME NEW a \in Seq(LineRow), NEW S, NEW i, \A l \in 1..Len(a) : Value(a, S, i, l) = 0
  PROVE  Sum(a, S, i) = 0
<1> DEFINE g == [l \in DOMAIN a |-> IF l \in S /\ a[l].item = i THEN a[l].qty ELSE 0]
<1>1. Len(a) \in Nat /\ DOMAIN a = 1..Len(a)
  BY ValueTypes
<1>2. \A l \in 1..Len(a) : g[l] = 0
  BY <1>1 DEF Value
<1>3. Sum(a, S, i) = SumTo(g, Len(a))
  BY DEF Sum
<1> HIDE DEF g
<1> QED
  BY <1>1, <1>2, <1>3, SumZero

(* One more line. *)
LEMMA NextSum ==
  ASSUME NEW a \in Seq(LineRow), NEW row \in LineRow, NEW S, NEW T, NEW i,
         \A l \in 1..Len(a) : l \in T <=> l \in S, Len(a) + 1 \in T
  PROVE  Sum(Append(a, row), T, i) = Sum(a, S, i) + (IF row.item = i THEN row.qty ELSE 0)
<1> DEFINE n == Len(a)
           b == Append(a, row)
           g == [l \in DOMAIN a |-> IF l \in S /\ a[l].item = i THEN a[l].qty ELSE 0]
           h == [l \in DOMAIN b |-> IF l \in T /\ b[l].item = i THEN b[l].qty ELSE 0]
<1>1. /\ n \in Nat /\ DOMAIN a = 1..n
      /\ Len(b) = n + 1 /\ DOMAIN b = 1..(n + 1) /\ b[n + 1] = row
      /\ \A l \in 1..n : b[l] = a[l]
  BY LenProperties, AppendProperties
<1>2. /\ \A l \in 1..n : h[l] = g[l]
      /\ h[n + 1] = IF row.item = i THEN row.qty ELSE 0
  BY <1>1
<1>3. Sum(a, S, i) = SumTo(g, n) /\ Sum(b, T, i) = SumTo(h, n + 1)
  BY <1>1 DEF Sum
<1> HIDE DEF g, h, n
<1>4. SumTo(h, n + 1) = SumTo(h, n) + h[n + 1]
  BY <1>1, SumNext
<1>5. SumTo(h, n) = SumTo(g, n)
  BY <1>1, <1>2, SumSame
<1> QED
  BY <1>2, <1>3, <1>4, <1>5

(* The archive. *)
LEMMA ArchiveTypes ==
  ASSUME NEW sd \in Seq(SoldRow)
  PROVE  /\ Len(sd) \in Nat /\ DOMAIN sd = 1..Len(sd)
         /\ \A s \in 1..Len(sd) : sd[s] \in SoldRow /\ sd[s].qty \in Nat
         /\ \A i : ArchiveSum(sd, i) \in Int
<1>1. /\ Len(sd) \in Nat /\ DOMAIN sd = 1..Len(sd)
      /\ \A s \in 1..Len(sd) : sd[s] \in SoldRow /\ sd[s].qty \in Nat
  <2>1. /\ Len(sd) \in Nat /\ DOMAIN sd = 1..Len(sd)
        /\ \A s \in 1..Len(sd) : sd[s] \in SoldRow
    BY LenProperties, ElementOfSeq
  <2>2. \A row \in SoldRow : row.qty \in Nat
    BY DEF SoldRow
  <2> QED
    BY <2>1, <2>2
<1>2. ASSUME NEW i PROVE ArchiveSum(sd, i) \in Int
  <2> DEFINE g == [s \in DOMAIN sd |-> IF sd[s].item = i /\ ~sd[s].back THEN sd[s].qty ELSE 0]
  <2>1. \A s \in 1..Len(sd) : g[s] \in Int
    BY <1>1
  <2> HIDE DEF g
  <2>2. SumTo(g, Len(sd)) \in Int
    BY <1>1, <2>1, SumInt
  <2> QED
    BY <2>2 DEF g, ArchiveSum
<1> QED
  BY <1>1, <1>2

LEMMA ArchiveNextSum ==
  ASSUME NEW a \in Seq(SoldRow), NEW row \in SoldRow, ~row.back, NEW i
  PROVE  ArchiveSum(Append(a, row), i) = ArchiveSum(a, i) + (IF row.item = i THEN row.qty ELSE 0)
<1> DEFINE n == Len(a)
           b == Append(a, row)
           g == [s \in DOMAIN a |-> IF a[s].item = i /\ ~a[s].back THEN a[s].qty ELSE 0]
           h == [s \in DOMAIN b |-> IF b[s].item = i /\ ~b[s].back THEN b[s].qty ELSE 0]
<1>1. /\ n \in Nat /\ DOMAIN a = 1..n
      /\ Len(b) = n + 1 /\ DOMAIN b = 1..(n + 1) /\ b[n + 1] = row
      /\ \A s \in 1..n : b[s] = a[s]
  BY LenProperties, AppendProperties
<1>2. /\ \A s \in 1..n : h[s] = g[s]
      /\ h[n + 1] = IF row.item = i THEN row.qty ELSE 0
  BY <1>1
<1>3. ArchiveSum(a, i) = SumTo(g, n) /\ ArchiveSum(b, i) = SumTo(h, n + 1)
  BY <1>1 DEF ArchiveSum
<1> HIDE DEF g, h, n
<1>4. SumTo(h, n + 1) = SumTo(h, n) + h[n + 1]
  BY <1>1, SumNext
<1>5. SumTo(h, n) = SumTo(g, n)
  BY <1>1, <1>2, SumSame
<1> QED
  BY <1>2, <1>3, <1>4, <1>5

LEMMA SameArchive ==
  ASSUME NEW a \in Seq(SoldRow), NEW b \in Seq(SoldRow), Len(b) = Len(a), NEW i,
         \A s \in 1..Len(a) : b[s].item = a[s].item /\ b[s].qty = a[s].qty /\ b[s].back = a[s].back
  PROVE  ArchiveSum(b, i) = ArchiveSum(a, i)
<1> DEFINE g == [s \in DOMAIN a |-> IF a[s].item = i /\ ~a[s].back THEN a[s].qty ELSE 0]
           h == [s \in DOMAIN b |-> IF b[s].item = i /\ ~b[s].back THEN b[s].qty ELSE 0]
<1>1. Len(a) \in Nat /\ DOMAIN a = 1..Len(a) /\ DOMAIN b = 1..Len(a)
  BY ArchiveTypes
<1>2. \A s \in 1..Len(a) : h[s] = g[s]
  BY <1>1
<1>3. ArchiveSum(a, i) = SumTo(g, Len(a)) /\ ArchiveSum(b, i) = SumTo(h, Len(a))
  BY DEF ArchiveSum
<1> HIDE DEF g, h
<1> QED
  BY <1>1, <1>2, <1>3, SumSame

(* A sold row comes back. *)
LEMMA BackArchive ==
  ASSUME NEW a \in Seq(SoldRow), NEW b \in Seq(SoldRow), Len(b) = Len(a), NEW j \in DOMAIN a, ~a[j].back, b[j].back,
         \A s \in DOMAIN a : s # j => b[s] = a[s], NEW i
  PROVE  ArchiveSum(b, i) = ArchiveSum(a, i) - (IF a[j].item = i THEN a[j].qty ELSE 0)
<1> DEFINE n == Len(a)
           g == [s \in DOMAIN a |-> IF a[s].item = i /\ ~a[s].back THEN a[s].qty ELSE 0]
           h == [s \in DOMAIN b |-> IF b[s].item = i /\ ~b[s].back THEN b[s].qty ELSE 0]
<1>1. /\ n \in Nat /\ DOMAIN a = 1..n
      /\ \A s \in 1..n : a[s].qty \in Nat
  BY ArchiveTypes
<1>2. /\ DOMAIN b = 1..n
      /\ \A s \in 1..n : b[s].qty \in Nat
  BY ArchiveTypes
<1>3. /\ \A s \in 1..n : g[s] \in Int
      /\ \A s \in 1..n : h[s] \in Int
      /\ \A s \in 1..n : s # j => h[s] = g[s]
      /\ h[j] = 0 /\ g[j] = IF a[j].item = i THEN a[j].qty ELSE 0
  <2>1. \A s \in 1..n : g[s] \in Int
    BY <1>1
  <2>2. \A s \in 1..n : h[s] \in Int
    BY <1>2
  <2>3. \A s \in 1..n : s # j => h[s] = g[s]
    BY <1>1, <1>2
  <2> QED
    BY <1>1, <1>2, <2>1, <2>2, <2>3
<1>4. ArchiveSum(a, i) = SumTo(g, n) /\ ArchiveSum(b, i) = SumTo(h, n)
  BY DEF ArchiveSum
<1>5. j \in 1..n
  BY <1>1
<1> HIDE DEF g, h, n
<1>6. SumTo(h, n) = SumTo(g, n) + (h[j] - g[j])
  BY <1>1, <1>3, <1>5, SumChange
<1>7. SumTo(g, n) \in Int
  BY <1>1, <1>3, SumInt
<1> QED
  BY <1>3, <1>4, <1>5, <1>6, <1>7

-----------------------------------------------------------------------------
(* Stock is conserved. *)

(* What there is beyond what was booked in. *)
Balance(i) == Units(OnPallets, i) + Archived(i) - booked[i]

GoneLines(q) == {l \in On(req[q].pallet) : \A t \in req[q].todo : t.line # l}

(* Goods that a request has in two places: in the archive and still on their line, or back on a line and still sold. *)
Moving == {"shrink", "reopen", "stamp"}
Archiving == {"sellAll", "empty"}

Surplus(q, i) ==
  IF req[q].op \in Moving THEN IF req[q].item = i THEN req[q].qty ELSE 0
  ELSE IF req[q].op \in Archiving THEN Units(GoneLines(q), i) ELSE 0

Owes(q) == req[q].op \in Moving \cup Archiving

Balanced ==
  /\ \A q \in Requests : Owes(q) => \A i \in Items : Balance(i) = Surplus(q, i)
  /\ (\A q \in Requests : ~Owes(q)) => \A i \in Items : Balance(i) = 0

LEMMA OneOwes ==
  ASSUME NEW q \in Requests, \A s \in Requests \ {q} : ~Owes(s), Balanced
  PROVE  \A i \in Items : Balance(i) = Surplus(q, i)
BY DEF Balanced, Owes, Surplus

LEMMA OneOwesNext ==
  ASSUME NEW q \in Requests, \A s \in Requests \ {q} : ~Owes(s)', \A i \in Items : Balance(i)' = Surplus(q, i)'
  PROVE  Balanced'
BY DEF Balanced, Owes, Surplus

LEMMA InitBalanced ==
  ASSUME GoodsInit
  PROVE  Balanced
<1>1. req = [q \in Requests |-> Idle] /\ Idle.op = "idle"
  BY DEF GoodsInit, Init, Idle
<1>2. \A q \in Requests : ~Owes(q)
  BY <1>1 DEF Owes, Moving, Archiving
<1>3. GoodsInv
  BY InitGoods
<1>4. line \in Seq(LineRow)
  BY <1>3 DEF GoodsInv, PalletInv, PalletTypeOK
<1>5. sold = <<>>
  BY DEF GoodsInit, Init
<1>6. ASSUME NEW i \in Items PROVE Balance(i) = 0
  <2>1. Archived(i) = 0
    <3>1. Len(sold) = 0
      BY <1>5
    <3> QED
      BY <3>1, SumNone DEF Archived
  <2>2. booked[i] = Units(DOMAIN line, i)
    <3>1. CASE shift.ops = {}
      BY <3>1 DEF GoodsInit, Init
    <3>2. CASE shift.ops # {}
      <4>1. line = <<>> /\ booked[i] = 0
        BY <3>2 DEF GoodsInit
      <4>2. Len(line) = 0
        BY <4>1
      <4> QED
        BY <4>1, <4>2, SumNone DEF Units
    <3> QED
      BY <3>1, <3>2
  <2>3. \A l \in DOMAIN line : line[l].pallet # 0
    <3>1. CASE shift.ops = {}
      <4>1. line \in Seq([pallet : 1..Pallets, item : Items, qty : Nat])
        BY <3>1, StockAssumption DEF GoodsInit, Init
      <4>2. \A l \in DOMAIN line : line[l] \in [pallet : 1..Pallets, item : Items, qty : Nat]
        BY <4>1, LenProperties, ElementOfSeq
      <4> QED
        BY <4>2, StockAssumption
    <3>2. CASE shift.ops # {}
      BY <3>2 DEF GoodsInit
    <3> QED
      BY <3>1, <3>2
  <2>4. OnPallets = DOMAIN line
    BY <2>3 DEF OnPallets
  <2>5. Units(OnPallets, i) \in Int
    BY <1>4, UnitsInt
  <2> QED
    BY <2>1, <2>2, <2>4, <2>5 DEF Balance
<1> QED
  BY <1>2, <1>6 DEF Balanced

(* What there is on the pallets, after lines go, are set, come, or move. *)
LEMMA DropUnits ==
  ASSUME line \in Seq(LineRow), NEW ls, ls \subseteq OnPallets, Drop(ls), NEW i
  PROVE  Units(OnPallets, i)' = Units(OnPallets, i) - Units(ls, i)
<1>1. /\ line' \in Seq(LineRow) /\ DOMAIN line' = DOMAIN line /\ Len(line') = Len(line)
      /\ \A l \in DOMAIN line :
           /\ line'[l].item = line[l].item /\ line'[l].qty = line[l].qty
           /\ line'[l].pallet = IF l \in ls THEN 0 ELSE line[l].pallet
  BY DropLines
<1>2. OnPallets' = OnPallets \ ls
  BY <1>1 DEF OnPallets
<1>3. DOMAIN line = 1..Len(line) /\ Sum(line, OnPallets \ ls, i) \in Int /\ Sum(line, ls, i) \in Int
  BY ValueTypes
<1>4. Sum(line', OnPallets', i) = Sum(line, OnPallets \ ls, i)
  <2>1. \A l \in 1..Len(line) : Value(line', OnPallets', i, l) = Value(line, OnPallets \ ls, i, l)
    BY <1>1, <1>2, <1>3 DEF Value
  <2> DEFINE b == line'
             T == OnPallets'
             S == OnPallets \ ls
  <2>2. b \in Seq(LineRow) /\ Len(b) = Len(line) /\ \A l \in 1..Len(line) : Value(b, T, i, l) = Value(line, S, i, l)
    BY <1>1, <2>1
  <2> HIDE DEF b, T, S
  <2>3. Sum(b, T, i) = Sum(line, S, i)
    BY <2>2, SameSum
  <2> QED
    BY <2>3 DEF b, T, S
<1>5. Sum(line, OnPallets, i) = Sum(line, OnPallets \ ls, i) + Sum(line, ls, i)
  <2>1. (OnPallets \ ls) \cap ls = {} /\ (OnPallets \ ls) \cup ls = OnPallets
    OBVIOUS
  <2>2. Sum(line, (OnPallets \ ls) \cup ls, i) = Sum(line, OnPallets \ ls, i) + Sum(line, ls, i)
    BY <2>1, SplitSum
  <2> QED
    BY <2>1, <2>2
<1>6. Units(OnPallets, i)' = Sum(line', OnPallets', i)
  BY DEF Units, Sum
<1> QED
  BY <1>3, <1>4, <1>5, <1>6, SumsOf

LEMMA SetUnits ==
  ASSUME line \in Seq(LineRow), NEW l \in OnPallets, NEW n \in Nat, SetQty(l, n), NEW i
  PROVE  Units(OnPallets, i)' = Units(OnPallets, i) + (IF line[l].item = i THEN n - line[l].qty ELSE 0)
<1>1. l \in DOMAIN line /\ DOMAIN line = 1..Len(line) /\ line[l].qty \in Nat
  BY ValueTypes DEF OnPallets
<1>2. /\ line' \in Seq(LineRow) /\ DOMAIN line' = DOMAIN line /\ Len(line') = Len(line)
      /\ line'[l].qty = n
      /\ \A k \in DOMAIN line :
           /\ line'[k].item = line[k].item /\ line'[k].pallet = line[k].pallet
           /\ k # l => line'[k].qty = line[k].qty
  BY <1>1, SetQuantity
<1>3. OnPallets' = OnPallets
  BY <1>2 DEF OnPallets
<1>4. /\ \A k \in 1..Len(line) : k # l => Value(line', OnPallets', i, k) = Value(line, OnPallets, i, k)
      /\ Value(line', OnPallets', i, l) = (IF line[l].item = i THEN n ELSE 0)
      /\ Value(line, OnPallets, i, l) = (IF line[l].item = i THEN line[l].qty ELSE 0)
  BY <1>1, <1>2, <1>3 DEF Value
<1>5. Sum(line', OnPallets', i) = Sum(line, OnPallets, i) + (Value(line', OnPallets', i, l) - Value(line, OnPallets, i, l))
  BY <1>1, <1>2, <1>4, OneLineSum
<1>6. Units(OnPallets, i)' = Sum(line', OnPallets', i)
  BY DEF Units, Sum
<1>7. Sum(line, OnPallets, i) \in Int
  BY ValueTypes
<1> QED
  BY <1>1, <1>4, <1>5, <1>6, <1>7, SumsOf

LEMMA AddUnits ==
  ASSUME line \in Seq(LineRow), NEW row \in LineRow, row.pallet # 0, line' = Append(line, row), NEW i
  PROVE  Units(OnPallets, i)' = Units(OnPallets, i) + (IF row.item = i THEN row.qty ELSE 0)
<1>1. /\ DOMAIN line' = DOMAIN line \cup {Len(line) + 1} /\ Len(line) + 1 \notin DOMAIN line
      /\ line'[Len(line) + 1] = row
      /\ \A l \in DOMAIN line : line'[l] = line[l]
  BY AddedLine
<1>2. OnPallets' = OnPallets \cup {Len(line) + 1} /\ Len(line) + 1 \notin OnPallets
  BY <1>1 DEF OnPallets
<1>3. Len(line) + 1 \notin 1..Len(line)
  BY ValueTypes
<1>4. Sum(line', OnPallets', i) = Sum(line, OnPallets, i) + (IF row.item = i THEN row.qty ELSE 0)
  <2> DEFINE b == line'
             T == OnPallets'
  <2>1. b = Append(line, row) /\ Len(line) + 1 \in T /\ \A l \in 1..Len(line) : l \in T <=> l \in OnPallets
    BY <1>2, <1>3
  <2> HIDE DEF b, T
  <2>2. Sum(Append(line, row), T, i) = Sum(line, OnPallets, i) + (IF row.item = i THEN row.qty ELSE 0)
    BY <2>1, NextSum
  <2> QED
    BY <2>1, <2>2 DEF b, T
<1>5. Units(OnPallets, i)' = Sum(line', OnPallets', i)
  BY DEF Units, Sum
<1> QED
  BY <1>4, <1>5, SumsOf

(* The archive. *)
LEMMA ArchiveAdds ==
  ASSUME PalletInv, NEW p \in Ids, NEW r, r.item \in Items, r.qty \in Nat, sold' = Append(sold, Row(p, r)), NEW i
  PROVE  Archived(i)' = Archived(i) + (IF r.item = i THEN r.qty ELSE 0)
<1>1. Row(p, r) \in SoldRow /\ ~Row(p, r).back /\ Row(p, r).item = r.item /\ Row(p, r).qty = r.qty
  BY StockAssumption DEF Row, SoldRow, Ids
<1>2. sold \in Seq(SoldRow)
  BY DEF PalletInv, PalletTypeOK
<1>3. ArchiveSum(sold', i) = ArchiveSum(sold, i) + (IF Row(p, r).item = i THEN Row(p, r).qty ELSE 0)
  <2> DEFINE b == sold'
             row == Row(p, r)
  <2>1. b = Append(sold, row) /\ row \in SoldRow /\ ~row.back
    BY <1>1
  <2> HIDE DEF b, row
  <2>2. ArchiveSum(Append(sold, row), i) = ArchiveSum(sold, i) + (IF row.item = i THEN row.qty ELSE 0)
    BY <1>2, <2>1, ArchiveNextSum
  <2> QED
    BY <2>1, <2>2 DEF b, row
<1>4. Archived(i)' = ArchiveSum(sold', i)
  BY DEF Archived, ArchiveSum
<1> QED
  BY <1>1, <1>3, <1>4, SumsOf

(* Numbers. *)
LEMMA BalanceTypes ==
  ASSUME PalletInv
  PROVE  /\ line \in Seq(LineRow) /\ sold \in Seq(SoldRow)
         /\ \A i \in Items : booked[i] \in Int
         /\ \A i : Archived(i) \in Int
         /\ \A ls, i : Units(ls, i) \in Int
<1>1. line \in Seq(LineRow) /\ sold \in Seq(SoldRow) /\ booked \in [Items -> Int]
  BY DEF PalletInv, PalletTypeOK
<1> QED
  BY <1>1, SumsOf, ValueTypes, ArchiveTypes

LEMMA SameBalance ==
  ASSUME UNCHANGED <<line, sold, booked>>, NEW i
  PROVE  Balance(i)' = Balance(i)
BY DEF Balance, Units, OnPallets, Archived

(* Others do not owe while this request has something of its own. *)
LEMMA OthersOwe ==
  ASSUME PalletInv, PalletInv', NEW q \in Requests, Request(q) \/ Step(q),
         req[q].op \in Solo \cup OnLine \/ req'[q].op \in Solo
  PROVE  \A s \in Requests \ {q} : ~Owes(s) /\ ~Owes(s)'
<1> SUFFICES ASSUME NEW s \in Requests \ {q} PROVE ~Owes(s) /\ ~Owes(s)'
  OBVIOUS
<1>1. req'[s] = req[s] /\ Idle.op = "idle"
  BY BeginsBeside, StepsBeside DEF Idle
<1>2. req[s].op \in Merging \cup {"idle"}
  <2>1. CASE req[q].op \in Solo
    BY <1>1, <2>1 DEF PalletInv, Beside
  <2>2. CASE req[q].op \in OnLine
    BY <2>2 DEF PalletInv, Beside
  <2>3. CASE req'[q].op \in Solo
    BY <1>1, <2>3 DEF PalletInv, Beside
  <2> QED
    BY <2>1, <2>2, <2>3
<1> QED
  BY <1>1, <1>2 DEF Owes, Moving, Archiving, Merging

(* What does not touch the balance. *)
LEMMA Bystander ==
  ASSUME PalletInv, Balanced, NEW q \in Requests, Request(q) \/ Step(q), ~Owes(q), ~Owes(q)',
         \A i \in Items : Balance(i)' = Balance(i)
  PROVE  Balanced'
<1>1. \A s \in Requests \ {q} : req'[s] = req[s] /\ req[s].op \notin Solo
  BY BeginsBeside, StepsBeside
<1>2. \A s \in Requests : Owes(s)' <=> Owes(s)
  BY <1>1 DEF Owes
<1>3. \A s \in Requests, i \in Items : Owes(s) => Surplus(s, i)' = Surplus(s, i)
  BY <1>1 DEF Owes, Surplus, Solo, Moving, Archiving
<1> QED
  BY <1>2, <1>3 DEF Balanced

LEMMA OneUnits ==
  ASSUME line \in Seq(LineRow), NEW l \in DOMAIN line, NEW i
  PROVE  Units({l}, i) = IF line[l].item = i THEN line[l].qty ELSE 0
<1> DEFINE g == [k \in DOMAIN line |-> IF k \in {l} /\ line[k].item = i THEN line[k].qty ELSE 0]
<1>1. /\ Len(line) \in Nat /\ DOMAIN line = 1..Len(line)
      /\ \A k \in 1..Len(line) : line[k].qty \in Nat
  BY ValueTypes
<1>2. /\ \A k \in 1..Len(line) : g[k] \in Int /\ (k # l => g[k] = 0)
      /\ g[l] = IF line[l].item = i THEN line[l].qty ELSE 0
  BY <1>1
<1>3. Units({l}, i) = SumTo(g, Len(line))
  BY DEF Units
<1> HIDE DEF g
<1>4. l \in 1..Len(line)
  BY <1>1
<1>5. SumTo(g, Len(line)) = g[l]
  BY <1>1, <1>2, <1>4, SumOne
<1> QED
  BY <1>2, <1>3, <1>5

LEMMA NoUnits ==
  ASSUME line \in Seq(LineRow), NEW ls, \A l \in DOMAIN line : l \in ls => line[l].qty = 0, NEW i
  PROVE  Units(ls, i) = 0
<1>1. \A l \in 1..Len(line) : Value(line, ls, i, l) = 0
  BY ValueTypes DEF Value
<1>2. Sum(line, ls, i) = 0
  BY <1>1, NoSum
<1> QED
  BY <1>2, SumsOf

LEMMA TwoUnits ==
  ASSUME line \in Seq(LineRow), NEW S, NEW T, S \cap T = {}, NEW i
  PROVE  Units(S \cup T, i) = Units(S, i) + Units(T, i)
BY SplitSum, SumsOf

(* Goods that are taken out and booked out. *)
LEMMA DropBalance ==
  ASSUME PalletInv, NEW ls, ls \subseteq OnPallets, Drop(ls), BookOut(ls), \A i \in Items : Archived(i)' = Archived(i)
  PROVE  \A i \in Items : Balance(i)' = Balance(i)
<1> SUFFICES ASSUME NEW i \in Items PROVE Balance(i)' = Balance(i)
  OBVIOUS
<1>1. booked'[i] = booked[i] - Units(ls, i)
  BY DEF BookOut
<1>2. Units(OnPallets, i)' = Units(OnPallets, i) - Units(ls, i)
  BY BalanceTypes, DropUnits
<1>3. booked[i] \in Int /\ Archived(i) \in Int /\ Units(ls, i) \in Int /\ Units(OnPallets, i) \in Int
  BY BalanceTypes
<1> QED
  BY <1>1, <1>2, <1>3 DEF Balance

LEMMA OnIsOn ==
  ASSUME NEW p \in Ids
  PROVE  On(p) \subseteq OnPallets
BY DEF On, OnPallets, Ids

(* Requests, as they begin. *)
LEMMA RequestBalance ==
  ASSUME PalletInv, Reads, Balanced, NEW q \in Requests, Request(q)
  PROVE  Balanced'
<1>1. PalletInv' /\ line \in Seq(LineRow) /\ Idle.op = "idle"
  BY PalletsStand DEF PalletInv, PalletTypeOK, Idle
<1>2. ASSUME NEW op, MayBegin(q, op) PROVE ~Owes(q)
  BY <1>1, <1>2 DEF MayBegin, Owes, Moving, Archiving
<1>3. req'[q].op \in Firsts
  BY BeginsRead
<1>4. ~Owes(q)' \/ req'[q].op = "sellAll"
  BY <1>3 DEF Owes, Moving, Archiving, Firsts
<1>5. CASE UNCHANGED <<line, sold, booked>> /\ ~Owes(q) /\ ~Owes(q)'
  BY <1>5, SameBalance, Bystander
<1>6. ASSUME NEW r, Begin(q, r), r.op # "sellAll" PROVE Balanced'
  <2>1. UNCHANGED <<line, sold, booked>> /\ req'[q] = r /\ ~Owes(q)
    BY <1>2, <1>6 DEF Begin, stock, PalletInv, PalletTypeOK
  <2> QED
    BY <1>4, <1>5, <1>6, <2>1
<1>7. CASE Create(q) \/ CreateFromSpec(q)
  <2>1. UNCHANGED <<line, sold, booked>> /\ ~Owes(q)
    BY <1>2, <1>7 DEF Create, CreateFromSpec
  <2>2. req'[q].op # "sellAll"
    <3>1. CASE Create(q)
      BY <1>1, <3>1 DEF Create, MayBegin
    <3>2. CASE CreateFromSpec(q)
      <4>1. PICK p \in NewIds, i \in Items, n \in 0..MaxQty :
              \E next \in {Idle, [op |-> "insert", pallet |-> p, item |-> i, qty |-> n]} :
                req' = [req EXCEPT ![q] = next]
        BY <3>2 DEF CreateFromSpec
      <4>2. req'[q] = Idle \/ req'[q] = [op |-> "insert", pallet |-> p, item |-> i, qty |-> n]
        BY <4>1 DEF PalletInv, PalletTypeOK
      <4> QED
        BY <1>1, <4>2
    <3> QED
      BY <1>7, <3>1, <3>2
  <2> QED
    BY <1>4, <1>5, <2>1, <2>2
<1>8. CASE UpdateLine(q)
  <2>1. PICK l \in DOMAIN line, n \in 0..MaxQty :
          line[l].pallet # 0 /\ SetQty(l, n) /\ Book(line[l].item, n - line[l].qty)
    BY <1>8 DEF UpdateLine
  <2>2. ~Owes(q) /\ req' = req /\ sold' = sold
    BY <1>2, <1>8 DEF UpdateLine
  <2>3. ASSUME NEW i \in Items PROVE Balance(i)' = Balance(i)
    <3>1. l \in OnPallets /\ n \in Nat
      BY <2>1, StockAssumption DEF OnPallets
    <3>2. Units(OnPallets, i)' = Units(OnPallets, i) + (IF line[l].item = i THEN n - line[l].qty ELSE 0)
      BY <1>1, <2>1, <3>1, SetUnits
    <3>3. booked'[i] = booked[i] + (IF line[l].item = i THEN n - line[l].qty ELSE 0)
      <4>1. booked \in [Items -> Int] /\ line[l].qty \in Nat
        BY <1>1, LineTypes DEF PalletInv, PalletTypeOK
      <4>2. booked' = [booked EXCEPT ![line[l].item] = booked[line[l].item] + (n - line[l].qty)]
        BY <2>1 DEF Book
      <4> QED
        BY <4>1, <4>2
    <3>4. booked[i] \in Int /\ Archived(i) \in Int /\ Units(OnPallets, i) \in Int /\ Archived(i)' = Archived(i)
      BY <2>2, BalanceTypes DEF Archived
    <3>5. line[l].qty \in Nat
      BY <1>1, LineTypes
    <3> QED
      BY <3>1, <3>2, <3>3, <3>4, <3>5 DEF Balance
  <2> QED
    BY <2>2, <2>3, Bystander DEF Owes
<1>9. CASE RemoveLine(q)
  <2>1. PICK l \in DOMAIN line : line[l].pallet # 0 /\ Drop({l}) /\ BookOut({l})
    BY <1>9 DEF RemoveLine
  <2>2. ~Owes(q) /\ req' = req /\ sold' = sold
    BY <1>2, <1>9 DEF RemoveLine
  <2>3. {l} \subseteq OnPallets /\ \A i \in Items : Archived(i)' = Archived(i)
    BY <2>1, <2>2 DEF OnPallets, Archived
  <2>4. \A i \in Items : Balance(i)' = Balance(i)
    BY <2>1, <2>3, DropBalance
  <2> QED
    BY <2>2, <2>4, Bystander DEF Owes
<1>10. CASE Update(q) \/ RemovePallet(q) \/ Merge(q)
  BY <1>6, <1>10 DEF Update, RemovePallet, Merge
<1>11. CASE AddLine(q) \/ ReplaceSpec(q)
  BY <1>6, <1>11 DEF AddLine, ReplaceSpec
<1>12. CASE SellLine(q)
  BY <1>6, <1>12 DEF SellLine
<1>13. CASE Return(q)
  BY <1>6, <1>13 DEF Return
<1>14. CASE SellPallet(q)
  <2>1. PICK p \in Ids :
          Begin(q, [op |-> "sellAll", pallet |-> p,
                    todo |-> {[line |-> l, item |-> line[l].item, qty |-> line[l].qty] :
                                l \in {m \in On(p) : line[m].qty > 0}}])
    BY <1>14 DEF SellPallet
  <2> DEFINE todo == {[line |-> l, item |-> line[l].item, qty |-> line[l].qty] :
                        l \in {m \in On(p) : line[m].qty > 0}}
             r == [op |-> "sellAll", pallet |-> p, todo |-> todo]
  <2>2. \A l \in On(p) : line[l].qty > 0 => \E t \in todo : t.line = l
    <3> TAKE l \in On(p)
    <3> HAVE line[l].qty > 0
    <3> DEFINE t == [line |-> l, item |-> line[l].item, qty |-> line[l].qty]
    <3>1. l \in {m \in On(p) : line[m].qty > 0} /\ t \in todo /\ t.line = l
      OBVIOUS
    <3> HIDE DEF t, todo
    <3> QED
      BY <3>1
  <2>3. Begin(q, r)
    BY <2>1
  <2> HIDE DEF todo
  <2>4. r.op = "sellAll" /\ r.pallet = p /\ r.todo = todo
    OBVIOUS
  <2> HIDE DEF r
  <2>5. UNCHANGED <<line, sold, booked>> /\ req'[q] = r /\ ~Owes(q)
    BY <1>2, <2>3 DEF Begin, stock, PalletInv, PalletTypeOK
  <2>6. \A s \in Requests \ {q} : ~Owes(s) /\ ~Owes(s)'
    BY <1>1, <2>4, <2>5, OthersOwe DEF Solo
  <2>7. \A i \in Items : Balance(i) = 0
    BY <2>5, <2>6 DEF Balanced
  <2>8. ASSUME NEW i \in Items PROVE Balance(i)' = Surplus(q, i)'
    <3> DEFINE ls == GoneLines(q)'
    <3>1. \A l \in DOMAIN line : l \in ls => line[l].qty = 0
      <4>1. \A l \in DOMAIN line : l \in ls => l \in On(p) /\ \A t \in todo : t.line # l
        BY <2>4, <2>5 DEF GoneLines, On
      <4>2. \A l \in DOMAIN line : line[l].qty \in Nat
        BY <1>1, LineTypes
      <4> QED
        BY <2>2, <4>1, <4>2
    <3>2. Surplus(q, i)' = Units(GoneLines(q), i)'
      BY <2>4, <2>5 DEF Surplus, Moving, Archiving
    <3>3. Units(GoneLines(q), i)' = Units(ls, i)
      BY <2>5 DEF Units
    <3> HIDE DEF ls
    <3>4. Units(ls, i) = 0
      BY <1>1, <3>1, NoUnits
    <3> QED
      BY <2>5, <2>7, <3>2, <3>3, <3>4, SameBalance
  <2> QED
    BY <2>6, <2>8, OneOwesNext
<1> QED
  BY <1>7, <1>8, <1>9, <1>10, <1>11, <1>12, <1>13, <1>14 DEF Request

(* A request that goes on without a change to the balance. *)
LEMMA StaysBalanced ==
  ASSUME PalletInv, Balanced, NEW q \in Requests, Step(q), UNCHANGED <<line, sold, booked>>, ~Owes(q), ~Owes(q)'
  PROVE  Balanced'
BY SameBalance, Bystander

LEMMA MergeBalance ==
  ASSUME PalletInv, Balanced, NEW q \in Requests, LockRow(q) \/ Refuse(q) \/ Commit(q)
  PROVE  Balanced'
<1>1. Step(q) /\ req \in [Requests -> Reqs] /\ Idle.op = "idle" /\ line \in Seq(LineRow)
  BY DEF Step, PalletInv, PalletTypeOK, Idle
<1>2. ~Owes(q)
  BY DEF LockRow, Refuse, Commit, Owes, Moving, Archiving
<1>3. CASE LockRow(q)
  <2> DEFINE p == LockNext(req[q].todo, req[q])
             n == [op |-> IF req[q].todo = {p} THEN "merge" ELSE "lock", pallet |-> req[q].pallet,
                   second |-> req[q].second, todo |-> req[q].todo \ {p}]
  <2>1. req' = [req EXCEPT ![q] = n] /\ UNCHANGED stock
    BY <1>3 DEF LockRow
  <2>2. n.op \in {"lock", "merge"}
    OBVIOUS
  <2> HIDE DEF n
  <2>3. req'[q] = n
    BY <1>1, <2>1
  <2> QED
    BY <1>1, <1>2, <2>1, <2>2, <2>3, StaysBalanced DEF stock, Owes, Moving, Archiving
<1>4. CASE Refuse(q)
  <2>1. UNCHANGED stock /\ req'[q] = Idle
    BY <1>1, <1>4 DEF Refuse, Release
  <2> QED
    BY <1>1, <1>2, <2>1, StaysBalanced DEF stock, Owes, Moving, Archiving
<1>5. CASE Commit(q)
  <2>1. UNCHANGED <<sold, booked>> /\ req'[q] = Idle
    BY <1>1, <1>5 DEF Commit, Release
  <2>2. /\ DOMAIN line' = DOMAIN line /\ line' \in Seq(LineRow)
        /\ \A l \in DOMAIN line : line'[l].item = line[l].item /\ line'[l].qty = line[l].qty
        /\ \A l \in DOMAIN line : line'[l].pallet = 0 <=> line[l].pallet = 0
    BY <1>5, CommitStep DEF PalletInv, PalletTypeOK
  <2>3. ASSUME NEW i \in Items PROVE Balance(i)' = Balance(i)
    <3> DEFINE b == line'
               T == OnPallets'
    <3>1. \A l \in DOMAIN line : l \in T <=> l \in OnPallets
      BY <2>2 DEF OnPallets
    <3>2. DOMAIN line = 1..Len(line) /\ DOMAIN b = 1..Len(b) /\ b \in Seq(LineRow) /\ Len(line) \in Nat /\ Len(b) \in Nat
      BY <1>1, <2>2, LenProperties
    <3>3. Len(b) = Len(line)
      BY <2>2, <3>2
    <3>4. \A l \in 1..Len(line) : Value(b, T, i, l) = Value(line, OnPallets, i, l)
      BY <2>2, <3>1, <3>2 DEF Value
    <3>5. Units(OnPallets, i)' = Sum(b, T, i)
      BY DEF Units, Sum
    <3> HIDE DEF b, T
    <3>6. Sum(b, T, i) = Sum(line, OnPallets, i)
      BY <1>1, <3>2, <3>3, <3>4, SameSum
    <3>7. Units(OnPallets, i)' = Units(OnPallets, i) /\ Archived(i)' = Archived(i) /\ booked' = booked
      BY <2>1, <3>5, <3>6, SumsOf DEF Archived
    <3> QED
      BY <3>7 DEF Balance
  <2> QED
    BY <1>1, <1>2, <2>1, <2>3, Bystander DEF Owes, Moving, Archiving
<1> QED
  BY <1>3, <1>4, <1>5

LEMMA EditBalance ==
  ASSUME PalletInv, Balanced, NEW q \in Requests, Patch(q) \/ Delete(q) \/ Insert(q) \/ Clear(q)
  PROVE  Balanced'
<1> DEFINE r == req[q]
<1>1. Step(q) /\ req \in [Requests -> Reqs] /\ r \in Reqs /\ Idle.op = "idle"
  BY DEF Step, PalletInv, PalletTypeOK, Idle
<1>2. ~Owes(q) /\ r.op \in Solo
  BY DEF Patch, Delete, Insert, Clear, Owes, Moving, Archiving, Solo
<1>3. ASSUME NEW n, Go(q, n) PROVE req'[q] = n
  BY <1>1, <1>3 DEF Go
<1>4. Live(r.pallet) /\ Exists(r.pallet) /\ r.pallet \in Ids
  BY <1>2 DEF PalletInv, OnlyLive, Live, Exists
<1>5. On(r.pallet) \subseteq OnPallets
  BY <1>4, OnIsOn
<1>6. CASE Patch(q)
  <2>1. UNCHANGED <<line, sold, booked>> /\ req'[q] = Idle
    BY <1>3, <1>6 DEF Patch, Done
  <2> QED
    BY <1>1, <1>2, <2>1, StaysBalanced DEF Owes, Moving, Archiving
<1>7. CASE Clear(q)
  <2>1. /\ Drop(On(r.pallet)) /\ BookOut(On(r.pallet)) /\ sold' = sold
        /\ req'[q] = Idle \/ req'[q] = [r EXCEPT !.op = "insert"]
    BY <1>3, <1>7 DEF Clear, Done
  <2>2. req'[q].op \in {"idle", "insert"}
    <3>1. r \in Inserts
      BY <1>1, <1>7, ReqOps DEF Clear
    <3> QED
      BY <1>1, <2>1, <3>1 DEF Inserts
  <2>3. \A i \in Items : Archived(i)' = Archived(i)
    BY <2>1 DEF Archived
  <2>4. \A i \in Items : Balance(i)' = Balance(i)
    BY <1>5, <2>1, <2>3, DropBalance
  <2> QED
    BY <1>1, <1>2, <2>2, <2>4, Bystander DEF Owes, Moving, Archiving
<1>8. CASE Delete(q)
  <2>1. /\ Drop(On(r.pallet)) /\ BookOut(On(r.pallet)) /\ req'[q] = Idle
        /\ sold' = [s \in DOMAIN sold |-> IF sold[s].pallet = r.pallet THEN [sold[s] EXCEPT !.pallet = 0] ELSE sold[s]]
    BY <1>3, <1>8 DEF Delete, Done
  <2>2. ASSUME NEW i \in Items PROVE Archived(i)' = Archived(i)
    <3> DEFINE b == sold'
    <3>1. sold \in Seq(SoldRow) /\ b \in Seq(SoldRow)
      BY <1>8, DeletePallet DEF PalletInv, PalletTypeOK
    <3>2. DOMAIN sold = 1..Len(sold) /\ Len(sold) \in Nat /\ DOMAIN b = DOMAIN sold /\ \A s \in DOMAIN sold : sold[s] \in SoldRow
      BY <2>1, <3>1, LenProperties, ElementOfSeq
    <3>3. \A s \in 1..Len(sold) : b[s].item = sold[s].item /\ b[s].qty = sold[s].qty /\ b[s].back = sold[s].back
      BY <2>1, <3>2 DEF SoldRow
    <3>4. Len(b) = Len(sold)
      BY <3>1, <3>2, LenProperties
    <3>5. Archived(i)' = ArchiveSum(b, i)
      BY DEF Archived, ArchiveSum
    <3> HIDE DEF b
    <3>6. ArchiveSum(b, i) = ArchiveSum(sold, i)
      BY <3>1, <3>3, <3>4, SameArchive
    <3> QED
      BY <3>5, <3>6, SumsOf
  <2>3. \A i \in Items : Balance(i)' = Balance(i)
    BY <1>5, <2>1, <2>2, DropBalance
  <2> QED
    BY <1>1, <1>2, <2>1, <2>3, Bystander DEF Owes, Moving, Archiving
<1>9. CASE Insert(q)
  <2> DEFINE row == [pallet |-> r.pallet, item |-> r.item, qty |-> r.qty]
  <2>1. line' = Append(line, row) /\ Book(r.item, r.qty) /\ sold' = sold /\ req'[q] = Idle
    BY <1>3, <1>4, <1>9 DEF Insert, Done
  <2>2. r.item \in Items /\ r.qty \in Nat
    <3>1. r \in Inserts
      BY <1>1, <1>9, ReqOps DEF Insert
    <3> QED
      BY <3>1 DEF Inserts
  <2>3. row \in LineRow /\ row.pallet # 0 /\ row.item = r.item /\ row.qty = r.qty
    BY <1>4, <2>2, StockAssumption DEF LineRow, Ids
  <2> HIDE DEF row
  <2>4. ASSUME NEW i \in Items PROVE Balance(i)' = Balance(i)
    <3>1. Units(OnPallets, i)' = Units(OnPallets, i) + (IF r.item = i THEN r.qty ELSE 0)
      BY <2>1, <2>3, BalanceTypes, AddUnits
    <3>2. booked'[i] = booked[i] + (IF r.item = i THEN r.qty ELSE 0)
      <4>1. booked \in [Items -> Int]
        BY DEF PalletInv, PalletTypeOK
      <4>2. booked' = [booked EXCEPT ![r.item] = booked[r.item] + r.qty]
        BY <2>1 DEF Book
      <4> QED
        BY <2>2, <4>1, <4>2
    <3>3. booked[i] \in Int /\ Archived(i) \in Int /\ Units(OnPallets, i) \in Int /\ Archived(i)' = Archived(i)
      BY <2>1, BalanceTypes DEF Archived
    <3> QED
      BY <2>2, <3>1, <3>2, <3>3 DEF Balance
  <2> QED
    BY <1>1, <1>2, <2>1, <2>4, Bystander DEF Owes, Moving, Archiving
<1> QED
  BY <1>6, <1>7, <1>8, <1>9

LEMMA SellBalance ==
  ASSUME PalletInv, Reads, Balanced, NEW q \in Requests, ArchiveLine(q) \/ Shrink(q)
  PROVE  Balanced'
<1> DEFINE r == req[q]
<1>1. Step(q) /\ req \in [Requests -> Reqs] /\ r \in Reqs /\ Idle.op = "idle" /\ line \in Seq(LineRow) /\ PalletInv'
  BY PalletsStand DEF Step, PalletInv, PalletTypeOK, Idle
<1>2. r \in Sells /\ r.op \in OnLine /\ LineRead(q)
  BY <1>1, ReqOps DEF ArchiveLine, Shrink, OnLine, Reads
<1>3. /\ r.pallet \in Ids /\ r.item \in Items /\ r.qty \in Nat /\ r.seen \in Nat
      /\ r.line \in OnPallets /\ r.line \in DOMAIN line /\ line[r.line].item = r.item /\ line[r.line].qty = r.seen
      /\ r.qty <= r.seen
  BY <1>2 DEF Sells, LineRead, OnPallets
<1>4. \A s \in Requests \ {q} : ~Owes(s) /\ ~Owes(s)'
  BY <1>1, <1>2, OthersOwe
<1>5. ASSUME NEW n, Go(q, n) PROVE req'[q] = n
  BY <1>1, <1>5 DEF Go
<1>6. CASE ArchiveLine(q)
  <2>1. ~Owes(q) /\ UNCHANGED <<line, booked>>
    BY <1>6 DEF ArchiveLine, Owes, Moving, Archiving
  <2>2. CASE sold' = sold /\ req'[q] = Idle
    BY <1>1, <2>1, <2>2, StaysBalanced DEF Owes, Moving, Archiving
  <2>3. CASE sold' = Append(sold, Row(r.pallet, r)) /\ req'[q] = [r EXCEPT !.op = "shrink"]
    <3>1. req'[q].op = "shrink" /\ req'[q].item = r.item /\ req'[q].qty = r.qty
      BY <1>2, <2>3 DEF Sells
    <3>2. \A i \in Items : Balance(i) = 0
      BY <1>4, <2>1 DEF Balanced
    <3>3. ASSUME NEW i \in Items PROVE Balance(i)' = Surplus(q, i)'
      <4>1. Archived(i)' = Archived(i) + (IF r.item = i THEN r.qty ELSE 0)
        BY <1>3, <2>3, ArchiveAdds
      <4>2. Surplus(q, i)' = IF r.item = i THEN r.qty ELSE 0
        BY <3>1 DEF Surplus, Moving
      <4>3. Units(OnPallets, i)' = Units(OnPallets, i) /\ booked' = booked
        BY <2>1 DEF Units, OnPallets
      <4>4. booked[i] \in Int /\ Archived(i) \in Int /\ Units(OnPallets, i) \in Int /\ Balance(i) = 0
        BY <3>2, BalanceTypes
      <4>5. (IF r.item = i THEN r.qty ELSE 0) \in Int
        BY <1>3
      <4> HIDE DEF r
      <4> QED
        BY <4>1, <4>2, <4>3, <4>4, <4>5 DEF Balance
    <3> QED
      BY <1>4, <3>3, OneOwesNext
  <2> QED
    BY <1>5, <1>6, <2>2, <2>3 DEF ArchiveLine, Done
<1>7. CASE Shrink(q)
  <2>1. /\ UNCHANGED <<sold, booked>> /\ req'[q] = Idle /\ r.op = "shrink"
        /\ IF r.qty >= r.seen THEN Drop({r.line}) ELSE SetQty(r.line, r.seen - r.qty)
    BY <1>5, <1>7 DEF Shrink, Done
  <2>2. ~Owes(q)'
    BY <1>1, <2>1 DEF Owes, Moving, Archiving
  <2>3. ASSUME NEW i \in Items PROVE Balance(i)' = 0
    <3>1. Balance(i) = IF r.item = i THEN r.qty ELSE 0
      BY <1>4, <2>1, OneOwes DEF Surplus, Moving
    <3>2. Units(OnPallets, i)' = Units(OnPallets, i) - (IF r.item = i THEN r.qty ELSE 0)
      <4>1. CASE r.qty >= r.seen
        <5>1. Units(OnPallets, i)' = Units(OnPallets, i) - Units({r.line}, i)
          <6>1. {r.line} \subseteq OnPallets /\ Drop({r.line})
            BY <1>3, <2>1, <4>1
          <6> QED
            BY <1>1, <6>1, DropUnits
        <5>2. Units({r.line}, i) = IF r.item = i THEN r.seen ELSE 0
          BY <1>1, <1>3, OneUnits
        <5> QED
          BY <1>3, <4>1, <5>1, <5>2
      <4>2. CASE ~(r.qty >= r.seen)
        <5>1. r.seen - r.qty \in Nat /\ SetQty(r.line, r.seen - r.qty)
          BY <1>3, <2>1, <4>2
        <5>2. Units(OnPallets, i)' = Units(OnPallets, i)
                 + (IF line[r.line].item = i THEN (r.seen - r.qty) - line[r.line].qty ELSE 0)
          BY <1>1, <1>3, <5>1, SetUnits
        <5>3. Units(OnPallets, i) \in Int
          BY BalanceTypes
        <5> QED
          BY <1>3, <5>2, <5>3
      <4> QED
        BY <4>1, <4>2
    <3>3. Archived(i)' = Archived(i) /\ booked' = booked
      BY <2>1 DEF Archived
    <3>4. booked[i] \in Int /\ Archived(i) \in Int /\ Units(OnPallets, i) \in Int
      BY BalanceTypes
    <3> QED
      BY <1>3, <3>1, <3>2, <3>3, <3>4 DEF Balance
  <2> QED
    BY <1>4, <2>2, <2>3 DEF Balanced
<1> QED
  BY <1>6, <1>7

LEMMA SellAllBalance ==
  ASSUME PalletInv, Reads, Balanced, NEW q \in Requests, ArchiveNext(q) \/ Empty(q)
  PROVE  Balanced'
<1> DEFINE r == req[q]
<1>1. Step(q) /\ req \in [Requests -> Reqs] /\ r \in Reqs /\ Idle.op = "idle" /\ line \in Seq(LineRow) /\ PalletInv'
  BY PalletsStand DEF Step, PalletInv, PalletTypeOK, Idle
<1>2. r \in SellAlls /\ r.op \in Solo /\ TodoRead(q) /\ r.op \in Archiving
  BY <1>1, ReqOps DEF ArchiveNext, Empty, Solo, Reads, Archiving
<1>3. Live(r.pallet) /\ Exists(r.pallet) /\ r.pallet \in Ids
  BY <1>2 DEF PalletInv, OnlyLive, Live, Exists
<1>4. \A s \in Requests \ {q} : ~Owes(s) /\ ~Owes(s)'
  BY <1>1, <1>2, OthersOwe
<1>5. ASSUME NEW n, Go(q, n) PROVE req'[q] = n
  BY <1>1, <1>5 DEF Go
<1>6. \A i \in Items : Balance(i) = Units(GoneLines(q), i)
  <2>1. \A i \in Items : Balance(i) = Surplus(q, i)
    BY <1>4, OneOwes
  <2> QED
    BY <1>2, <2>1 DEF Surplus, Moving, Archiving
<1>7. \A t \in r.todo :
        /\ t.line \in On(r.pallet) /\ t.line \in DOMAIN line /\ line[t.line].item = t.item /\ line[t.line].qty = t.qty
        /\ t \in [line : Nat, item : Items, qty : Nat]
  BY <1>2 DEF TodoRead, Archiving, SellAlls, On
<1>8. CASE ArchiveNext(q)
  <2>1. PICK t \in r.todo :
          /\ sold' = Append(sold, Row(r.pallet, t))
          /\ Go(q, [op |-> IF r.todo = {t} THEN "empty" ELSE "sellAll", pallet |-> r.pallet, todo |-> r.todo \ {t}])
          /\ UNCHANGED <<line, booked>>
    BY <1>3, <1>8 DEF ArchiveNext
  <2>2. req'[q].op \in Archiving /\ req'[q].pallet = r.pallet /\ req'[q].todo = r.todo \ {t}
    BY <1>5, <2>1 DEF Archiving
  <2>3. t.item \in Items /\ t.qty \in Nat
    BY <1>7
  <2>4. \A u \in r.todo : u.line = t.line => u = t
    BY <1>7
  <2> DEFINE ls == GoneLines(q)'
  <2>5. ls = GoneLines(q) \cup {t.line} /\ GoneLines(q) \cap {t.line} = {}
    <3>1. ls = {l \in On(r.pallet) : \A u \in r.todo \ {t} : u.line # l}
      BY <2>1, <2>2 DEF GoneLines, On
    <3>2. \A l : l \in ls <=> l \in GoneLines(q) \/ l = t.line
      BY <1>7, <2>4, <3>1 DEF GoneLines
    <3>3. t.line \notin GoneLines(q)
      BY DEF GoneLines
    <3> QED
      BY <3>2, <3>3
  <2>6. ASSUME NEW i \in Items PROVE Balance(i)' = Surplus(q, i)'
    <3>1. Archived(i)' = Archived(i) + (IF t.item = i THEN t.qty ELSE 0)
      BY <1>3, <2>1, <2>3, ArchiveAdds
    <3>2. Surplus(q, i)' = Units(GoneLines(q), i)'
      BY <2>2 DEF Surplus, Moving, Archiving
    <3>3. Units(GoneLines(q), i)' = Units(ls, i)
      BY <2>1 DEF Units
    <3> HIDE DEF ls
    <3>4. Units(ls, i) = Units(GoneLines(q), i) + Units({t.line}, i)
      BY <1>1, <2>5, TwoUnits
    <3>5. Units({t.line}, i) = IF t.item = i THEN t.qty ELSE 0
      BY <1>1, <1>7, OneUnits
    <3>6. Units(OnPallets, i)' = Units(OnPallets, i) /\ booked' = booked
      BY <2>1 DEF Units, OnPallets
    <3>7. booked[i] \in Int /\ Archived(i) \in Int /\ Units(OnPallets, i) \in Int /\ Balance(i) = Units(GoneLines(q), i)
      BY <1>6, BalanceTypes
    <3> QED
      BY <2>3, <3>1, <3>2, <3>3, <3>4, <3>5, <3>6, <3>7 DEF Balance
  <2> QED
    BY <1>4, <2>6, OneOwesNext
<1>9. CASE Empty(q)
  <2>1. Drop(On(r.pallet)) /\ UNCHANGED <<sold, booked>> /\ req'[q].op = "patch" /\ r.todo = {}
    BY <1>2, <1>5, <1>9 DEF Empty, TodoRead
  <2>2. ~Owes(q)'
    BY <2>1 DEF Owes, Moving, Archiving
  <2>3. GoneLines(q) = On(r.pallet) /\ On(r.pallet) \subseteq OnPallets
    BY <1>3, <2>1, OnIsOn DEF GoneLines
  <2>4. ASSUME NEW i \in Items PROVE Balance(i)' = 0
    <3>1. Units(OnPallets, i)' = Units(OnPallets, i) - Units(On(r.pallet), i)
      BY <1>1, <2>1, <2>3, DropUnits
    <3>2. Archived(i)' = Archived(i) /\ booked' = booked
      BY <2>1 DEF Archived
    <3>3. /\ booked[i] \in Int /\ Archived(i) \in Int /\ Units(OnPallets, i) \in Int
          /\ Units(On(r.pallet), i) \in Int /\ Balance(i) = Units(On(r.pallet), i)
      BY <1>6, <2>3, BalanceTypes
    <3> QED
      BY <3>1, <3>2, <3>3 DEF Balance
  <2> QED
    BY <1>4, <2>2, <2>4 DEF Balanced
<1> QED
  BY <1>8, <1>9

LEMMA ReturnBalance ==
  ASSUME PalletInv, Reads, Balanced, NEW q \in Requests, Put(q) \/ Reopen(q) \/ Stamp(q)
  PROVE  Balanced'
<1> DEFINE r == req[q]
<1>1. Step(q) /\ req \in [Requests -> Reqs] /\ r \in Reqs /\ Idle.op = "idle" /\ line \in Seq(LineRow) /\ PalletInv'
  BY PalletsStand DEF Step, PalletInv, PalletTypeOK, Idle
<1>2. r \in Puts /\ r.op \in Solo /\ LineRead(q) /\ SaleRead(q)
  BY <1>1, ReqOps DEF Put, Reopen, Stamp, Solo, Reads
<1>3. /\ Live(r.pallet) /\ Exists(r.pallet) /\ r.pallet \in Ids
      /\ r.item \in Items /\ r.qty \in Nat /\ r.seen \in Nat
  BY <1>2 DEF PalletInv, OnlyLive, Live, Exists, Puts
<1>4. \A s \in Requests \ {q} : ~Owes(s) /\ ~Owes(s)'
  BY <1>1, <1>2, OthersOwe
<1>5. ASSUME NEW n, Go(q, n) PROVE req'[q] = n
  BY <1>1, <1>5 DEF Go
<1>6. CASE Put(q)
  <2>1. UNCHANGED <<sold, booked>> /\ req'[q] = [r EXCEPT !.op = Reopens(r)] /\ ~Owes(q) /\ r.op = "put"
    BY <1>3, <1>5, <1>6 DEF Put, Owes, Moving, Archiving
  <2>2. req'[q].op \in Moving /\ req'[q].item = r.item /\ req'[q].qty = r.qty
    BY <1>2, <2>1 DEF Puts, Reopens, Moving
  <2>3. \A i \in Items : Balance(i) = 0
    BY <1>4, <2>1 DEF Balanced
  <2>4. ASSUME NEW i \in Items PROVE Balance(i)' = Surplus(q, i)'
    <3>1. Units(OnPallets, i)' = Units(OnPallets, i) + (IF r.item = i THEN r.qty ELSE 0)
      <4>1. CASE r.line # 0 /\ SetQty(r.line, r.seen + r.qty)
        <5>1. r.line \in On(r.pallet) /\ line[r.line].item = r.item /\ line[r.line].qty = r.seen
          BY <1>2, <2>1, <4>1 DEF LineRead
        <5>2. r.line \in OnPallets /\ r.seen + r.qty \in Nat
          BY <1>3, <5>1, OnIsOn
        <5>3. Units(OnPallets, i)' = Units(OnPallets, i)
                 + (IF line[r.line].item = i THEN (r.seen + r.qty) - line[r.line].qty ELSE 0)
          BY <1>1, <4>1, <5>2, SetUnits
        <5>4. Units(OnPallets, i) \in Int
          BY BalanceTypes
        <5> QED
          BY <1>3, <5>1, <5>3, <5>4
      <4>2. CASE line' = Append(line, [pallet |-> r.pallet, item |-> r.item, qty |-> r.qty])
        <5> DEFINE row == [pallet |-> r.pallet, item |-> r.item, qty |-> r.qty]
        <5>1. row \in LineRow /\ row.pallet # 0 /\ row.item = r.item /\ row.qty = r.qty
          BY <1>3, StockAssumption DEF LineRow, Ids
        <5>2. line' = Append(line, row)
          BY <4>2
        <5> HIDE DEF row
        <5>3. Units(OnPallets, i)' = Units(OnPallets, i) + (IF row.item = i THEN row.qty ELSE 0)
          BY <1>1, <5>1, <5>2, AddUnits
        <5> QED
          BY <5>1, <5>3
      <4> QED
        BY <1>3, <1>6, <4>1, <4>2 DEF Put
    <3>2. Surplus(q, i)' = IF r.item = i THEN r.qty ELSE 0
      BY <2>2 DEF Surplus
    <3>3. Archived(i)' = Archived(i) /\ booked' = booked
      BY <2>1 DEF Archived
    <3>4. booked[i] \in Int /\ Archived(i) \in Int /\ Units(OnPallets, i) \in Int /\ Balance(i) = 0
      BY <2>3, BalanceTypes
    <3> QED
      BY <1>3, <3>1, <3>2, <3>3, <3>4 DEF Balance
  <2> QED
    BY <1>4, <2>4, OneOwesNext
<1>7. CASE Reopen(q)
  <2>1. UNCHANGED <<line, sold, booked>> /\ req'[q] = [r EXCEPT !.op = "stamp"] /\ r.op \in Moving
    BY <1>5, <1>7 DEF Reopen, Moving
  <2>2. req'[q].op \in Moving /\ req'[q].item = r.item /\ req'[q].qty = r.qty
    BY <1>2, <2>1 DEF Puts, Moving
  <2>3. \A i \in Items : Balance(i) = Surplus(q, i)
    BY <1>4, OneOwes
  <2>4. ASSUME NEW i \in Items PROVE Balance(i)' = Surplus(q, i)'
    <3>1. Surplus(q, i)' = Surplus(q, i)
      BY <2>1, <2>2 DEF Surplus
    <3> QED
      BY <2>1, <2>3, <3>1, SameBalance
  <2> QED
    BY <1>4, <2>4, OneOwesNext
<1>8. CASE Stamp(q)
  <2>1. /\ sold' = [sold EXCEPT ![r.sale].back = TRUE] /\ UNCHANGED <<line, booked>>
        /\ req'[q] = Idle /\ r.op = "stamp"
    BY <1>5, <1>8 DEF Stamp, Done
  <2>2. ~Owes(q)' /\ Owes(q)
    BY <1>1, <2>1 DEF Owes, Moving, Archiving
  <2>3. r.sale \in DOMAIN sold /\ ~sold[r.sale].back /\ sold[r.sale].item = r.item /\ sold[r.sale].qty = r.qty
    BY <1>2, <2>1 DEF SaleRead
  <2>4. ASSUME NEW i \in Items PROVE Balance(i)' = 0
    <3>1. Balance(i) = IF r.item = i THEN r.qty ELSE 0
      BY <1>4, <2>1, OneOwes DEF Surplus, Moving
    <3>2. Archived(i)' = Archived(i) - (IF r.item = i THEN r.qty ELSE 0)
      <4> DEFINE b == sold'
      <4>1. sold \in Seq(SoldRow) /\ b \in Seq(SoldRow)
        BY <1>1 DEF PalletInv, PalletTypeOK
      <4>2. DOMAIN b = DOMAIN sold /\ b[r.sale].back /\ \A s \in DOMAIN sold : s # r.sale => b[s] = sold[s]
        <5>1. \A s \in DOMAIN sold : sold[s] \in SoldRow
          BY <4>1, ElementOfSeq, LenProperties
        <5>2. b = [sold EXCEPT ![r.sale].back = TRUE]
          BY <2>1
        <5> HIDE DEF b
        <5>3. DOMAIN b = DOMAIN sold /\ \A s \in DOMAIN sold : s # r.sale => b[s] = sold[s]
          BY <5>2
        <5>4. b[r.sale] = [sold[r.sale] EXCEPT !.back = TRUE]
          BY <2>3, <5>2
        <5>5. b[r.sale].back
          BY <2>3, <5>1, <5>4 DEF SoldRow
        <5> QED
          BY <5>3, <5>5
      <4>3. Archived(i)' = ArchiveSum(b, i)
        BY DEF Archived, ArchiveSum
      <4> HIDE DEF b
      <4>4. Len(b) = Len(sold)
        BY <4>1, <4>2, LenProperties
      <4>5. ArchiveSum(b, i) = ArchiveSum(sold, i) - (IF sold[r.sale].item = i THEN sold[r.sale].qty ELSE 0)
        <5> DEFINE j == r.sale
        <5>1. j \in DOMAIN sold /\ ~sold[j].back /\ b[j].back /\ \A s \in DOMAIN sold : s # j => b[s] = sold[s]
          BY <2>3, <4>2
        <5> HIDE DEF j
        <5>2. ArchiveSum(b, i) = ArchiveSum(sold, i) - (IF sold[j].item = i THEN sold[j].qty ELSE 0)
          BY <4>1, <4>4, <5>1, BackArchive
        <5> QED
          BY <5>2 DEF j
      <4> QED
        BY <2>3, <4>3, <4>5, SumsOf
    <3>3. Units(OnPallets, i)' = Units(OnPallets, i) /\ booked' = booked
      BY <2>1 DEF Units, OnPallets
    <3>4. booked[i] \in Int /\ Archived(i) \in Int /\ Units(OnPallets, i) \in Int
      BY BalanceTypes
    <3> QED
      BY <1>3, <3>1, <3>2, <3>3, <3>4 DEF Balance
  <2> QED
    BY <1>4, <2>2, <2>4 DEF Balanced
<1> QED
  BY <1>6, <1>7, <1>8

LEMMA StepBalance ==
  ASSUME PalletInv, Reads, Balanced, NEW q \in Requests, Step(q)
  PROVE  Balanced'
BY MergeBalance, EditBalance, SellBalance, SellAllBalance, ReturnBalance DEF Step

LEMMA NextBalance ==
  ASSUME GoodsInv, Balanced, [GoodsNext]_allVars
  PROVE  Balanced'
<1>1. CASE UNCHANGED <<line, sold, booked, req>>
  <2>1. \A i \in Items : Balance(i)' = Balance(i)
    BY <1>1, SameBalance
  <2>2. \A s \in Requests : /\ Owes(s)' <=> Owes(s)
                            /\ \A i \in Items : Surplus(s, i)' = Surplus(s, i)
    BY <1>1 DEF Owes, Surplus, GoneLines, On, Units
  <2> QED
    BY <2>1, <2>2 DEF Balanced
<1>2. CASE UNCHANGED vars
  BY <1>1, <1>2 DEF vars
<1>3. CASE Desk
  <2>1. CASE CreateLot \/ UpdateLot \/ RemoveLot \/ CreateSub \/ UpdateSub \/ RemoveSub
    BY <1>2, <2>1 DEF CreateLot, UpdateLot, RemoveLot, CreateSub, UpdateSub, RemoveSub, Write
  <2>2. CASE CreateDevice \/ UpdateDevice \/ RemoveDevice \/ Sell
    BY <1>2, <2>2 DEF CreateDevice, UpdateDevice, RemoveDevice, Sell, Write
  <2>3. CASE \E op, t : Start(op, t)
    BY <1>2, <2>3, Begins
  <2>4. CASE AddAssets \/ RemoveAssets \/ SellAssetPallet
    BY <2>3, <2>4 DEF AddAssets, RemoveAssets, SellAssetPallet
  <2>5. CASE SellBatch \/ ReturnFromSold
    BY <2>3, <2>5 DEF SellBatch, ReturnFromSold
  <2>6. CASE TransferBatch
    BY <1>1, <2>6 DEF TransferBatch
  <2> QED
    BY <1>3, <2>1, <2>2, <2>4, <2>5, <2>6 DEF Desk
<1>4. CASE Statement
  <2>1. CASE Ship
    BY <1>1, <2>1 DEF Ship
  <2> QED
    BY <1>2, <1>4, <2>1 DEF Statement, AddNext, TakeNext, SellNext, Bulk, PriceAll, PriceRest, CloseLot, ReturnNext, ReopenLot
<1>5. CASE Crash
  BY <1>2, <1>5 DEF Crash
<1>6. CASE \E q \in Requests : Counted(q) /\ NoDeviceOn(q)
  BY <1>6, RequestBalance DEF Counted, GoodsInv
<1>7. CASE \E q \in Requests : PalletStep(q)
  BY <1>7, StepBalance DEF PalletStep, GoodsInv
<1> QED
  BY <1>2, <1>3, <1>4, <1>5, <1>6, <1>7 DEF GoodsNext, allVars

(* Between requests, every unit booked in is on a pallet or in the archive, and in one of them only. *)
THEOREM StockIsConserved == GoodsSpec => []StockConserved
<1>1. GoodsInit => Balanced
  BY InitBalanced
<1>2. GoodsInv /\ Balanced /\ [GoodsNext]_allVars => Balanced'
  BY NextBalance
<1>3. GoodsInv /\ Balanced => StockConserved
  <2> SUFFICES ASSUME GoodsInv, Balanced, Busy = {}, NEW i \in Items
               PROVE  booked[i] = Units(OnPallets, i) + Archived(i)
    BY DEF StockConserved
  <2>1. \A q \in Requests : req[q] = Idle /\ Idle.op = "idle"
    BY DEF Busy, Idle
  <2>2. Balance(i) = 0
    BY <2>1 DEF Balanced, Owes, Moving, Archiving
  <2>3. booked[i] \in Int /\ Archived(i) \in Int /\ Units(OnPallets, i) \in Int
    BY BalanceTypes DEF GoodsInv
  <2> QED
    BY <2>2, <2>3 DEF Balance
<1> QED
  BY <1>1, <1>2, <1>3, GoodsHold, PTL DEF GoodsSpec

-----------------------------------------------------------------------------
(* What the devices of a sale fetch *)

Selling == {"sellPallet", "ship", "bulk", "price", "rest", "close"}

Fetched(s) == SumOver([d \in SoldBy(s) |-> device[d].price[1]], SoldBy(s))

\* Where n devices were sold in s for this total, they fetched it.
Fetches(s, total, n) ==
  total # <<>> /\ n > 0 /\ Cardinality(SoldBy(s)) = n => Fetched(s) = total[1]

\* Only a sold device is of a sale, and of one that there is.
Recorded ==
  \A d \in Devices : /\ device[d].sale \in 0..Len(sales)
                     /\ device[d].status # "sold" => device[d].sale = 0

\* A sale that ended sold as many devices as it counted; some may have come back since.
EndedFetch ==
  \A s \in DOMAIN sales : sales[s].ended =>
    Cardinality(SoldBy(s)) <= sales[s].units /\ Fetches(s, sales[s].total, sales[s].units)

\* The sale under way, statement by statement.
OnSale ==
  task.op \in Selling =>
    /\ task.sale \in DOMAIN sales /\ ~sales[task.sale].ended
    /\ task.op = "sellPallet" =>
         /\ task.todo # {} /\ Cardinality(SoldBy(task.sale)) + Cardinality(task.todo) = task.count
         /\ \A d \in SoldBy(task.sale) : device[d].price = Share(task.total, task.count, FALSE)
    /\ task.op = "bulk" => SoldBy(task.sale) = {}
    /\ task.op \in {"price", "rest"} => SoldBy(task.sale) = task.todo
    /\ task.op \in {"ship", "close"} =>
         Cardinality(SoldBy(task.sale)) = task.count /\ Fetches(task.sale, task.total, task.count)

SaleInv == Recorded /\ EndedFetch /\ OnSale

(* The sales there are. *)
LEMMA SaleTypes ==
  ASSUME GoodsInv
  PROVE  /\ Len(sales) \in Nat /\ DOMAIN sales = 1..Len(sales) /\ NewSale \in Nat
         /\ \A s \in DOMAIN sales : sales[s] \in SaleRow /\ sales[s].units \in Nat /\ s \in Nat /\ s # 0
<1>1. sales \in Seq(SaleRow)
  BY DEF GoodsInv, GoodsTypeOK
<1>2. Len(sales) \in Nat /\ DOMAIN sales = 1..Len(sales)
  BY <1>1, LenProperties
<1>3. \A s \in DOMAIN sales : sales[s] \in SaleRow
  BY <1>1, <1>2, ElementOfSeq
<1> QED
  BY <1>2, <1>3 DEF SaleRow, NewSale

(* The rows after one is added. *)
LEMMA AddedSale ==
  ASSUME GoodsInv, NEW row \in SaleRow, sales' = Append(sales, row)
  PROVE  /\ Len(sales') = Len(sales) + 1 /\ DOMAIN sales' = 1..(Len(sales) + 1) /\ sales'[NewSale] = row
         /\ \A s \in DOMAIN sales : s \in DOMAIN sales' /\ sales'[s] = sales[s]
         /\ \A s \in DOMAIN sales' : s \in DOMAIN sales \/ s = NewSale
<1>1. sales \in Seq(SaleRow) /\ Len(sales) \in Nat /\ DOMAIN sales = 1..Len(sales)
  BY SaleTypes DEF GoodsInv, GoodsTypeOK
<1>2. /\ sales' \in Seq(SaleRow) /\ Len(sales') = Len(sales) + 1 /\ sales'[Len(sales) + 1] = row
      /\ \A s \in 1..Len(sales) : sales'[s] = sales[s]
  BY <1>1, AppendProperties
<1>3. DOMAIN sales' = 1..(Len(sales) + 1)
  BY <1>2, LenProperties
<1> QED
  BY <1>1, <1>2, <1>3 DEF NewSale

(* The devices of a sale. *)
LEMMA SoldByFinite ==
  ASSUME NEW s
  PROVE  /\ IsFiniteSet(SoldBy(s)) /\ Cardinality(SoldBy(s)) \in Nat
         /\ IsFiniteSet(SoldBy(s)') /\ Cardinality(SoldBy(s)') \in Nat
BY CountOf DEF SoldBy

LEMMA SameFetch ==
  ASSUME NEW s, SoldBy(s)' = SoldBy(s), \A d \in SoldBy(s) : device'[d].price = device[d].price
  PROVE  Fetched(s)' = Fetched(s)
<1>1. [d \in SoldBy(s) |-> device[d].price[1]] = [d \in SoldBy(s)' |-> device'[d].price[1]]
  OBVIOUS
<1> QED
  BY <1>1 DEF Fetched

(* A sale of which devices come back, and nothing else changes. *)
LEMMA FewerFetch ==
  ASSUME NEW s, NEW total, NEW n \in Nat, Cardinality(SoldBy(s)) <= n, Fetches(s, total, n),
         SoldBy(s)' \subseteq SoldBy(s), \A d \in SoldBy(s)' : device'[d].price = device[d].price
  PROVE  Cardinality(SoldBy(s)') <= n /\ Fetches(s, total, n)'
<1>1. /\ Cardinality(SoldBy(s)) \in Nat /\ Cardinality(SoldBy(s)') \in Nat
      /\ Cardinality(SoldBy(s)') <= Cardinality(SoldBy(s))
      /\ Cardinality(SoldBy(s)') = Cardinality(SoldBy(s)) => SoldBy(s)' = SoldBy(s)
  BY SoldByFinite, FS_Subset
<1>2. ASSUME Cardinality(SoldBy(s)') = n
      PROVE  Fetched(s)' = Fetched(s) /\ Cardinality(SoldBy(s)) = n
  BY <1>1, <1>2, SameFetch
<1> QED
  BY <1>1, <1>2 DEF Fetches

(* The sales that ended stay so: a step that sells devices sells none of theirs. *)
LEMMA EndedStand ==
  ASSUME GoodsInv, EndedFetch,
         \A s \in DOMAIN sales' : sales'[s].ended =>
           \/ /\ s \in DOMAIN sales /\ sales'[s] = sales[s]
              /\ SoldBy(s)' \subseteq SoldBy(s)
              /\ \A d \in SoldBy(s)' : device'[d].price = device[d].price
           \/ Cardinality(SoldBy(s)') <= sales'[s].units /\ Fetches(s, sales[s].total, sales[s].units)'
  PROVE  EndedFetch'
<1> SUFFICES ASSUME NEW s \in DOMAIN sales', sales'[s].ended
             PROVE  Cardinality(SoldBy(s)') <= sales'[s].units /\ Fetches(s, sales[s].total, sales[s].units)'
  BY DEF EndedFetch
<1>1. CASE /\ s \in DOMAIN sales /\ sales'[s] = sales[s] /\ SoldBy(s)' \subseteq SoldBy(s)
           /\ \A d \in SoldBy(s)' : device'[d].price = device[d].price
  <2>1. PICK total, n : total = sales[s].total /\ n = sales[s].units
    OBVIOUS
  <2>2. n \in Nat
    BY <1>1, <2>1, SaleTypes
  <2>3. Cardinality(SoldBy(s)) <= n /\ Fetches(s, total, n)
    BY <1>1, <2>1 DEF EndedFetch
  <2>4. Cardinality(SoldBy(s)') <= n /\ Fetches(s, total, n)'
    BY <1>1, <2>2, <2>3, FewerFetch
  <2> QED
    BY <1>1, <2>1, <2>4 DEF Fetches
<1> QED
  BY <1>1

-----------------------------------------------------------------------------
(* The requests that sell nothing *)

QuietSale ==
  /\ sales' = sales /\ task'.op \notin Selling
  /\ \A d \in Devices :
       \/ device'[d].sale = 0
       \/ /\ device'[d].sale = device[d].sale /\ device'[d].price = device[d].price
          /\ device'[d].status # "sold" => device[d].status # "sold"

LEMMA QuietKeeps ==
  ASSUME GoodsInv, SaleInv, QuietSale
  PROVE  SaleInv'
<1>1. Recorded'
  BY SaleTypes DEF SaleInv, Recorded, QuietSale
<1>2. EndedFetch'
  <2>1. ASSUME NEW s \in DOMAIN sales
        PROVE  SoldBy(s)' \subseteq SoldBy(s) /\ \A d \in SoldBy(s)' : device'[d].price = device[d].price
    BY SaleTypes DEF QuietSale, SoldBy
  <2>2. EndedFetch
    BY DEF SaleInv
  <2> HIDE DEF SoldBy
  <2> QED
    BY <2>1, <2>2, EndedStand DEF QuietSale
<1>3. OnSale'
  BY DEF QuietSale, OnSale
<1> QED
  BY <1>1, <1>2, <1>3 DEF SaleInv

LEMMA DeskIsQuiet ==
  ASSUME GoodsInv, NEW op, Write(op), UNCHANGED sales,
         \A d \in Devices :
           \/ device'[d].sale = 0
           \/ /\ device'[d].sale = device[d].sale /\ device'[d].price = device[d].price
              /\ device'[d].status # "sold" => device[d].status # "sold"
  PROVE  QuietSale
BY DEF Write, May, QuietSale, NoTask, Selling

(* Lots, sub-lots and devices. *)
LEMMA LotsQuiet ==
  ASSUME GoodsInv, CreateLot \/ UpdateLot \/ CreateSub \/ UpdateSub
  PROVE  QuietSale
<1>1. Write("lots") /\ UNCHANGED <<device, sales>>
  BY DEF CreateLot, UpdateLot, CreateSub, UpdateSub
<1> QED
  BY <1>1, DeskIsQuiet

LEMMA RemovesQuiet ==
  ASSUME GoodsInv, RemoveLot \/ RemoveSub \/ RemoveDevice
  PROVE  QuietSale
<1>1. \A d \in Devices : device[d] \in DeviceRow
  BY DeviceTypes DEF GoodsInv
<1>2. Deleted.sale = 0
  BY DEF Deleted, Unsold
<1>3. ASSUME NEW d \in Devices, NEW row, row \in {Deleted, [device[d] EXCEPT !.sub = Nobody], device[d]}
      PROVE  \/ row.sale = 0
             \/ row.sale = device[d].sale /\ row.price = device[d].price /\ row.status = device[d].status
  BY <1>1, <1>2, <1>3 DEF DeviceRow
<1>4. /\ \E op : Write(op)
      /\ UNCHANGED sales
      /\ \A d \in Devices : device'[d] \in {Deleted, [device[d] EXCEPT !.sub = Nobody], device[d]}
  <2>1. CASE RemoveLot
    <3>1. PICK l \in LotsThere :
            device' = [d \in Devices |->
              IF d \in Present /\ device[d].lot = l THEN Deleted
              ELSE IF device[d].sub \in {s \in SubsThere : sub[s] = l} THEN [device[d] EXCEPT !.sub = Nobody]
              ELSE device[d]]
      BY <2>1 DEF RemoveLot
    <3>2. \A d \in Devices : device'[d] \in {Deleted, [device[d] EXCEPT !.sub = Nobody], device[d]}
      BY <3>1
    <3>3. Write("removeLot") /\ UNCHANGED sales
      BY <2>1 DEF RemoveLot
    <3> QED BY <3>2, <3>3
  <2>2. CASE RemoveSub
    <3>1. PICK s \in SubsThere :
            device' = [d \in Devices |-> IF device[d].sub = s THEN [device[d] EXCEPT !.sub = Nobody] ELSE device[d]]
      BY <2>2 DEF RemoveSub
    <3>2. \A d \in Devices : device'[d] \in {Deleted, [device[d] EXCEPT !.sub = Nobody], device[d]}
      BY <3>1
    <3>3. Write("lots") /\ UNCHANGED sales
      BY <2>2 DEF RemoveSub
    <3> QED BY <3>2, <3>3
  <2>3. CASE RemoveDevice
    <3>1. PICK x \in Devices : device' = [device EXCEPT ![x] = Deleted]
      BY <2>3 DEF RemoveDevice, Present
    <3>2. \A d \in Devices : device'[d] \in {Deleted, [device[d] EXCEPT !.sub = Nobody], device[d]}
      BY <3>1 DEF GoodsInv, GoodsTypeOK
    <3>3. Write("removeDevice") /\ UNCHANGED sales
      BY <2>3 DEF RemoveDevice
    <3> QED BY <3>2, <3>3
  <2> QED BY <2>1, <2>2, <2>3
<1> QED
  BY <1>3, <1>4, DeskIsQuiet

LEMMA DevicesQuiet ==
  ASSUME GoodsInv, CreateDevice \/ UpdateDevice
  PROVE  QuietSale
<1>1. device \in [Devices -> DeviceRow]
  BY DEF GoodsInv, GoodsTypeOK
<1>2. Write("devices") /\ UNCHANGED sales
  BY DEF CreateDevice, UpdateDevice
<1>3. CASE CreateDevice
  <2>1. PICK d \in Devices, l \in LotsThere \cup {Nobody}, s \in SubsThere \cup {Nobody} :
          device' = [device EXCEPT ![d] = Unsold("in", l, s)]
    BY <1>3 DEF CreateDevice
  <2>2. device'[d].sale = 0 /\ \A x \in Devices \ {d} : device'[x] = device[x]
    BY <1>1, <2>1 DEF Unsold
  <2> QED BY <1>2, <2>2, DeskIsQuiet
<1>4. CASE UpdateDevice
  <2>1. PICK d \in InStock, l \in LotsThere, s \in SubsThere \cup {Nobody}, status \in {"in", "sold"} :
          device' = [device EXCEPT ![d] =
            [status |-> status, lot |-> l, sub |-> s, pallet |-> device[d].pallet,
             sale |-> device[d].sale, price |-> device[d].price, from |-> device[d].from]]
    BY <1>4 DEF UpdateDevice
  <2>2. d \in Devices /\ device[d].status = "in"
    BY DEF InStock
  <2>3. /\ device'[d].sale = device[d].sale /\ device'[d].price = device[d].price
        /\ \A x \in Devices \ {d} : device'[x] = device[x]
    BY <1>1, <2>1, <2>2
  <2> QED BY <1>2, <2>2, <2>3, DeskIsQuiet
<1> QED BY <1>3, <1>4

(* Moves, returns, and a process that stops. *)
LEMMA MovesQuiet ==
  ASSUME GoodsInv, AddAssets \/ TransferBatch \/ RemoveAssets \/ ReturnFromSold \/ ReopenLot \/ Crash
  PROVE  QuietSale
<1>1. device' = device /\ sales' = sales
  BY DEF AddAssets, TransferBatch, RemoveAssets, ReturnFromSold, ReopenLot, Crash, goods
<1>2. task'.op \in {"add", "take", "return", "none"}
  <2>1. CASE AddAssets
    <3>1. PICK p, ds : Start("pallets", Fill(p, ds))
      BY <2>1 DEF AddAssets
    <3> QED BY <3>1, Begins DEF Fill
  <2>2. CASE TransferBatch
    BY <2>2 DEF TransferBatch, Fill
  <2>3. CASE RemoveAssets
    <3>1. PICK ds : Start("pallets", [op |-> "take", todo |-> ds])
      BY <2>3 DEF RemoveAssets
    <3> QED BY <3>1, Begins
  <2>4. CASE ReturnFromSold
    <3>1. PICK ds, l : Start("return", [op |-> "return", todo |-> ds, lot |-> l, to |-> Nobody])
      BY <2>4 DEF ReturnFromSold
    <3> QED BY <3>1, Begins
  <2>5. CASE ReopenLot
    <3>1. task \in Returns /\ task' \in {NoTask, [task EXCEPT !.op = "return"]}
      BY <2>5, TaskOps DEF ReopenLot, Then, GoodsInv, GoodsTypeOK
    <3> QED BY <3>1 DEF Returns, NoTask
  <2>6. CASE Crash
    BY <2>6 DEF Crash, Then, NoTask
  <2> QED
    BY <2>1, <2>2, <2>3, <2>4, <2>5, <2>6
<1> QED
  BY <1>1, <1>2 DEF QuietSale, Selling

LEMMA OneByOneQuiet ==
  ASSUME GoodsInv, AddNext \/ TakeNext \/ ReturnNext
  PROVE  QuietSale
<1>1. device \in [Devices -> DeviceRow] /\ sales' = sales
  BY DEF GoodsInv, GoodsTypeOK, AddNext, TakeNext, ReturnNext
<1>2. CASE AddNext \/ TakeNext
  <2>1. task \in Adds \cup Takes /\ task.todo \subseteq Devices
    BY <1>2, TaskOps DEF GoodsInv, GoodsTypeOK, AddNext, TakeNext, Adds, Takes
  <2>2. PICK d \in task.todo, p \in {0, task.pallet} : device' = [device EXCEPT ![d].pallet = p] /\ task' = Less(d)
    BY <1>2 DEF AddNext, TakeNext, Then
  <2>3. task'.op \in {"add", "take", "none"}
    BY <2>1, <2>2, LessTask
  <2>4. d \in Devices
    BY <2>1
  <2>5. /\ device'[d].sale = device[d].sale /\ device'[d].price = device[d].price
        /\ device'[d].status = device[d].status /\ \A x \in Devices \ {d} : device'[x] = device[x]
    BY <1>1, <2>2, <2>4 DEF DeviceRow
  <2> QED
    BY <1>1, <2>3, <2>5 DEF QuietSale, Selling
<1>3. CASE ReturnNext
  <2>1. PICK d \in task.todo :
          /\ device' = [device EXCEPT ![d] = Back(d, Target(d))]
          /\ task' = [op |-> "reopen", todo |-> task.todo \ {d}, lot |-> task.lot, to |-> Target(d)]
    BY <1>3 DEF ReturnNext, Then
  <2>2. d \in Devices
    BY <1>3, TaskOps DEF GoodsInv, GoodsTypeOK, ReturnNext, Returns
  <2>3. Back(d, Target(d)).sale = 0
    BY DEF Back, Unsold
  <2>4. device'[d].sale = 0 /\ \A x \in Devices \ {d} : device'[x] = device[x]
    BY <1>1, <2>1, <2>2, <2>3
  <2> QED
    BY <1>1, <2>1, <2>4 DEF QuietSale, Selling
<1> QED
  BY <1>2, <1>3

(* Counted goods. *)
LEMMA CountedQuiet ==
  ASSUME GoodsInv, NEW q \in Requests, Counted(q) \/ PalletStep(q)
  PROVE  QuietSale
<1>1. CASE Counted(q)
  BY <1>1 DEF Counted, goodsVars, QuietSale, NoTask, Selling
<1>2. CASE PalletStep(q)
  <2> Step(q)
    BY <1>2 DEF PalletStep
  <2>1. req[q] # Idle
    BY DEF Idle, Step, Patch, Delete, Insert, Clear, ArchiveLine, Shrink, ArchiveNext, Empty,
                Put, Reopen, Stamp, LockRow, Refuse, Commit
  <2>2. task' = NoTask /\ sales' = sales
    BY <1>2, <2>1 DEF PalletStep, GoodsInv, TaskAlone, Busy
  <2>3. \/ device' = device
        \/ device' = [d \in Devices |-> Forgetting(d, req[q].pallet)]
    BY <1>2 DEF PalletStep
  <2>4. \A d \in Devices : /\ Forgetting(d, req[q].pallet).sale = device[d].sale
                           /\ Forgetting(d, req[q].pallet).price = device[d].price
                           /\ Forgetting(d, req[q].pallet).status = device[d].status
    BY DEF Forgetting
  <2>5. \A d \in Devices : /\ device'[d].sale = device[d].sale /\ device'[d].price = device[d].price
                           /\ device'[d].status = device[d].status
    BY <2>3, <2>4
  <2> QED
    BY <2>2, <2>5 DEF QuietSale, NoTask, Selling
<1> QED
  BY <1>1, <1>2

-----------------------------------------------------------------------------
(* The sales *)

(* The shares of a total, and its quotient with what is left, add up to it. *)
LEMMA ShareSum ==
  ASSUME NEW t \in Totals, t # <<>>, NEW n \in Nat, n # 0
  PROVE  \E c \in Int, v \in Int :
           Share(t, n, FALSE) = <<c>> /\ Share(t, n, TRUE) = <<v>> /\ c * (n - 1) + v = t[1]
<1> PICK m \in Int : m = n - 1
  OBVIOUS
<1> DEFINE c == (2 * t[1] + n) \div (2 * n)
           v == t[1] - c * m
<1>1. t[1] \in Int /\ c \in Int
  BY TotalTypes
<1>2. Share(t, n, FALSE) = <<c>> /\ Share(t, n, TRUE) = <<v>>
  BY DEF Share
<1> HIDE DEF c
<1>3. c * m \in Int
  BY <1>1
<1>4. v \in Int /\ c * m + v = t[1]
  BY <1>1, <1>3
<1> QED
  BY <1>1, <1>2, <1>4

LEMMA QuotientSum ==
  ASSUME NEW t \in Nat, NEW n \in Nat, n # 0, NEW m, m = n - 1
  PROVE  /\ t \div n \in Int /\ t % n \in Int
         /\ (t \div n) * m + ((t \div n) + (t % n)) = t
<1>1. t \div n \in Int /\ t % n \in Int /\ t = n * (t \div n) + (t % n)
  OBVIOUS
<1>2. PICK c \in Int, r \in Int : c = t \div n /\ r = t % n
  BY <1>1
<1>3. c * m = n * c - c /\ n * c \in Int
  OBVIOUS
<1> QED
  BY <1>1, <1>2, <1>3

(* Devices that all fetch the same, but for one. *)
LEMMA FetchedAllBut ==
  ASSUME NEW s, NEW l \in SoldBy(s)', NEW c \in Int, NEW v \in Int,
         \A d \in SoldBy(s)' : d # l => device'[d].price = <<c>>, device'[l].price = <<v>>
  PROVE  Fetched(s)' = c * (Cardinality(SoldBy(s)') - 1) + v
<1> DEFINE g == [d \in SoldBy(s)' |-> device'[d].price[1]]
<1>1. g[l] = v /\ \A d \in SoldBy(s)' : d # l => g[d] = c
  OBVIOUS
<1>2. Fetched(s)' = SumOver(g, SoldBy(s)')
  BY DEF Fetched
<1> HIDE DEF g
<1>3. PICK S : S = SoldBy(s)'
  OBVIOUS
<1>4. IsFiniteSet(S) /\ l \in S /\ g[l] \in Int /\ \A d \in S : d # l => g[d] = c
  BY <1>1, <1>3, SoldByFinite
<1>5. SumOver(g, S) = c * (Cardinality(S) - 1) + g[l]
  BY <1>4, SumOverAllBut
<1> QED
  BY <1>1, <1>2, <1>3, <1>5

(* A step on sale n, which has not ended, leaves those that have. *)
LEMMA SalesApart ==
  ASSUME GoodsInv, EndedFetch, NEW n, n \in DOMAIN sales => ~sales[n].ended,
         \A d \in Devices : device'[d] = device[d] \/ device'[d].sale = n,
         \A s \in DOMAIN sales' : s # n => s \in DOMAIN sales /\ sales'[s] = sales[s],
         n \in DOMAIN sales' /\ sales'[n].ended =>
           Cardinality(SoldBy(n)') <= sales'[n].units /\ Fetches(n, sales[n].total, sales[n].units)'
  PROVE  EndedFetch'
<1>1. ASSUME NEW s \in DOMAIN sales', s # n
      PROVE  SoldBy(s)' \subseteq SoldBy(s) /\ \A d \in SoldBy(s)' : device'[d].price = device[d].price
  BY <1>1 DEF SoldBy
<1> QED
  BY <1>1, EndedStand

LEMMA OneTotal ==
  ASSUME NEW t \in Totals, t # <<>>
  PROVE  t = <<t[1]>> /\ t[1] \in Int
<1>1. t \in Seq(Nat) /\ Len(t) = 1 /\ t[1] \in Nat
  BY TotalTypes, GoodsAssumption
<1> QED
  BY <1>1

(* Nothing changes but the request's own state. *)
LEMMA SameSale ==
  ASSUME device' = device, NEW s
  PROVE  /\ SoldBy(s)' = SoldBy(s)
         /\ \A total, n : Fetches(s, total, n)' = Fetches(s, total, n)
<1>1. SoldBy(s)' = SoldBy(s)
  BY DEF SoldBy
<1>2. Fetched(s)' = Fetched(s)
  BY <1>1, SameFetch
<1> QED
  BY <1>1, <1>2 DEF Fetches

LEMMA SaleBegins ==
  ASSUME GoodsInv, SaleInv, device' = device, NEW row \in SaleRow, ~row.ended, sales' = Append(sales, row),
         NEW n, n = NewSale
  PROVE  /\ Recorded' /\ EndedFetch'
         /\ n \in DOMAIN sales' /\ ~sales'[n].ended /\ SoldBy(n)' = {}
<1>1. /\ Len(sales) \in Nat /\ n = Len(sales) + 1 /\ DOMAIN sales = 1..Len(sales)
      /\ Len(sales') = Len(sales) + 1 /\ DOMAIN sales' = 1..(Len(sales) + 1) /\ sales'[n] = row
      /\ \A s \in DOMAIN sales' : s # n => s \in DOMAIN sales /\ sales'[s] = sales[s]
  BY SaleTypes, AddedSale DEF NewSale
<1>2. Recorded' /\ SoldBy(n)' = {}
  BY <1>1 DEF SaleInv, Recorded, SoldBy
<1>3. EndedFetch'
  BY <1>1, SalesApart DEF SaleInv
<1> QED
  BY <1>1, <1>2, <1>3

LEMMA PalletSaleOpens ==
  ASSUME GoodsInv, SaleInv, SellAssetPallet
  PROVE  SaleInv'
<1>1. PICK p \in Ids, total \in Totals :
        /\ Standing(p) \cap InStock # {}
        /\ Start("sellPallet", [op |-> "sellPallet", pallet |-> p, todo |-> Standing(p) \cap InStock, sale |-> NewSale,
                                total |-> total, count |-> Cardinality(Standing(p) \cap InStock)])
        /\ sales' = Append(sales, [total |-> total, units |-> 0, ended |-> FALSE])
        /\ device' = device
  BY DEF SellAssetPallet, Opened
<1>2. PICK unsold, n : n = NewSale /\ unsold = Standing(p) \cap InStock
  OBVIOUS
<1>3. PICK row : row = [total |-> total, units |-> 0, ended |-> FALSE]
  OBVIOUS
<1>4. row \in SaleRow /\ ~row.ended
  BY <1>3 DEF SaleRow
<1>5. /\ Recorded' /\ EndedFetch'
      /\ n \in DOMAIN sales' /\ ~sales'[n].ended /\ SoldBy(n)' = {}
  BY <1>1, <1>2, <1>3, <1>4, SaleBegins
<1>6. /\ task' = [op |-> "sellPallet", pallet |-> p, todo |-> unsold, sale |-> n,
                  total |-> total, count |-> Cardinality(unsold)]
      /\ unsold # {}
  BY <1>1, <1>2, Begins
<1>7. /\ task'.op = "sellPallet" /\ task'.sale = n /\ task'.todo = unsold /\ task'.count = Cardinality(unsold)
      /\ Cardinality(SoldBy(n)') = 0 /\ Cardinality(unsold) \in Nat
  BY <1>2, <1>5, <1>6, FS_EmptySet, CountOf DEF InStock
<1>8. OnSale'
  <2>1. /\ Cardinality(SoldBy(n)') + Cardinality(unsold) = Cardinality(unsold)
        /\ \A d \in SoldBy(n)' : FALSE
    BY <1>5, <1>7
  <2> QED
    BY <1>5, <1>6, <1>7, <2>1 DEF OnSale
<1> QED
  BY <1>5, <1>8 DEF SaleInv

LEMMA LotSaleOpens ==
  ASSUME GoodsInv, SaleInv, SellBatch
  PROVE  SaleInv'
<1>1. PICK l \in LotsThere, total \in Totals :
        /\ Start("sellLot",
             [op |-> IF {d \in InStock : device[d].lot = l} = {} THEN "close" ELSE "bulk", lot |-> l,
              todo |-> {d \in InStock : device[d].lot = l}, sale |-> NewSale, total |-> total,
              count |-> Cardinality({d \in InStock : device[d].lot = l})])
        /\ sales' = Append(sales, [total |-> total, units |-> 0, ended |-> FALSE])
        /\ device' = device
  BY DEF SellBatch, Opened
<1>2. PICK unsold, n : n = NewSale /\ unsold = {d \in InStock : device[d].lot = l}
  OBVIOUS
<1>3. PICK row : row = [total |-> total, units |-> 0, ended |-> FALSE]
  OBVIOUS
<1>4. row \in SaleRow /\ ~row.ended
  BY <1>3 DEF SaleRow
<1>5. /\ Recorded' /\ EndedFetch'
      /\ n \in DOMAIN sales' /\ ~sales'[n].ended /\ SoldBy(n)' = {}
  BY <1>1, <1>2, <1>3, <1>4, SaleBegins
<1>6. task' = [op |-> IF unsold = {} THEN "close" ELSE "bulk", lot |-> l, todo |-> unsold, sale |-> n,
               total |-> total, count |-> Cardinality(unsold)]
  <2>1. PICK t : t = [op |-> IF unsold = {} THEN "close" ELSE "bulk", lot |-> l, todo |-> unsold, sale |-> n,
                      total |-> total, count |-> Cardinality(unsold)]
    OBVIOUS
  <2>2. Start("sellLot", t)
    BY <1>1, <1>2, <2>1
  <2> QED
    BY <2>1, <2>2, Begins
<1>7. /\ task'.op = "bulk" \/ (task'.op = "close" /\ unsold = {})
      /\ task'.sale = n /\ task'.todo = unsold /\ task'.count = Cardinality(unsold)
      /\ Cardinality(SoldBy(n)') = 0 /\ (unsold = {} => Cardinality(unsold) = 0)
  BY <1>5, <1>6, FS_EmptySet
<1>8. task'.op = "close" => Fetches(task.sale, task.total, task.count)'
  BY <1>7 DEF Fetches
<1>9. OnSale'
  BY <1>5, <1>7, <1>8 DEF OnSale
<1> QED
  BY <1>5, <1>9 DEF SaleInv

(* A device sold on its own. *)
LEMMA OneSale ==
  ASSUME GoodsInv, SaleInv, Sell
  PROVE  SaleInv'
<1>1. PICK d \in InStock, price \in Totals :
        /\ device' = [device EXCEPT ![d] =
             SoldAs(d, NewSale, price, 0, IF device[d].pallet # 0 THEN device[d].pallet ELSE device[d].from)]
        /\ sales' = Append(sales, [total |-> price, units |-> 1, ended |-> TRUE])
  BY DEF Sell
<1>2. d \in Devices /\ device \in [Devices -> DeviceRow] /\ task' = NoTask
  BY DEF InStock, GoodsInv, GoodsTypeOK, Sell, Write, May
<1>3. PICK row, n : n = NewSale /\ row = [total |-> price, units |-> 1, ended |-> TRUE]
  OBVIOUS
<1>4. row \in SaleRow /\ row.total = price /\ row.units = 1
  BY <1>3 DEF SaleRow
<1>5. /\ Len(sales) \in Nat /\ n = Len(sales) + 1 /\ DOMAIN sales = 1..Len(sales)
      /\ Len(sales') = Len(sales) + 1 /\ DOMAIN sales' = 1..(Len(sales) + 1) /\ sales'[n] = row
      /\ \A s \in DOMAIN sales' : s # n => s \in DOMAIN sales /\ sales'[s] = sales[s]
  BY <1>1, <1>3, <1>4, SaleTypes, AddedSale DEF NewSale
<1>6. /\ device'[d].sale = n /\ device'[d].status = "sold" /\ device'[d].price = price
      /\ \A x \in Devices \ {d} : device'[x] = device[x]
  BY <1>1, <1>2, <1>3 DEF SoldAs
<1>7. Recorded' /\ SoldBy(n)' = {d}
  BY <1>2, <1>5, <1>6 DEF SaleInv, Recorded, SoldBy
<1>8. Cardinality(SoldBy(n)') = 1
  BY <1>7, FS_Singleton
<1>9. ASSUME price # <<>>
      PROVE  Fetched(n)' = price[1]
  <2>1. price = <<price[1]>> /\ price[1] \in Int
    BY <1>9, OneTotal
  <2>2. PICK v \in Int : v = price[1]
    BY <2>1
  <2>3. d \in SoldBy(n)' /\ 0 \in Int /\ device'[d].price = <<v>> /\ \A x \in SoldBy(n)' : x # d => device'[x].price = <<0>>
    BY <1>6, <1>7, <2>1, <2>2
  <2>4. Fetched(n)' = 0 * (Cardinality(SoldBy(n)') - 1) + v
    BY <2>3, FetchedAllBut
  <2> QED
    BY <1>8, <2>2, <2>4
<1>10. Fetches(n, price, 1)'
  BY <1>9 DEF Fetches
<1>11. Fetches(n, sales[n].total, sales[n].units)'
  BY <1>4, <1>5, <1>10 DEF Fetches
<1>12. EndedFetch'
  BY <1>4, <1>5, <1>6, <1>8, <1>11, SalesApart DEF SaleInv
<1>13. OnSale'
  BY <1>2 DEF OnSale, NoTask, Selling
<1> QED
  BY <1>7, <1>12, <1>13 DEF SaleInv

-----------------------------------------------------------------------------
(* The statements of a sale *)

LEMMA SaleUnderWay ==
  ASSUME GoodsInv, SaleInv, task.op \in Selling
  PROVE  /\ task.sale \in DOMAIN sales /\ task.sale \in 0..Len(sales) /\ task.sale # 0
         /\ ~sales[task.sale].ended /\ task.total \in Totals /\ task.todo \subseteq Devices /\ task.count \in Nat
<1>1. task \in PalletSales \cup LotSales
  BY TaskOps DEF GoodsInv, GoodsTypeOK, Selling
<1>2. task.sale \in DOMAIN sales /\ ~sales[task.sale].ended
  BY DEF SaleInv, OnSale
<1> QED
  BY <1>1, <1>2, SaleTypes DEF PalletSales, LotSales

(* A statement of a sale changes only devices of that sale, and the sale goes on. *)
LEMMA SaleGoesOn ==
  ASSUME GoodsInv, SaleInv, task.op \in Selling, sales' = sales,
         \A d \in Devices : \/ device'[d] = device[d]
                            \/ device'[d].sale = task.sale /\ device'[d].status = "sold"
  PROVE  Recorded' /\ EndedFetch'
<1> PICK s : s = task.sale
  OBVIOUS
<1>1. s \in DOMAIN sales /\ s \in 0..Len(sales) /\ ~sales[s].ended
  BY SaleUnderWay
<1>2. Recorded'
  BY <1>1 DEF SaleInv, Recorded
<1>3. EndedFetch'
  BY <1>1, SalesApart DEF SaleInv
<1> QED
  BY <1>2, <1>3

LEMMA PalletSaleGoesOn ==
  ASSUME GoodsInv, SaleInv, SellNext
  PROVE  SaleInv'
<1>1. task.op = "sellPallet" /\ task.op \in Selling
  BY DEF SellNext, Selling
<1> PICK s, n, todo, total : s = task.sale /\ n = task.count /\ todo = task.todo /\ total = task.total
  OBVIOUS
<1>2. /\ s \in DOMAIN sales /\ s \in 0..Len(sales) /\ s # 0 /\ ~sales[s].ended
      /\ total \in Totals /\ todo \subseteq Devices /\ n \in Nat
  BY <1>1, SaleUnderWay
<1>3. /\ todo # {} /\ Cardinality(SoldBy(s)) + Cardinality(todo) = n /\ n # 0 /\ todo \subseteq InStock
      /\ \A x \in SoldBy(s) : device[x].price = Share(total, n, FALSE)
  <2>1. TaskReads /\ OnSale
    BY DEF GoodsInv, SaleInv
  <2> QED
    BY <1>1, <2>1 DEF TaskReads, OnSale
<1>4. PICK d \in todo :
        /\ device' = [device EXCEPT ![d] = SoldAs(d, s, Share(total, n, todo = {d}), device[d].pallet, task.pallet)]
        /\ task' = [op |-> IF todo = {d} THEN "ship" ELSE "sellPallet", pallet |-> task.pallet,
                    todo |-> todo \ {d}, sale |-> s, total |-> total, count |-> n]
        /\ sales' = sales
  BY DEF SellNext, Then
<1>5. d \in Devices /\ device[d].status = "in" /\ device[d].sale = 0 /\ device \in [Devices -> DeviceRow]
  BY <1>2, <1>3 DEF InStock, SaleInv, Recorded, GoodsInv, GoodsTypeOK
<1> PICK price : price = Share(total, n, todo = {d})
  OBVIOUS
<1>6. /\ device'[d].sale = s /\ device'[d].status = "sold" /\ device'[d].price = price
      /\ \A x \in Devices \ {d} : device'[x] = device[x]
  BY <1>4, <1>5 DEF SoldAs
<1>7. Recorded' /\ EndedFetch'
  BY <1>1, <1>4, <1>6, SaleGoesOn
<1>8. SoldBy(s)' = SoldBy(s) \cup {d} /\ d \notin SoldBy(s)
  BY <1>2, <1>5, <1>6 DEF SoldBy
<1>9. /\ Cardinality(SoldBy(s)') = Cardinality(SoldBy(s)) + 1
      /\ Cardinality(todo \ {d}) = Cardinality(todo) - 1 /\ Cardinality(todo) \in Nat
  <2>1. IsFiniteSet(SoldBy(s)) /\ IsFiniteSet(todo) /\ Cardinality(todo) \in Nat
    BY <1>2, SoldByFinite, CountOf
  <2>2. Cardinality(SoldBy(s) \cup {d}) = Cardinality(SoldBy(s)) + 1
    BY <1>8, <2>1, FS_AddElement
  <2>3. Cardinality(todo \ {d}) = Cardinality(todo) - 1
    BY <2>1, FS_RemoveElement
  <2> QED
    BY <1>8, <2>1, <2>2, <2>3
<1>10. /\ task'.sale = s /\ task'.todo = todo \ {d} /\ task'.total = total /\ task'.count = n
       /\ task'.op = IF todo = {d} THEN "ship" ELSE "sellPallet"
  BY <1>4
<1>11. \A x \in SoldBy(s) : device'[x].price = Share(total, n, FALSE)
  BY <1>3, <1>6, <1>8 DEF SoldBy
<1>12. CASE todo # {d}
  <2>1. task'.op = "sellPallet" /\ task'.todo # {}
    BY <1>3, <1>10, <1>12
  <2>2. Cardinality(SoldBy(s)') + Cardinality(task'.todo) = n
    BY <1>2, <1>3, <1>9, <1>10, SoldByFinite
  <2>3. \A x \in SoldBy(s)' : device'[x].price = Share(total, n, FALSE)
    <3>1. (todo = {d}) = FALSE
      BY <1>12
    <3>2. price = Share(total, n, FALSE)
      BY <3>1
    <3> QED
      BY <1>6, <1>8, <1>11, <3>2
  <2>4. OnSale'
    BY <1>2, <1>4, <1>10, <2>1, <2>2, <2>3 DEF OnSale, Share
  <2> QED
    BY <1>7, <2>4 DEF SaleInv
<1>13. CASE todo = {d}
  <2>1. Cardinality(todo) = 1 /\ Cardinality(SoldBy(s)') = n
    BY <1>3, <1>9, <1>13, FS_Singleton, SoldByFinite
  <2>2. ASSUME total # <<>>
        PROVE  Fetched(s)' = total[1]
    <3>1. PICK c \in Int, v \in Int :
            Share(total, n, FALSE) = <<c>> /\ Share(total, n, TRUE) = <<v>> /\ c * (n - 1) + v = total[1]
      BY <1>2, <1>3, <2>2, ShareSum
    <3>2. (todo = {d}) = TRUE
      BY <1>13
    <3>3. price = <<v>>
      BY <3>1, <3>2
    <3>4. d \in SoldBy(s)' /\ device'[d].price = <<v>> /\ \A x \in SoldBy(s)' : x # d => device'[x].price = <<c>>
      BY <1>6, <1>8, <1>11, <3>1, <3>3
    <3>5. Fetched(s)' = c * (Cardinality(SoldBy(s)') - 1) + v
      BY <3>4, FetchedAllBut
    <3> QED
      BY <2>1, <3>1, <3>5
  <2>3. task'.op = "ship" /\ Fetches(s, total, n)'
    BY <1>10, <1>13, <2>2 DEF Fetches
  <2>4. OnSale'
    BY <1>2, <1>4, <1>10, <2>1, <2>3 DEF OnSale, Fetches
  <2> QED
    BY <1>7, <2>4 DEF SaleInv
<1> QED
  BY <1>12, <1>13

LEMMA LotSold ==
  ASSUME GoodsInv, SaleInv, Bulk
  PROVE  SaleInv'
<1>1. task.op = "bulk" /\ task.op \in Selling /\ task \in LotSales /\ sales' = sales
  BY TaskOps DEF Bulk, Selling, GoodsInv, GoodsTypeOK
<1> PICK s, n, todo, total : s = task.sale /\ n = task.count /\ todo = task.todo /\ total = task.total
  OBVIOUS
<1>2. /\ s \in DOMAIN sales /\ s \in 0..Len(sales) /\ s # 0 /\ ~sales[s].ended
      /\ total \in Totals /\ todo \subseteq Devices /\ n \in Nat
  BY <1>1, SaleUnderWay
<1>3. /\ todo = {d \in InStock : device[d].lot = task.lot} /\ n = Cardinality(todo)
      /\ SoldBy(s) = {}
  <2>1. TaskReads /\ OnSale
    BY DEF GoodsInv, SaleInv
  <2> QED
    BY <1>1, <2>1 DEF TaskReads, OnSale
<1>4. PICK op \in {"price", "close"} : task' = [task EXCEPT !.op = op] /\ (op = "close" => total = <<>>)
  BY DEF Bulk, Then
<1>5. ASSUME NEW d \in Devices
      PROVE  /\ d \in todo => device'[d].status = "sold" /\ device'[d].sale = s
             /\ d \notin todo => device'[d] = device[d]
  <2>1. BulkSell(d) <=> d \in todo
    BY <1>3 DEF BulkSell
  <2>2. device'[d] = IF BulkSell(d) THEN SoldAs(d, s, device[d].price, device[d].pallet, device[d].from) ELSE device[d]
    BY DEF Bulk
  <2> QED
    BY <2>1, <2>2 DEF SoldAs
<1>6. Recorded' /\ EndedFetch'
  BY <1>1, <1>5, SaleGoesOn
<1>7. SoldBy(s)' = todo
  BY <1>2, <1>3, <1>5 DEF SoldBy
<1>8. task'.op = op /\ task'.todo = todo /\ task'.sale = s /\ task'.total = total /\ task'.count = n
  BY <1>1, <1>4, LotTask
<1>9. op = "close" => Fetches(s, total, n)'
  BY <1>4 DEF Fetches
<1>10. OnSale'
  BY <1>1, <1>2, <1>3, <1>7, <1>8, <1>9 DEF OnSale, Fetches
<1> QED
  BY <1>6, <1>10 DEF SaleInv

LEMMA LotPriced ==
  ASSUME GoodsInv, SaleInv, PriceAll \/ PriceRest
  PROVE  SaleInv'
<1>1. task.op \in {"price", "rest"} /\ task.op \in Selling /\ task \in LotSales /\ sales' = sales
  BY TaskOps DEF PriceAll, PriceRest, Selling, GoodsInv, GoodsTypeOK
<1> PICK s, n, todo, total : s = task.sale /\ n = task.count /\ todo = task.todo /\ total = task.total
  OBVIOUS
<1>2. /\ s \in DOMAIN sales /\ s # 0 /\ ~sales[s].ended
      /\ total \in Totals /\ todo \subseteq Devices /\ n \in Nat
  BY <1>1, SaleUnderWay
<1>3. /\ todo # {} /\ n = Cardinality(todo) /\ SoldBy(s) = todo /\ total # <<>>
      /\ \A d \in todo : device[d].status = "sold" /\ device[d].sale = s
      /\ task.op = "rest" => \A d \in todo : device[d].price = <<total[1] \div n>>
  <2>1. TaskReads /\ OnSale
    BY DEF GoodsInv, SaleInv
  <2> QED
    BY <1>1, <2>1 DEF TaskReads, OnSale
<1>4. device \in [Devices -> DeviceRow] /\ n # 0 /\ total[1] \in Nat
  BY <1>2, <1>3, CountOf, TotalTypes DEF GoodsInv, GoodsTypeOK
<1>5. CASE PriceAll
  <2>1. device' = [d \in Devices |-> IF d \in todo THEN [device[d] EXCEPT !.price = <<total[1] \div n>>] ELSE device[d]]
    BY <1>5 DEF PriceAll
  <2>2. \A d \in Devices : /\ device'[d].sale = device[d].sale /\ device'[d].status = device[d].status
                           /\ d \notin todo => device'[d] = device[d]
    BY <1>4, <2>1 DEF DeviceRow
  <2>3. Recorded' /\ EndedFetch'
    BY <1>1, <1>3, <2>2, SaleGoesOn
  <2>4. SoldBy(s)' = todo
    BY <1>3, <2>2 DEF SoldBy
  <2>5. task' = [task EXCEPT !.op = "rest"]
    BY <1>5 DEF PriceAll, Then
  <2>6. task'.op = "rest" /\ task'.todo = todo /\ task'.sale = s
    BY <1>1, <2>5, LotTask
  <2>7. OnSale'
    BY <1>1, <1>2, <2>4, <2>6 DEF OnSale
  <2> QED
    BY <2>3, <2>7 DEF SaleInv
<1>6. CASE PriceRest
  <2> PICK c, r : c = total[1] \div n /\ r = total[1] % n
    OBVIOUS
  <2>1. c \in Int /\ r \in Int /\ c * (n - 1) + (c + r) = total[1]
    <3> PICK m : m = n - 1
      OBVIOUS
    <3> QED
      BY <1>2, <1>4, QuotientSum
  <2>2. PICK d \in todo : device' = [device EXCEPT ![d].price = <<@[1] + r>>]
    BY <1>6 DEF PriceRest
  <2>3. task.op = "rest" /\ \A x \in todo : device[x].price = <<c>>
    BY <1>3, <1>6 DEF PriceRest
  <2>4. device[d].price[1] = c
    BY <2>3
  <2>5. device' = [device EXCEPT ![d].price = <<c + r>>]
    BY <2>2, <2>4
  <2>6. /\ device'[d].price = <<c + r>> /\ \A x \in Devices \ {d} : device'[x] = device[x]
        /\ \A x \in Devices : device'[x].sale = device[x].sale /\ device'[x].status = device[x].status
    BY <1>2, <1>4, <2>5 DEF DeviceRow
  <2>7. Recorded' /\ EndedFetch'
    BY <1>1, <1>3, <2>6, SaleGoesOn
  <2>8. SoldBy(s)' = todo
    BY <1>3, <2>6 DEF SoldBy
  <2>9. Fetched(s)' = c * (Cardinality(SoldBy(s)') - 1) + (c + r)
    <3>1. PICK v \in Int : v = c + r
      BY <2>1
    <3>2. d \in SoldBy(s)' /\ device'[d].price = <<v>> /\ \A x \in SoldBy(s)' : x # d => device'[x].price = <<c>>
      BY <1>2, <2>3, <2>6, <2>8, <3>1
    <3>3. Fetched(s)' = c * (Cardinality(SoldBy(s)') - 1) + v
      BY <2>1, <3>2, FetchedAllBut
    <3> QED
      BY <3>1, <3>3
  <2>10. Fetches(s, total, n)'
    BY <1>3, <2>1, <2>8, <2>9 DEF Fetches
  <2>11. task' = [task EXCEPT !.op = "close"]
    BY <1>6 DEF PriceRest, Then
  <2>12. task'.op = "close" /\ task'.todo = todo /\ task'.sale = s /\ task'.total = total /\ task'.count = n
    BY <1>1, <2>11, LotTask
  <2>13. OnSale'
    BY <1>1, <1>2, <1>3, <2>8, <2>10, <2>12 DEF OnSale, Fetches
  <2> QED
    BY <2>7, <2>13 DEF SaleInv
<1> QED
  BY <1>5, <1>6

LEMMA SaleEnded ==
  ASSUME GoodsInv, SaleInv, Ship \/ CloseLot
  PROVE  SaleInv'
<1>1. /\ task.op \in {"ship", "close"} /\ task.op \in Selling /\ Ended /\ task' = NoTask /\ device' = device
  BY DEF Ship, CloseLot, Then, Selling
<1> PICK s, n, total : s = task.sale /\ n = task.count /\ total = task.total
  OBVIOUS
<1>2. s \in DOMAIN sales /\ ~sales[s].ended /\ n \in Nat
  BY <1>1, SaleUnderWay
<1>3. Cardinality(SoldBy(s)) = n /\ Fetches(s, total, n)
  BY <1>1 DEF SaleInv, OnSale
<1> PICK row : row = [total |-> total, units |-> n, ended |-> TRUE]
  OBVIOUS
<1>4. sales' = [sales EXCEPT ![s] = row]
  BY <1>1 DEF Ended
<1>5. Len(sales) \in Nat /\ DOMAIN sales = 1..Len(sales) /\ sales \in Seq(SaleRow) /\ sales' \in Seq(SaleRow)
  BY <1>1, SaleTypes, SaleEnds, TaskOps DEF GoodsInv, GoodsTypeOK, Ended
<1>6. /\ DOMAIN sales' = DOMAIN sales /\ sales'[s] = row
      /\ \A x \in DOMAIN sales' : x # s => x \in DOMAIN sales /\ sales'[x] = sales[x]
  BY <1>2, <1>4
<1>7. Len(sales') = Len(sales)
  BY <1>5, <1>6, LenProperties
<1>8. Recorded'
  BY <1>1, <1>7 DEF SaleInv, Recorded
<1>9. row.total = total /\ row.units = n
  OBVIOUS
<1>10. Cardinality(SoldBy(s)') <= sales'[s].units /\ Fetches(s, sales[s].total, sales[s].units)'
  <2>1. SoldBy(s)' = SoldBy(s) /\ Fetches(s, total, n)'
    BY <1>1, <1>3, SameSale
  <2> QED
    BY <1>2, <1>3, <1>6, <1>9, <2>1 DEF Fetches
<1>11. EndedFetch'
  BY <1>1, <1>2, <1>6, <1>10, SalesApart DEF SaleInv
<1>12. OnSale'
  BY <1>1 DEF OnSale, NoTask, Selling
<1> QED
  BY <1>8, <1>11, <1>12 DEF SaleInv

LEMMA NextSale ==
  ASSUME GoodsInv, SaleInv, [GoodsNext]_allVars
  PROVE  SaleInv'
<1>1. CASE Desk
  <2>1. CASE Sell \/ SellAssetPallet \/ SellBatch
    BY <2>1, OneSale, PalletSaleOpens, LotSaleOpens
  <2> QED
    BY <1>1, <2>1, QuietKeeps, LotsQuiet, RemovesQuiet, DevicesQuiet, MovesQuiet DEF Desk
<1>2. CASE Statement
  BY <1>2, QuietKeeps, OneByOneQuiet, MovesQuiet, PalletSaleGoesOn, LotSold, LotPriced, SaleEnded DEF Statement
<1>3. CASE Crash \/ \E q \in Requests : Counted(q) \/ PalletStep(q)
  BY <1>3, QuietKeeps, MovesQuiet, CountedQuiet
<1>4. CASE UNCHANGED allVars
  <2>1. device' = device /\ sales' = sales /\ task' = task
    BY <1>4 DEF allVars, goodsVars
  <2>2. Recorded'
    BY <2>1 DEF SaleInv, Recorded
  <2>3. /\ \A s : Cardinality(SoldBy(s)') = Cardinality(SoldBy(s)) /\ SoldBy(s)' = SoldBy(s)
        /\ \A s, total, n : Fetches(s, total, n)' = Fetches(s, total, n)
    BY <2>1, SameSale
  <2>4. EndedFetch'
    BY <2>1, <2>3 DEF SaleInv, EndedFetch
  <2>5. OnSale'
    BY <2>1, <2>3 DEF SaleInv, OnSale
  <2> QED
    BY <2>2, <2>4, <2>5 DEF SaleInv
<1> QED
  BY <1>1, <1>2, <1>3, <1>4 DEF GoodsNext

(* A whole sale that ran to its end fetched the total it was entered with, to the penny, for as long as its
   devices are all still sold: the shares of pallets.service.ts, the quotient and rest of batches.service.ts. *)
THEOREM SalesFetchTheirTotal == GoodsSpec => []SalesAddUp
<1>1. GoodsInit => SaleInv
  <2> SUFFICES ASSUME GoodsInit PROVE SaleInv
    OBVIOUS
  <2>1. sales = <<>> /\ task = NoTask /\ Len(sales) = 0 /\ DOMAIN sales = {}
    BY DEF GoodsInit
  <2>2. \A d \in Devices : device[d].sale = 0
    BY DEF GoodsInit, Unsold, NoDevice
  <2> QED
    BY <2>1, <2>2 DEF SaleInv, Recorded, EndedFetch, OnSale, NoTask, Selling
<1>2. GoodsInv /\ SaleInv /\ [GoodsNext]_allVars => SaleInv'
  BY NextSale
<1>3. SaleInv => SalesAddUp
  BY DEF SaleInv, EndedFetch, Fetches, Fetched, SalesAddUp
<1> QED
  BY <1>1, <1>2, <1>3, GoodsHold, PTL DEF GoodsSpec
=============================================================================
