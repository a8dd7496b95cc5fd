----------------------------- MODULE PalletStock -----------------------------
(***************************************************************************)
(* pallets/pallets.service.ts: pallets of counted goods.  A line is so many*)
(* units of an item on a pallet; selling moves units into the Sold archive,*)
(* a return moves them back, a merge moves two pallets' lines to a new one.*)
(* Only the merge is a transaction; every other request reads, decides and *)
(* then writes one statement at a time.                                    *)
(*                                                                         *)
(* An item is what a returned line is matched by: its product, or else its *)
(* variant.  A pallet's id is its place in lock order.  Prices, labels and *)
(* the devices on asset pallets are left out.                              *)
(***************************************************************************)
EXTENDS Integers, FiniteSets, Sequences, Sums

CONSTANTS Requests,     \* the requests that may run at once
          Nobody,       \* the owner of an unlocked pallet
          Items,        \* what is counted
          Stocked,      \* the lines in stock at the start, on open pallets 1..Pallets
          Pallets,      \* how many pallets there are at the start
          Worlds,       \* who may act beside whom: see MayBegin
          MaxQty,       \* bound on the units of a new line
          MaxPallets,   \* bounds on the pallets and the lines ever made, and on the
          MaxLines,     \* requests
          MaxRequests

ASSUME StockAssumption ==
  /\ Nobody \notin Requests
  /\ Worlds \subseteq {"alone", "merging"}
  /\ {Pallets, MaxQty, MaxPallets, MaxLines, MaxRequests} \subseteq Nat /\ Pallets <= MaxPallets
  /\ Stocked \in Seq([pallet : 1..Pallets, item : Items, qty : Nat])

VARIABLES pallet,   \* the pallets: status ("none" before, "deleted" after), layout
          line,     \* every line ever made; one that is gone has pallet 0
          sold,     \* the Sold archive
          merges,   \* pallet_merges: <<source, result>>
          lock,     \* who holds a pallet's row FOR UPDATE
          req,      \* what each request still has to do, and what it has read
          booked,   \* units of each item booked in and never booked out by hand
          world, made

stock == <<pallet, line, sold, merges, booked>>
vars == <<pallet, line, sold, merges, lock, req, booked, world, made>>

Ids == 1..MaxPallets

Statuses == {"open", "shipped", "merged"}   \* "ready" is treated as "open" everywhere

NoPallet == [status |-> "none", layout |-> "none"]

Idle == [op |-> "idle"]

Exists(p) == p \in Ids /\ pallet[p].status \in Statuses

\* assertPallet: a merged pallet refuses.
Live(p) == Exists(p) /\ pallet[p].status # "merged"

On(p) == {l \in DOMAIN line : line[l].pallet = p}

\* A statement that updates a pallet's row, or inserts a row that refers to it, waits.
Unlocked(p) == lock[p] = Nobody

\* The next pallet's id, if the bound allows one.
NewIds == {p \in Ids : pallet[p].status = "none" /\ \A s \in 1..(p - 1) : pallet[s].status # "none"}

-----------------------------------------------------------------------------
(* Requests *)

Busy == {q \in Requests : req[q] # Idle}

OnOneLine == {"sell", "updateLine", "removeLine"}

\* alone: one request at a time, of any kind.  merging: merges, beside each other and
\* beside one request on one line.  Nothing in the code keeps an added line, an edited
\* pallet, a layout, a return or a whole pallet's sale from running beside a merge, or
\* two sales beside each other: those are left out.
MayBegin(q, op) ==
  /\ req[q] = Idle /\ made < MaxRequests
  /\ IF world = "merging"
     THEN op = "lock" \/ (op \in OnOneLine /\ \A r \in Busy : req[r].op \in {"lock", "merge"})
     ELSE Busy = {}

Begin(q, r) ==
  /\ MayBegin(q, r.op)
  /\ req' = [req EXCEPT ![q] = r]
  /\ made' = made + 1
  /\ UNCHANGED <<stock, lock, world>>

Go(q, r) == req' = [req EXCEPT ![q] = r] /\ UNCHANGED <<lock, world, made>>

Done(q) == Go(q, Idle)

Book(item, n) == booked' = [booked EXCEPT ![item] = @ + n]

\* The units of an item in some of the lines, or in the archive.
Units(ls, i) == SumTo([l \in DOMAIN line |-> IF l \in ls /\ line[l].item = i THEN line[l].qty ELSE 0], Len(line))

Archived(i) ==
  SumTo([s \in DOMAIN sold |-> IF sold[s].item = i /\ ~sold[s].back THEN sold[s].qty ELSE 0], Len(sold))

OnPallets == {l \in DOMAIN line : line[l].pallet # 0}

\* The lines in ls go away with their units.
Drop(ls) == line' = [l \in DOMAIN line |-> IF l \in ls THEN [line[l] EXCEPT !.pallet = 0] ELSE line[l]]

SetQty(l, n) == line' = [line EXCEPT ![l].qty = n]

BookOut(ls) == booked' = [i \in Items |-> booked[i] - Units(ls, i)]

-----------------------------------------------------------------------------
(* Pallets *)

\* Nothing keeps the status in the request from being "merged".
Create(q) ==
  /\ MayBegin(q, "create")
  /\ \E p \in NewIds, s \in Statuses, layout \in {"variant", "asset"} :
       pallet' = [pallet EXCEPT ![p] = [status |-> s, layout |-> layout]]
  /\ made' = made + 1
  /\ UNCHANGED <<line, sold, merges, booked, lock, req, world>>

\* The pallet, then a line per row of its grid: here one row, or none.
CreateFromSpec(q) ==
  /\ MayBegin(q, "create")
  /\ \E p \in NewIds, i \in Items, n \in 0..MaxQty :
       /\ pallet' = [pallet EXCEPT ![p] = [status |-> "open", layout |-> "spec"]]
       /\ \E next \in {Idle, [op |-> "insert", pallet |-> p, item |-> i, qty |-> n]} :
            req' = [req EXCEPT ![q] = next]
  /\ made' = made + 1
  /\ UNCHANGED <<line, sold, merges, booked, lock, world>>

Update(q) ==
  \E p \in Ids, s \in {"open", "shipped", "none"}, layout \in {"variant", "asset", "none"} :
    Live(p) /\ Begin(q, [op |-> "patch", pallet |-> p, status |-> s, layout |-> layout])

\* What the request has goes in, whatever the pallet's status is by now.
Patch(q) ==
  LET r == req[q] IN
  /\ r.op = "patch" /\ Unlocked(r.pallet)
  /\ pallet' = IF ~Exists(r.pallet) THEN pallet
               ELSE [pallet EXCEPT ![r.pallet] =
                       [status |-> IF r.status = "none" THEN pallet[r.pallet].status ELSE r.status,
                        layout |-> IF r.layout = "none" THEN pallet[r.pallet].layout ELSE r.layout]]
  /\ Done(q) /\ UNCHANGED <<line, sold, merges, booked>>

RemovePallet(q) == \E p \in Ids : Live(p) /\ Begin(q, [op |-> "delete", pallet |-> p])

\* Its lines go with it, sold rows forget it, so do merges that it came out of.
Delete(q) ==
  LET p == req[q].pallet IN
  /\ req[q].op = "delete" /\ Unlocked(p)
  /\ pallet' = [pallet EXCEPT ![p] = [status |-> "deleted", layout |-> "none"]]
  /\ Drop(On(p)) /\ BookOut(On(p))
  /\ sold' = [s \in DOMAIN sold |-> IF sold[s].pallet = p THEN [sold[s] EXCEPT !.pallet = 0] ELSE sold[s]]
  /\ merges' = {m \in merges : p \notin {m[1], m[2]}}
  /\ Done(q)

-----------------------------------------------------------------------------
(* Lines *)

AddLine(q) ==
  \E p \in Ids, i \in Items, n \in 0..MaxQty :
    /\ Live(p) /\ pallet[p].layout # "asset"
    /\ Begin(q, [op |-> "insert", pallet |-> p, item |-> i, qty |-> n])

\* The foreign key refuses a pallet that is gone, not one that is merged.
Insert(q) ==
  LET r == req[q] IN
  /\ r.op = "insert" /\ Unlocked(r.pallet) /\ Len(line) < MaxLines
  /\ IF Exists(r.pallet)
     THEN line' = Append(line, [pallet |-> r.pallet, item |-> r.item, qty |-> r.qty]) /\ Book(r.item, r.qty)
     ELSE UNCHANGED <<line, booked>>
  /\ Done(q) /\ UNCHANGED <<pallet, sold, merges>>

\* The quantity is set, on whatever pallet the line is: nothing asks about the pallet.
UpdateLine(q) ==
  /\ MayBegin(q, "updateLine")
  /\ \E l \in DOMAIN line, n \in 0..MaxQty :
       /\ line[l].pallet # 0
       /\ SetQty(l, n)
       /\ Book(line[l].item, n - line[l].qty)
  /\ made' = made + 1
  /\ UNCHANGED <<pallet, sold, merges, lock, req, world>>

RemoveLine(q) ==
  /\ MayBegin(q, "removeLine")
  /\ \E l \in DOMAIN line : line[l].pallet # 0 /\ Drop({l}) /\ BookOut({l})
  /\ made' = made + 1
  /\ UNCHANGED <<pallet, sold, merges, lock, req, world>>

ReplaceSpec(q) ==
  \E p \in Ids, i \in Items, n \in 0..MaxQty :
    /\ Live(p) /\ pallet[p].layout # "asset"
    /\ Begin(q, [op |-> "clear", pallet |-> p, item |-> i, qty |-> n])

\* Every line goes, then the grid's rows come, if it has any.
Clear(q) ==
  /\ req[q].op = "clear"
  /\ Drop(On(req[q].pallet)) /\ BookOut(On(req[q].pallet))
  /\ Done(q) \/ Go(q, [req[q] EXCEPT !.op = "insert"])
  /\ UNCHANGED <<pallet, sold, merges>>

-----------------------------------------------------------------------------
(* Selling *)

Row(p, r) == [pallet |-> p, item |-> r.item, qty |-> r.qty, back |-> FALSE]

SellLine(q) ==
  \E l \in DOMAIN line : \E n \in 1..line[l].qty :
    /\ Live(line[l].pallet)
    /\ Begin(q, [op |-> "sell", pallet |-> line[l].pallet, line |-> l, item |-> line[l].item,
              qty |-> n, seen |-> line[l].qty])

\* The archive row first; then the line shrinks from what was read of it.
ArchiveLine(q) ==
  LET r == req[q] IN
  /\ r.op = "sell" /\ Unlocked(r.pallet)
  /\ IF Exists(r.pallet)
     THEN sold' = Append(sold, Row(r.pallet, r)) /\ Go(q, [r EXCEPT !.op = "shrink"])
     ELSE UNCHANGED sold /\ Done(q)
  /\ UNCHANGED <<pallet, line, merges, booked>>

Shrink(q) ==
  LET r == req[q] IN
  /\ r.op = "shrink"
  /\ IF r.qty >= r.seen THEN Drop({r.line}) ELSE SetQty(r.line, r.seen - r.qty)
  /\ Done(q) /\ UNCHANGED <<pallet, sold, merges, booked>>

SellPallet(q) ==
  \E p \in Ids :
    /\ Live(p) /\ pallet[p].layout # "asset"
    /\ \E l \in On(p) : line[l].qty > 0
    /\ Begin(q, [op |-> "sellAll", pallet |-> p,
                 todo |-> {[line |-> l, item |-> line[l].item, qty |-> line[l].qty] :
                             l \in {m \in On(p) : line[m].qty > 0}}])

ArchiveNext(q) ==
  LET r == req[q] IN
  /\ r.op = "sellAll" /\ Unlocked(r.pallet)
  /\ \E t \in r.todo :
       IF Exists(r.pallet)
       THEN /\ sold' = Append(sold, Row(r.pallet, t))
            /\ Go(q, [op |-> IF r.todo = {t} THEN "empty" ELSE "sellAll", pallet |-> r.pallet, todo |-> r.todo \ {t}])
       ELSE UNCHANGED sold /\ Done(q)
  /\ UNCHANGED <<pallet, line, merges, booked>>

\* Whatever is on the pallet by now goes; then it is shipped.
Empty(q) ==
  /\ req[q].op = "empty"
  /\ Drop(On(req[q].pallet))
  /\ Go(q, [op |-> "patch", pallet |-> req[q].pallet, status |-> "shipped", layout |-> "none"])
  /\ UNCHANGED <<pallet, sold, merges, booked>>

-----------------------------------------------------------------------------
(* Returns, one or in bulk: to the pallet the goods were sold from, or to any *)

Return(q) ==
  \E s \in DOMAIN sold, p \in Ids :
    /\ ~sold[s].back /\ Live(p)
    /\ LET match == {l \in On(p) : line[l].item = sold[s].item} IN
       \E l \in IF match = {} THEN {0} ELSE match :
         Begin(q, [op |-> "put", pallet |-> p, line |-> l, item |-> sold[s].item, qty |-> sold[s].qty,
                   seen |-> IF l = 0 THEN 0 ELSE line[l].qty, sale |-> s, status |-> pallet[p].status])

Reopens(r) == IF r.status = "shipped" THEN "reopen" ELSE "stamp"

\* Onto a matching line, at the quantity read plus the returned; else a new line.
Put(q) ==
  LET r == req[q] IN
  /\ r.op = "put"
  /\ \/ /\ r.line # 0
        /\ SetQty(r.line, r.seen + r.qty)
        /\ Go(q, [r EXCEPT !.op = Reopens(r)])
     \/ /\ r.line = 0 /\ Unlocked(r.pallet) /\ Len(line) < MaxLines
        /\ IF Exists(r.pallet)
           THEN /\ line' = Append(line, [pallet |-> r.pallet, item |-> r.item, qty |-> r.qty])
                /\ Go(q, [r EXCEPT !.op = Reopens(r)])
           ELSE UNCHANGED line /\ Done(q)
  /\ UNCHANGED <<pallet, sold, merges, booked>>

Reopen(q) ==
  LET r == req[q] IN
  /\ r.op = "reopen" /\ Unlocked(r.pallet)
  /\ pallet' = IF Exists(r.pallet) THEN [pallet EXCEPT ![r.pallet].status = "open"] ELSE pallet
  /\ Go(q, [r EXCEPT !.op = "stamp"]) /\ UNCHANGED <<line, sold, merges, booked>>

Stamp(q) ==
  /\ req[q].op = "stamp"
  /\ sold' = [sold EXCEPT ![req[q].sale].back = TRUE]
  /\ Done(q) /\ UNCHANGED <<pallet, line, merges, booked>>

-----------------------------------------------------------------------------
(* Merging *)

Merge(q) ==
  \E p, s \in Ids :
    p # s /\ Exists(p) /\ Exists(s) /\
    Begin(q, [op |-> "lock", pallet |-> p, second |-> s, todo |-> {p, s}])

\* Mutant: the rows are locked in the order the request names them.
LockNext_AsNamed(todo, r) == IF r.pallet \in todo THEN r.pallet ELSE r.second

LockNext(todo, r) == CHOOSE p \in todo : \A s \in todo : p <= s

\* SELECT ... FOR UPDATE ORDER BY id: row by row.
LockRow(q) ==
  LET r == req[q] p == LockNext(r.todo, r) IN
  /\ r.op = "lock" /\ Unlocked(p)
  /\ lock' = [lock EXCEPT ![p] = q]
  /\ req' = [req EXCEPT ![q] = [op |-> IF r.todo = {p} THEN "merge" ELSE "lock", pallet |-> r.pallet,
                                second |-> r.second, todo |-> r.todo \ {p}]]
  /\ UNCHANGED <<stock, world, made>>

Count(p) == SumTo([l \in DOMAIN line |-> IF line[l].pallet = p THEN line[l].qty ELSE 0], Len(line))

\* Mutant: nothing looks at the status again under the lock.
Mergeable_Stale(p, s) ==
  /\ \A x \in {p, s} : Exists(x) /\ pallet[x].layout # "asset"
  /\ pallet[p].layout = pallet[s].layout

\* mergeBlockers, under the lock.
Mergeable(p, s) ==
  /\ \A x \in {p, s} : pallet[x].status = "open" /\ pallet[x].layout # "asset" /\ Count(x) > 0
  /\ pallet[p].layout = pallet[s].layout

Release(q) ==
  /\ lock' = [p \in Ids |-> IF lock[p] = q THEN Nobody ELSE lock[p]]
  /\ req' = [req EXCEPT ![q] = Idle]
  /\ UNCHANGED <<world, made>>

Refuse(q) ==
  /\ req[q].op = "merge" /\ ~Mergeable(req[q].pallet, req[q].second)
  /\ Release(q) /\ UNCHANGED stock

\* Mutant: the lines are copied to the new pallet.
Moved_Copied(from, to) ==
  line \o SelectSeq([l \in DOMAIN line |-> [line[l] EXCEPT !.pallet = IF @ \in from THEN to ELSE 0]],
                    LAMBDA l : l.pallet # 0)

\* The lines move; they are never copied.
Moved(from, to) ==
  [l \in DOMAIN line |-> IF line[l].pallet \in from THEN [line[l] EXCEPT !.pallet = to] ELSE line[l]]

Commit(q) ==
  LET from == {req[q].pallet, req[q].second} IN
  /\ req[q].op = "merge" /\ Mergeable(req[q].pallet, req[q].second)
  /\ \E new \in NewIds :
       /\ pallet' = [p \in Ids |->
                       IF p = new THEN [status |-> "open", layout |-> pallet[req[q].pallet].layout]
                       ELSE IF p \in from THEN [status |-> "merged", layout |-> pallet[p].layout]
                       ELSE pallet[p]]
       /\ line' = Moved(from, new)
       /\ merges' = merges \cup {<<p, new>> : p \in from}
  /\ Release(q) /\ UNCHANGED <<sold, booked>>

-----------------------------------------------------------------------------
Init ==
  /\ \E layout \in [1..Pallets -> {"variant", "spec"}] :
       pallet = [p \in Ids |-> IF p <= Pallets THEN [status |-> "open", layout |-> layout[p]] ELSE NoPallet]
  /\ line = Stocked /\ sold = <<>> /\ merges = {}
  /\ lock = [p \in Ids |-> Nobody]
  /\ req = [q \in Requests |-> Idle]
  /\ booked = [i \in Items |-> Units(DOMAIN line, i)]
  /\ world \in Worlds /\ made = 0

Request(q) ==
  \/ Create(q) \/ CreateFromSpec(q) \/ Update(q) \/ RemovePallet(q)
  \/ AddLine(q) \/ UpdateLine(q) \/ RemoveLine(q) \/ ReplaceSpec(q)
  \/ SellLine(q) \/ SellPallet(q) \/ Return(q) \/ Merge(q)

Step(q) ==
  \/ Patch(q) \/ Delete(q) \/ Insert(q) \/ Clear(q)
  \/ ArchiveLine(q) \/ Shrink(q) \/ ArchiveNext(q) \/ Empty(q)
  \/ Put(q) \/ Reopen(q) \/ Stamp(q)
  \/ LockRow(q) \/ Refuse(q) \/ Commit(q)

Next == \E q \in Requests : Request(q) \/ Step(q)

Spec == Init /\ [][Next]_vars

-----------------------------------------------------------------------------
(* Properties *)

\* Between requests, every unit booked in is on a pallet or in the Sold archive,
\* and in one of them only: part sales, whole sales, returns and merges neither
\* lose nor repeat stock.  It is claimed of requests one after the other, and of
\* merges beside one other request (one that does not act on a whole pallet).
StockConserved ==
  Busy = {} => \A i \in Items : booked[i] = Units(OnPallets, i) + Archived(i)

\* A merged pallet is empty ("zero lines, and every mutating path refuses them") and
\* frozen, its status included, and went into one pallet only: where requests run one
\* after the other, and where merges run beside each other and beside a request on one
\* line.  It is not claimed of the other requests beside a merge (MayBegin).
MergedForGood ==
  [][\A p \in Ids : pallet[p].status = "merged" =>
       /\ On(p) = {} /\ On(p)' = {}
       /\ pallet'[p] = pallet[p]
       /\ \A m \in merges' \ merges : m[1] # p]_vars

\* Two merges never wait for each other.
MergesQueue ==
  ~ \E q, r \in Requests :
      /\ q # r /\ req[q].op = "lock" /\ req[r].op = "lock"
      /\ lock[LockNext(req[q].todo, req[q])] = r /\ lock[LockNext(req[r].todo, req[r])] = q
=============================================================================
