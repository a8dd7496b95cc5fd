---------------------------- MODULE StockLedger ----------------------------
(***************************************************************************)
(* stock.service.ts: consumables counted per item and place.  A change of  *)
(* quantity is one transaction that reads the line, saves the whole row    *)
(* back with the new quantity, and logs a movement; the database runs      *)
(* READ COMMITTED, so another one may commit in between.                   *)
(***************************************************************************)
EXTENDS Integers, Sequences, FiniteSetsExt, Sums

CONSTANTS Txs,        \* the requests that may run at once
          Lines,      \* the ids of the lines that can come to exist
          Places,     \* the locations
          Amounts,    \* the quantities asked for
          None,       \* no row
          MaxLog      \* bound on the movements ever made

ASSUME StockAssumption ==
  /\ Lines \subseteq Nat /\ None \notin Lines /\ None \notin Places /\ Amounts \subseteq Nat \ {0} /\ MaxLog \in Nat

VARIABLES line,   \* the rows: place and quantity
          log,    \* the movements, in the order they are written
          tx,     \* what each request has read
          moves,  \* the transfers made, which number the next
          raced   \* lines whose quantity a transaction wrote over unseen

stockVars == <<line, log, tx, moves, raced>>

NoTx == [op |-> "none", id |-> None, amount |-> 0, to |-> None, read |-> None, dest |-> None, destRead |-> None]

Movement(id, delta, transfer) == [line |-> id, delta |-> delta, transfer |-> transfer]

\* What is left of a movement that is deleted with its line.
Gone == Movement(None, 0, 0)

HasMoved(id) == \E i \in DOMAIN log : log[i].line = id

\* The sum of a line's movements.
Logged(id) == SumTo([i \in DOMAIN log |-> IF log[i].line = id THEN log[i].delta ELSE 0], Len(log))

Fits(n) == Len(log) + n <= MaxLog

\* One item is modelled, so a line's identity is its place; nothing keeps two
\* lines of one place apart.
AtPlace(p) == {l \in Lines : line[l] # None /\ line[l].place = p}

-----------------------------------------------------------------------------
(* The operations *)

\* Ids no line and no transaction has used; the smallest is taken.
Unused ==
  {l \in Lines : /\ line[l] = None /\ ~HasMoved(l) /\ l \notin raced
                 /\ \A t \in Txs : l \notin {tx[t].id, tx[t].dest}}

\* A new line opens with its stock as a movement.
CreateLine(id, place, opening) ==
  /\ Unused # {} /\ id = Min(Unused) /\ Fits(1)
  /\ line' = [line EXCEPT ![id] = [place |-> place, quantity |-> opening]]
  /\ log' = IF opening > 0 THEN Append(log, Movement(id, opening, 0)) ELSE log
  /\ UNCHANGED <<tx, moves, raced>>

\* The place of a line is edited, its quantity never.
UpdateLine(id, place) ==
  /\ line[id] # None /\ line[id].place # place
  /\ line' = [line EXCEPT ![id].place = place]
  /\ UNCHANGED <<log, tx, moves, raced>>

\* A line goes with its movements.
RemoveLine(id) ==
  /\ line[id] # None
  /\ line' = [line EXCEPT ![id] = None]
  /\ log' = [i \in DOMAIN log |-> IF log[i].line = id THEN Gone ELSE log[i]]
  /\ UNCHANGED <<tx, moves, raced>>

\* Mutant: a line may go below zero.
AdjustRead_Blind(t, id, delta) ==
  /\ tx[t] = NoTx /\ line[id] # None
  /\ tx' = [tx EXCEPT ![t] = [NoTx EXCEPT !.op = "adjust", !.id = id, !.amount = delta, !.read = line[id]]]
  /\ UNCHANGED <<line, log, moves, raced>>

\* What would leave less than nothing is refused.
AdjustRead(t, id, delta) ==
  /\ tx[t] = NoTx /\ line[id] # None /\ line[id].quantity + delta >= 0
  /\ tx' = [tx EXCEPT ![t] = [NoTx EXCEPT !.op = "adjust", !.id = id, !.amount = delta, !.read = line[id]]]
  /\ UNCHANGED <<line, log, moves, raced>>

\* Lines written over with a quantity computed from another than the one they have.
Overtaken(ids, read) ==
  {l \in ids : line[l] = None \/ line[l].quantity # read[l].quantity}

\* The row is saved as it was read, with its new quantity; one removed meanwhile
\* comes back.
AdjustCommit(t) ==
  LET q == tx[t]
  IN  /\ q.op = "adjust" /\ Fits(1)
      /\ line' = [line EXCEPT ![q.id] = [q.read EXCEPT !.quantity = @ + q.amount]]
      /\ log' = Append(log, Movement(q.id, q.amount, 0))
      /\ raced' = raced \cup Overtaken({q.id}, [l \in {q.id} |-> q.read])
      /\ tx' = [tx EXCEPT ![t] = NoTx]
      /\ UNCHANGED moves

TransferRead(t, id, to, n) ==
  /\ tx[t] = NoTx /\ line[id] # None
  /\ line[id].place # to /\ line[id].quantity >= n
  /\ tx' = [tx EXCEPT ![t] = [op |-> "transfer", id |-> id, amount |-> n, to |-> to, read |-> line[id],
                              dest |-> None, destRead |-> None]]
  /\ UNCHANGED <<line, log, moves, raced>>

\* The line at the destination, or a new one that opens at zero.  It is the
\* source itself if that moved there since it was read.
TransferFind(t) ==
  /\ tx[t].op = "transfer" /\ tx[t].dest = None
  /\ \/ \E d \in AtPlace(tx[t].to) :
          tx' = [tx EXCEPT ![t].dest = d, ![t].destRead = line[d]]
     \/ /\ AtPlace(tx[t].to) = {}
        /\ Unused # {}
        /\ tx' = [tx EXCEPT ![t].dest = Min(Unused), ![t].destRead = [place |-> tx[t].to, quantity |-> 0]]
  /\ UNCHANGED <<line, log, moves, raced>>

\* Mutant: what leaves the source is not logged.
TransferLog_OneHalf(q, k) == <<Movement(q.dest, q.amount, k)>>

\* The two halves of a move.
TransferLog(q, k) == <<Movement(q.id, -q.amount, k), Movement(q.dest, q.amount, k)>>

\* The source is saved, then the destination, each as it was read.
TransferCommit(t) ==
  LET q == tx[t]
      created == line[q.dest] = None /\ ~HasMoved(q.dest) /\ q.destRead.quantity = 0
      read == [l \in {q.id, q.dest} |-> IF l = q.dest THEN q.destRead ELSE q.read]
  IN  /\ q.op = "transfer" /\ q.dest # None /\ Fits(2)
      /\ line' = [[line EXCEPT ![q.id] = [q.read EXCEPT !.quantity = @ - q.amount]]
                  EXCEPT ![q.dest] = [q.destRead EXCEPT !.quantity = @ + q.amount]]
      /\ log' = log \o TransferLog(q, moves + 1)
      /\ moves' = moves + 1
      /\ raced' = raced \cup Overtaken({q.id} \cup (IF created THEN {} ELSE {q.dest}), read)
                        \cup (IF q.id = q.dest THEN {q.id} ELSE {})
      /\ tx' = [tx EXCEPT ![t] = NoTx]

\* The transaction is rolled back: the process died, the database broke a
\* deadlock, or the line it logs a movement of is gone.
Abort(t) ==
  /\ tx[t] # NoTx
  /\ tx' = [tx EXCEPT ![t] = NoTx]
  /\ UNCHANGED <<line, log, moves, raced>>

Commit(t) == AdjustCommit(t) \/ TransferCommit(t)

Begin(t) ==
  \E id \in Lines, n \in Amounts :
    \/ AdjustRead(t, id, n) \/ AdjustRead(t, id, -n)
    \/ \E to \in Places : TransferRead(t, id, to, n)

Edit ==
  \E id \in Lines :
    \/ \E p \in Places, n \in Amounts \cup {0} : CreateLine(id, p, n)
    \/ \E p \in Places : UpdateLine(id, p)
    \/ RemoveLine(id)

StockInit ==
  /\ line = [l \in Lines |-> None] /\ log = <<>>
  /\ tx = [t \in Txs |-> NoTx] /\ moves = 0 /\ raced = {}

-----------------------------------------------------------------------------
(* Properties *)

\* "The line's stored quantity always equals the sum of these" (the entity's
\* words), for every line whose quantity no two transactions wrote at once.
Accounted ==
  \A l \in Lines : line[l] # None /\ l \notin raced => line[l].quantity = Logged(l)

\* No line ever stands below zero, not even one that two transactions wrote at once.
NeverShort == \A l \in Lines : line[l] # None => line[l].quantity >= 0

\* The two halves of a transfer cancel out, while neither line is removed.
TransfersBalance ==
  \A i, j \in DOMAIN log :
    i # j /\ log[i].transfer # 0 /\ log[i].transfer = log[j].transfer => log[i].delta + log[j].delta = 0
=============================================================================
