------------------------------- MODULE Office -------------------------------
(***************************************************************************)
(* Requests that edit accounts and requests that change the stock, behind  *)
(* one guard: a transaction on the stock belongs to a request that was let *)
(* in, and dies with its process.                                          *)
(***************************************************************************)
EXTENDS Accounts, StockLedger

ASSUME OneTransactionEach == Txs = Requests

officeVars == <<vars, stockVars>>

\* What a request under way may do next.
Request(r) ==
  \/ User(r) /\ UNCHANGED stockVars
  \/ Done(r) /\ tx[r] = NoTx /\ UNCHANGED stockVars
  \/ Done(r) /\ tx[r] = NoTx /\ req[r].ask.kind = "stock" /\ Edit
  \/ Done(r) /\ tx[r] # NoTx /\ (Commit(r) \/ Abort(r))
  \/ req[r].step = "in" /\ req[r].ask.kind = "stock" /\ (Begin(r) \/ TransferFind(r)) /\ UNCHANGED vars

\* The transactions of a process that restarts are rolled back.
Crash(p) ==
  /\ Restart(p)
  /\ tx' = [r \in Requests |-> IF req[r].proc = p THEN NoTx ELSE tx[r]]
  /\ UNCHANGED <<line, log, moves, raced>>

OfficeInit == Init /\ StockInit

OfficeNext ==
  \/ \E r \in Requests : Request(r)
  \/ \E p \in Procs : Crash(p)
  \/ Tick /\ UNCHANGED stockVars

Spec == OfficeInit /\ [][OfficeNext]_officeVars

-----------------------------------------------------------------------------
(* Properties *)

\* A request is let in only if its account had the right less than TTL and one
\* look-up ago, whichever process it came to and whatever the look-ups and the
\* invalidations of the edits crossed.
RightsEnd ==
  [][\A r \in Requests : req[r].step \in {"guard", "look"} /\ req'[r].step = "in" =>
       LET u == req[r].user
           need == Need(req[r].ask)
       IN  \/ Allows(account[u], need)
           \/ lost[u][need] >= 0 /\ now < lost[u][need] + TTL + LookupTime]_officeVars

\* "An admin's edit lands on the next request" to the process that made it, whether
\* it gives or takes: no request is judged there by a row older than the edit, but
\* after an edit that came while a look-up of the account was under way there, and
\* then until one look-up and TTL have gone by.
EditsLandHere ==
  [][\A r \in Requests :
       LET p == req[r].proc
           u == req[r].user
           edit == landed[p][u]
           Old(row) == row.version < edit.version
       IN  (GuardHit(r) /\ Old(cache[p][u].row)) \/ (GuardFill(r) /\ Old(req[r].row))
             => edit.crossed /\ now < edit.at + TTL + LookupTime]_officeVars

\* Some enabled administrator is left, unless one was demoted or removed, which
\* nothing counts, or disabled on a count another edit overtook.
AnAdminRemains == ~demoted => \E u \in Users : EnabledAdmin(account[u])

\* "The line's stored quantity always equals the sum of" its movements, for every
\* line whose quantity no two transactions wrote at once; and no line, those
\* included, is ever sold short.
StockAccounted == Accounted /\ NeverShort /\ TransfersBalance
=============================================================================
