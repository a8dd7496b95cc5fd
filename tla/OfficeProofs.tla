---------------------------- MODULE OfficeProofs ----------------------------
(***************************************************************************)
(* Proofs about the accounts and the stock (Office), for any number of     *)
(* accounts, processes, requests, edits, restarts, lines and movements.    *)
(***************************************************************************)
EXTENDS Office, SumLemmas, SequenceTheorems

(* The two halves of the office: a step of the one leaves the other alone, but
   for a request's end and a restart. *)
AccountsStep ==
  \/ \E r \in Requests : User(r) \/ Done(r)
  \/ \E p \in Procs : Restart(p)
  \/ Tick

StockStep ==
  \/ Edit
  \/ \E t \in Txs : Begin(t) \/ TransferFind(t) \/ Commit(t)
  \/ /\ UNCHANGED <<line, log, moves, raced>>
     /\ \E s \in SUBSET Txs : tx' = [t \in Txs |-> IF t \in s THEN NoTx ELSE tx[t]]

LEMMA AccountsHalf == OfficeNext => AccountsStep \/ UNCHANGED vars
<1>1. ASSUME NEW r \in Requests, Request(r) PROVE AccountsStep \/ UNCHANGED vars
  BY <1>1 DEF Request, AccountsStep
<1>2. ASSUME NEW p \in Procs, Crash(p) PROVE AccountsStep
  BY <1>2 DEF Crash, AccountsStep
<1> QED
  BY <1>1, <1>2 DEF OfficeNext, AccountsStep

-----------------------------------------------------------------------------
(* Accounts *)

Row == [there : BOOLEAN, role : Roles, grants : SUBSET Rights, enabled : BOOLEAN, version : Nat]

Copy == [row : Row, expires : Nat]

Edits == [version : Nat, at : Nat, crossed : BOOLEAN]

Steps == {"idle", "guard", "look", "in", "count", "write", "wrote"}

Signed ==
  [step : Steps, user : Users \cup {Nobody}, proc : Procs \cup {Nobody}, ask : Asks,
   row : Row \cup {Nobody}, at : Nat, crossed : BOOLEAN]

AccountsTypeOK ==
  /\ account \in [Users -> Row]
  /\ cache \in [Procs -> [Users -> Copy \cup {NoCopy}]]
  /\ req \in [Requests -> Signed]
  /\ \A r \in Requests :
       /\ req[r].step # "idle" => req[r].user \in Users /\ req[r].proc \in Procs
       /\ req[r].step = "look" => req[r].row \in Row
       /\ req[r].step \in {"count", "write", "wrote"} =>
            req[r].ask.target \in Users /\ req[r].ask.kind \notin {"read", "stock", "create"}
  /\ now \in Nat /\ world \in Worlds
  /\ lost \in [Users -> [Rights -> Nat \cup {-1}]]
  /\ landed \in [Procs -> [Users -> Edits]]
  /\ demoted \in BOOLEAN

(* Whoever was made has been numbered, and an edit that was looked at was made. *)
Numbered ==
  /\ \A u \in Users : account[u].there => account[u].version > 0
  /\ \A r \in Requests : req[r].step \in {"count", "write"} => account[req[r].ask.target].version > 0

(* A disabling that nothing overtook since it counted still leaves someone. *)
CountStands ==
  \A r \in Requests :
    req[r].step = "write" /\ req[r].ask.kind = "disable" /\ ~req[r].crossed
      /\ EnabledAdmin(account[req[r].ask.target])
      => OtherEnabledAdmins(req[r].ask.target) # {}

(* Had account u right p at the time t, or lost it since? *)
HadSince(u, p, t) == Allows(account[u], p) \/ lost[u][p] >= t

(* A copy that gives a right outlives the right by TTL and a look-up at most, and
   a look-up that found one by a look-up. *)
CopiesEnd ==
  \A p \in Procs, u \in Users :
    cache[p][u] # NoCopy =>
      /\ cache[p][u].expires <= now + TTL
      /\ \A right \in Rights : Allows(cache[p][u].row, right) =>
           \/ Allows(account[u], right)
           \/ lost[u][right] >= 0 /\ cache[p][u].expires <= lost[u][right] + TTL + LookupTime

LooksEnd ==
  \A r \in Requests : req[r].step = "look" =>
    /\ req[r].at <= now /\ now <= req[r].at + LookupTime
    /\ \A right \in Rights : Allows(req[r].row, right) =>
         Allows(account[req[r].user], right) \/ lost[req[r].user][right] >= req[r].at

(* Row is older than the last edit made at p of account u. *)
Before(row, p, u) == row.version < landed[p][u].version

(* An edit made at p is in the table.  What is older, in a copy or in the hands of a
   look-up, is the doing of a look-up that was under way as the edit was made. *)
EditsKnown ==
  /\ \A p \in Procs, u \in Users : landed[p][u].version <= account[u].version
  /\ \A p \in Procs, u \in Users :
       cache[p][u] # NoCopy /\ Before(cache[p][u].row, p, u) =>
         landed[p][u].crossed /\ cache[p][u].expires <= landed[p][u].at + TTL + LookupTime
  /\ \A r \in Requests :
       req[r].step = "look" /\ Before(req[r].row, req[r].proc, req[r].user) =>
         landed[req[r].proc][req[r].user].crossed /\ req[r].at <= landed[req[r].proc][req[r].user].at

AccountsInv ==
  AccountsTypeOK /\ Numbered /\ CountStands /\ AnAdminRemains /\ CopiesEnd /\ LooksEnd /\ EditsKnown

LEMMA RowsAreRows ==
  /\ \A role \in Roles : Account(role) \in Row
  /\ NoAccount \in Row
  /\ \A row \in Row, ask \in Asks : ask.target \in Users /\ ask.kind # "create" => Edited(row, ask) \in Row
<1>1. ASSUME NEW role \in Roles PROVE DefaultPermissions(role) \in SUBSET Rights /\ Account(role) \in Row
  BY <1>1, AccountsAssumption DEF DefaultPermissions, Account, Row, Roles
<1>2. NoAccount \in Row
  BY <1>1 DEF NoAccount, Account, Row, Roles
<1>3. ASSUME NEW row \in Row, NEW ask \in Asks, ask.target \in Users, ask.kind # "create"
      PROVE  Edited(row, ask) \in Row
  <2>1. ask.kind \in {"role", "grants", "disable", "enable", "remove"} /\ ask.role \in Roles /\ ask.grants \in SUBSET Rights
    BY <1>3, AccountsAssumption DEF Asks
  <2>2. DefaultPermissions(ask.role) \in SUBSET Rights
    BY <1>1, <2>1
  <2> QED
    BY <1>3, <2>1, <2>2 DEF Edited, Row
<1> QED
  BY <1>1, <1>2, <1>3

LEMMA IdleIsSigned == Idle \in Signed /\ Idle.step = "idle"
<1>1. Look \in Asks
  BY DEF Look, Ask, Asks, Roles
<1> QED
  BY <1>1 DEF Idle, Signed, Steps

LEMMA InitAccounts == Init => AccountsInv
<1> SUFFICES ASSUME Init PROVE AccountsInv
  OBVIOUS
<1>1. \A u \in Users :
        /\ account[u] \in Row
        /\ account[u].there => account[u].version > 0
        /\ StartRole[u] = "admin" => EnabledAdmin(account[u])
  <2> SUFFICES ASSUME NEW u \in Users
               PROVE  /\ account[u] \in Row
                      /\ account[u].there => account[u].version > 0
                      /\ StartRole[u] = "admin" => EnabledAdmin(account[u])
    OBVIOUS
  <2>1. StartRole[u] \in Roles \cup {"none"} /\ "none" \notin Roles
    BY AccountsAssumption DEF Roles
  <2>2. account[u] = IF StartRole[u] = "none" THEN NoAccount ELSE Account(StartRole[u])
    BY DEF Init
  <2>3. account[u] \in Row
    BY <2>1, <2>2, RowsAreRows
  <2> QED
    BY <2>2, <2>3 DEF Account, NoAccount, EnabledAdmin
<1>2. Idle \in Signed /\ Idle.step = "idle"
  BY IdleIsSigned
<1>3. AccountsTypeOK
  <2>1. account \in [Users -> Row]
    BY <1>1 DEF Init
  <2>2. req \in [Requests -> Signed] /\ \A r \in Requests : req[r].step = "idle"
    BY <1>2 DEF Init
  <2>3. cache \in [Procs -> [Users -> Copy \cup {NoCopy}]] /\ landed \in [Procs -> [Users -> Edits]]
    BY DEF Init, Edits
  <2> QED
    BY <1>2, <2>1, <2>2, <2>3 DEF Init, AccountsTypeOK, Steps
<1>4. Numbered /\ CountStands /\ CopiesEnd /\ LooksEnd
  BY <1>1, <1>2 DEF Init, Numbered, CountStands, CopiesEnd, LooksEnd
<1>6. EditsKnown
  BY <1>1, <1>2 DEF Init, EditsKnown, Before, Row
<1>5. AnAdminRemains
  BY <1>1, AccountsAssumption DEF AnAdminRemains
<1> QED
  BY <1>3, <1>4, <1>5, <1>6 DEF AccountsInv

(* What an edit of an account's row leaves. *)
LEMMA EditedRow ==
  ASSUME AccountsTypeOK, NEW r \in Requests, Write(r)
  PROVE  LET t == req[r].ask.target
             new == Edited(account[t], req[r].ask)
         IN  /\ t \in Users /\ account[t] \in Row /\ new \in Row
             /\ account' \in [Users -> Row] /\ account'[t] = new
             /\ account'[t].version >= account[t].version /\ (account'[t].there => account[t].there)
             /\ \A u \in Users \ {t} : account'[u] = account[u]
<1>1. req[r].ask.target \in Users /\ req[r].ask \in Asks /\ req[r].ask.kind # "create"
  <2>1. req[r].step = "write"
    BY DEF Write
  <2> QED
    BY <2>1 DEF AccountsTypeOK, Signed
<1>2. account[req[r].ask.target] \in Row
  BY <1>1 DEF AccountsTypeOK
<1> DEFINE t == req[r].ask.target
           new == Edited(account[t], req[r].ask)
<1>3. new \in Row
  BY <1>1, <1>2, RowsAreRows
<1>4. new.version >= account[t].version /\ (new.there => account[t].there)
  BY <1>2 DEF Edited, Row
<1>5. account' = [account EXCEPT ![t] = new]
  BY DEF Write
<1> HIDE DEF new
<1>6. /\ account' \in [Users -> Row] /\ account'[t] = new
      /\ \A u \in Users \ {t} : account'[u] = account[u]
  BY <1>1, <1>3, <1>5 DEF AccountsTypeOK
<1> QED
  BY <1>1, <1>2, <1>3, <1>4, <1>6 DEF new

(* A request's entry that is as it should be. *)
Signs(q) ==
  /\ q \in Signed
  /\ q.step # "idle" => q.user \in Users /\ q.proc \in Procs
  /\ q.step = "look" => q.row \in Row
  /\ q.step \in {"count", "write", "wrote"} =>
       q.ask.target \in Users /\ q.ask.kind \notin {"read", "stock", "create"}

LEMMA RequestSigns == AccountsTypeOK => \A r \in Requests : Signs(req[r])
BY DEF AccountsTypeOK, Signs

LEMMA IdleSigns == Signs(Idle) /\ ~("idle" \in {"count", "write", "wrote", "look"})
BY IdleIsSigned DEF Signs

(* Only the entry of one request changes, and to one that is as it should be. *)
LEMMA OneRequest ==
  ASSUME AccountsTypeOK, NEW r \in Requests, NEW q, Signs(q), req' = [req EXCEPT ![r] = q]
  PROVE  req' \in [Requests -> Signed] /\ \A s \in Requests : Signs(req'[s])
<1>1. req'[r] = q /\ \A s \in Requests \ {r} : req'[s] = req[s]
  BY DEF AccountsTypeOK
<1>2. q \in Signed
  BY DEF Signs
<1>3. req' \in [Requests -> Signed]
  BY <1>2 DEF AccountsTypeOK
<1> QED
  BY <1>1, <1>3, RequestSigns

LetIn(r) == [req[r] EXCEPT !.step = "in", !.row = Nobody, !.at = 0]

LEMMA Judging ==
  ASSUME AccountsTypeOK, NEW r \in Requests, NEW row, req[r].step \in {"guard", "look"},
         req' = Judged(r, row)
  PROVE  /\ req' \in [Requests -> Signed] /\ \A s \in Requests : Signs(req'[s])
         /\ \A s \in Requests \ {r} : req'[s] = req[s]
         /\ req'[r] = Idle \/ (req'[r] = LetIn(r) /\ Allows(row, Need(req[r].ask)))
<1>1. Signs(req[r])
  BY RequestSigns
<1>2. Signs(LetIn(r))
  BY <1>1 DEF Signs, Signed, Steps, LetIn
<1>3. CASE Allows(row, Need(req[r].ask))
  <2>1. req' = [req EXCEPT ![r] = LetIn(r)]
    BY <1>3 DEF Judged, LetIn
  <2>2. req' \in [Requests -> Signed] /\ \A s \in Requests : Signs(req'[s])
    BY <1>2, <2>1, OneRequest
  <2> QED
    BY <1>3, <2>1, <2>2 DEF AccountsTypeOK
<1>4. CASE ~Allows(row, Need(req[r].ask))
  <2>1. req' = [req EXCEPT ![r] = Idle]
    BY <1>4 DEF Judged
  <2>2. req' \in [Requests -> Signed] /\ \A s \in Requests : Signs(req'[s])
    BY <2>1, OneRequest, IdleSigns
  <2> QED
    BY <2>1, <2>2 DEF AccountsTypeOK
<1> QED
  BY <1>3, <1>4

(* The edits of a write on the requests under way. *)
LEMMA WriteRequests ==
  ASSUME AccountsTypeOK, NEW r \in Requests, Write(r)
  PROVE  /\ req' \in [Requests -> Signed]
         /\ req'[r] = [req[r] EXCEPT !.step = "wrote"]
         /\ \A s \in Requests \ {r} : \E b \in BOOLEAN :
              /\ req'[s] = [req[s] EXCEPT !.crossed = b]
              /\ b = (req[s].crossed \/ (req[s].step = "write" /\ req[s].ask.kind = "disable"
                       /\ EnabledAdmin(account[req[r].ask.target]) # EnabledAdmin(account'[req[r].ask.target])))
         /\ \A s \in Requests : Signs(req'[s])
<1> DEFINE t == req[r].ask.target
           b(s) == req[s].crossed \/ (req[s].step = "write" /\ req[s].ask.kind = "disable"
                     /\ EnabledAdmin(account[t]) # EnabledAdmin(account'[t]))
<1>1. account'[t] = Edited(account[t], req[r].ask)
  BY EditedRow
<1>2. req' = [s \in Requests |-> IF s = r THEN [req[r] EXCEPT !.step = "wrote"]
                                 ELSE [req[s] EXCEPT !.crossed = b(s)]]
  BY <1>1 DEF Write
<1>3. \A s \in Requests : b(s) \in BOOLEAN /\ Signs(req[s])
  BY RequestSigns DEF Signs, Signed
<1> HIDE DEF b
<1>4. req[r].step = "write"
  BY DEF Write
<1>5. Signs([req[r] EXCEPT !.step = "wrote"])
  BY <1>3, <1>4 DEF Signs, Signed, Steps
<1>6. ASSUME NEW s \in Requests \ {r} PROVE Signs([req[s] EXCEPT !.crossed = b(s)])
  BY <1>3, <1>6 DEF Signs, Signed
<1>7. /\ req'[r] = [req[r] EXCEPT !.step = "wrote"]
      /\ \A s \in Requests \ {r} : req'[s] = [req[s] EXCEPT !.crossed = b(s)]
  BY <1>2
<1>8. ASSUME NEW s \in Requests PROVE Signs(req'[s])
  <2>1. CASE s = r
    BY <2>1, <1>5, <1>7
  <2>2. CASE s # r
    <3>1. s \in Requests \ {r}
      BY <2>2
    <3>2. Signs([req[s] EXCEPT !.crossed = b(s)])
      BY <3>1, <1>6
    <3> QED
      BY <3>1, <3>2, <1>7, Zenon
  <2> QED
    BY <2>1, <2>2
<1>9. req' \in [Requests -> Signed]
  BY <1>2, <1>8 DEF Signs
<1> QED
  BY <1>3, <1>7, <1>8, <1>9 DEF b

LEMMA NextAccountsType ==
  ASSUME AccountsTypeOK, AccountsStep \/ UNCHANGED vars
  PROVE  AccountsTypeOK'
<1> USE RequestSigns
<1>1. ASSUME NEW r \in Requests, NEW u \in world.users, NEW p \in Procs, NEW ask \in world.asks, Arrive(r, u, p, ask)
      PROVE  AccountsTypeOK'
  <2>1. u \in Users /\ ask \in Asks
    BY AccountsAssumption DEF AccountsTypeOK
  <2>2. Signs([Idle EXCEPT !.step = "guard", !.user = u, !.proc = p, !.ask = ask])
    BY <2>1, IdleIsSigned DEF Signs, Signed, Steps
  <2> QED
    BY <1>1, <2>2, OneRequest DEF Arrive, AccountsTypeOK, Signs, ghosts
<1>2. ASSUME NEW r \in Requests, GuardHit(r) PROVE AccountsTypeOK'
  <2>1. PICK row : req' = Judged(r, row) /\ req[r].step \in {"guard", "look"}
    BY <1>2 DEF GuardHit
  <2>2. req' \in [Requests -> Signed] /\ \A s \in Requests : Signs(req'[s])
    BY <2>1, Judging
  <2> QED
    BY <1>2, <2>2 DEF GuardHit, AccountsTypeOK, Signs, ghosts, env
<1>3. ASSUME NEW r \in Requests, GuardRead(r) PROVE AccountsTypeOK'
  <2>1. req' = [req EXCEPT ![r] = [req[r] EXCEPT !.step = "look", !.row = account[req[r].user], !.at = now]]
    BY <1>3 DEF GuardRead, AccountsTypeOK
  <2>2. Signs([req[r] EXCEPT !.step = "look", !.row = account[req[r].user], !.at = now])
    BY <1>3 DEF GuardRead, AccountsTypeOK, Signs, Signed, Steps
  <2> QED
    BY <1>3, <2>1, <2>2, OneRequest DEF GuardRead, AccountsTypeOK, Signs, ghosts, env
<1>4. ASSUME NEW r \in Requests, GuardFill(r) PROVE AccountsTypeOK'
  <2>1. req' = Judged(r, req[r].row) /\ req[r].step = "look" /\ req[r].step \in {"guard", "look"}
    BY <1>4 DEF GuardFill
  <2>2. req' \in [Requests -> Signed] /\ \A s \in Requests : Signs(req'[s])
    BY <2>1, Judging
  <2>3. req[r].user \in Users /\ req[r].proc \in Procs /\ req[r].row \in Row
    BY <2>1 DEF AccountsTypeOK
  <2>4. [row |-> req[r].row, expires |-> now + TTL] \in Copy
    BY <2>3, AccountsAssumption DEF Copy, AccountsTypeOK
  <2>5. cache' \in [Procs -> [Users -> Copy \cup {NoCopy}]]
    BY <1>4, <2>3, <2>4 DEF GuardFill, AccountsTypeOK
  <2> QED
    BY <1>4, <2>2, <2>5 DEF GuardFill, AccountsTypeOK, Signs, ghosts, env
<1>5. ASSUME NEW r \in Requests, Create(r) PROVE AccountsTypeOK'
  <2>1. account' \in [Users -> Row]
    BY <1>5, RowsAreRows DEF Create, AccountsTypeOK, Signed, Asks
  <2> QED
    BY <1>5, <2>1, OneRequest, IdleSigns DEF Create, AccountsTypeOK, Signs, ghosts, env
<1>6. ASSUME NEW r \in Requests, NEW step \in {"count", "write"}, At(r, step),
             UNCHANGED <<account, cache, env, ghosts>>, req[r].step # "idle",
             req[r].ask.kind \notin {"read", "stock", "create"}
      PROVE  AccountsTypeOK'
  <2>1. req' = [req EXCEPT ![r] = [req[r] EXCEPT !.step = step]]
    BY <1>6 DEF At, AccountsTypeOK
  <2>2. Signs([req[r] EXCEPT !.step = step])
    BY <1>6 DEF Signs, Signed, Steps, Asks
  <2> QED
    BY <1>6, <2>1, <2>2, OneRequest DEF AccountsTypeOK, Signs, ghosts, env
<1>7. ASSUME NEW r \in Requests, req' = [req EXCEPT ![r] = Idle], UNCHANGED <<account, cache, env, ghosts>>
      PROVE  AccountsTypeOK'
  <2>1. req' \in [Requests -> Signed] /\ \A s \in Requests : Signs(req'[s])
    BY <1>7, OneRequest, IdleSigns
  <2> QED
    BY <1>7, <2>1 DEF AccountsTypeOK, Signs, ghosts, env
<1>8. ASSUME NEW r \in Requests, Write(r) PROVE AccountsTypeOK'
  <2>1. account' \in [Users -> Row]
    BY <1>8, EditedRow
  <2>2. lost' \in [Users -> [Rights -> Nat \cup {-1}]]
    BY <1>8 DEF Write, AccountsTypeOK
  <2>3. demoted' \in BOOLEAN
    BY <1>8 DEF Write, AccountsTypeOK, Signed
  <2> QED
    BY <1>8, <2>1, <2>2, <2>3, WriteRequests DEF Write, AccountsTypeOK, Signs, ghosts, env
<1>9. ASSUME NEW r \in Requests, Invalidate(r) PROVE AccountsTypeOK'
  <2>1. req[r].proc \in Procs /\ req[r].ask.target \in Users
    BY <1>9 DEF Invalidate, AccountsTypeOK
  <2>2. cache' \in [Procs -> [Users -> Copy \cup {NoCopy}]]
    BY <1>9, <2>1 DEF Invalidate, AccountsTypeOK
  <2>3. landed' \in [Procs -> [Users -> Edits]]
    BY <1>9, <2>1 DEF Invalidate, Landed, Edits, AccountsTypeOK, Row
  <2> QED
    BY <1>9, <2>2, <2>3, OneRequest, IdleSigns DEF Invalidate, AccountsTypeOK, Signs, ghosts, env
<1>10. ASSUME NEW p \in Procs, Restart(p) PROVE AccountsTypeOK'
  <2>1. cache' \in [Procs -> [Users -> Copy \cup {NoCopy}]]
    BY <1>10 DEF Restart, AccountsTypeOK
  <2>2. \A r \in Requests : Signs(req'[r])
    BY <1>10, IdleSigns DEF Restart
  <2>3. req' \in [Requests -> Signed]
    BY <1>10, <2>2 DEF Restart, Signs
  <2> QED
    BY <1>10, <2>1, <2>2, <2>3 DEF Restart, AccountsTypeOK, Signs, ghosts, env
<1>11. ASSUME Tick PROVE AccountsTypeOK'
  BY <1>11 DEF Tick, AccountsTypeOK, ghosts
<1>12. CASE UNCHANGED vars
  BY <1>12 DEF vars, AccountsTypeOK
<1>13. ASSUME NEW r \in Requests, See(r) \/ Count(r) \/ Done(r) PROVE AccountsTypeOK'
  <2>1. CASE See(r)
    BY <2>1, <1>6, <1>7 DEF See
  <2>2. CASE Count(r)
    BY <2>2, <1>6, <1>7 DEF Count, Signs
  <2>3. CASE Done(r)
    BY <2>3, <1>7 DEF Done
  <2> QED
    BY <1>13, <2>1, <2>2, <2>3
<1> QED
  BY <1>1, <1>2, <1>3, <1>4, <1>5, <1>8, <1>9, <1>10, <1>11, <1>12, <1>13
     DEF AccountsStep, User, Guard, EditStep

(* A step that leaves the accounts as they are is neither a creation nor a write. *)
LEMMA AccountsCases ==
  ASSUME AccountsStep \/ UNCHANGED vars
  PROVE  (\E r \in Requests : Create(r) \/ Write(r)) \/ UNCHANGED <<account, lost, demoted>>
BY DEF AccountsStep, User, Guard, EditStep, Arrive, GuardHit, GuardRead, GuardFill, See, Count, Invalidate,
       Done, Restart, Tick, vars, env, ghosts

(* What a look-up that is done leaves in its process. *)
Found(r) == [row |-> req[r].row, expires |-> now + TTL]

(* A copy is dropped, stays, or is what a look-up found; and an edit that lands
   drops the one of its process. *)
LEMMA CopyCases ==
  ASSUME AccountsTypeOK, AccountsStep \/ UNCHANGED vars, NEW p \in Procs, NEW u \in Users
  PROVE  \/ cache'[p][u] = NoCopy
         \/ cache'[p][u] = cache[p][u] /\ landed'[p][u] = landed[p][u]
         \/ \E r \in Requests : /\ GuardFill(r) /\ p = req[r].proc /\ u = req[r].user
                                /\ cache'[p][u] = Found(r) /\ landed' = landed
<1>1. ASSUME NEW r \in Requests, GuardFill(r)
      PROVE  /\ landed' = landed
             /\ \/ cache'[p][u] \in {NoCopy, cache[p][u]}
                \/ p = req[r].proc /\ u = req[r].user /\ cache'[p][u] = Found(r)
  BY <1>1 DEF GuardFill, AccountsTypeOK, ghosts, Found
<1>2. ASSUME NEW r \in Requests, Invalidate(r)
      PROVE  cache'[p][u] = NoCopy \/ (cache'[p][u] = cache[p][u] /\ landed'[p][u] = landed[p][u])
  BY <1>2 DEF Invalidate, AccountsTypeOK
<1>3. ASSUME NEW q \in Procs, Restart(q)
      PROVE  cache'[p][u] = NoCopy \/ (cache'[p][u] = cache[p][u] /\ landed'[p][u] = landed[p][u])
  BY <1>3 DEF Restart, AccountsTypeOK, ghosts
<1>4. \/ \E r \in Requests : GuardFill(r) \/ Invalidate(r)
      \/ \E q \in Procs : Restart(q)
      \/ UNCHANGED <<cache, landed>>
  BY DEF AccountsStep, User, Guard, EditStep, Arrive, GuardHit, GuardRead, Create, See, Count, Write,
         Done, Tick, vars, env, ghosts
<1> QED
  BY <1>1, <1>2, <1>3, <1>4

-----------------------------------------------------------------------------
(* The last administrator *)

(* What a step does to one request: the guard lets in whom a copy or a look-up
   allows. *)
LEMMA StepCases ==
  ASSUME AccountsTypeOK, AccountsStep \/ UNCHANGED vars, NEW s \in Requests
  PROVE  \/ req'[s] = req[s] \/ req'[s].step \in {"idle", "guard"}
         \/ \E r \in Requests \ {s} : Write(r)
         \/ (GuardRead(s) /\ req'[s].step = "look") \/ (Write(s) /\ req'[s].step = "wrote")
         \/ See(s) \/ Count(s)
         \/ /\ req'[s].step = "in"
            /\ \/ GuardHit(s) /\ Allows(cache[req[s].proc][req[s].user].row, Need(req[s].ask))
               \/ GuardFill(s) /\ Allows(req[s].row, Need(req[s].ask))
<1> DEFINE Stays == req'[s] = req[s] \/ req'[s].step \in {"idle", "guard"}
<1>1. ASSUME NEW r \in Requests, NEW row, req[r].step \in {"guard", "look"}, req' = Judged(r, row)
      PROVE  Stays \/ (r = s /\ req'[s].step = "in" /\ Allows(row, Need(req[s].ask)))
  <2>1. req'[s] = req[s] \/ req'[s] = Idle \/ (r = s /\ req'[s] = LetIn(s) /\ Allows(row, Need(req[s].ask)))
    BY <1>1, Judging
  <2>2. LetIn(s).step = "in" /\ Idle.step = "idle"
    BY IdleIsSigned DEF LetIn, AccountsTypeOK, Signed
  <2> QED
    BY <2>1, <2>2
<1>2. ASSUME NEW r \in Requests, NEW u, NEW p, NEW ask, Arrive(r, u, p, ask)
      PROVE  Stays
  <2>1. req' = [req EXCEPT ![r] = [Idle EXCEPT !.step = "guard", !.user = u, !.proc = p, !.ask = ask]]
    BY <1>2 DEF Arrive
  <2>2. [Idle EXCEPT !.step = "guard", !.user = u, !.proc = p, !.ask = ask].step = "guard"
    BY IdleIsSigned DEF Signed
  <2> QED
    BY <2>1, <2>2 DEF AccountsTypeOK
<1>3. ASSUME NEW r \in Requests, GuardRead(r)
      PROVE  Stays \/ (r = s /\ req'[s].step = "look")
  BY <1>3 DEF GuardRead, AccountsTypeOK, Signed
<1>4. ASSUME NEW r \in Requests, req' = [req EXCEPT ![r] = Idle]
      PROVE  Stays
  BY <1>4, IdleIsSigned DEF AccountsTypeOK
<1>5. ASSUME NEW r \in Requests, Write(r)
      PROVE  r # s \/ req'[s].step = "wrote"
  <2>1. req'[r] = [req[r] EXCEPT !.step = "wrote"]
    BY <1>5, WriteRequests
  <2>2. req'[r].step = "wrote"
    BY <2>1 DEF AccountsTypeOK, Signed
  <2> QED
    BY <2>2
<1>6. ASSUME NEW r \in Requests, See(r) \/ Count(r), r # s
      PROVE  req'[s] = req[s]
  BY <1>6 DEF See, Count, At, AccountsTypeOK
<1>7. ASSUME NEW p \in Procs, Restart(p)
      PROVE  Stays
  BY <1>7, IdleIsSigned DEF Restart
<1>8. CASE UNCHANGED vars \/ Tick
  BY <1>8 DEF vars, Tick
<1>9. CASE \E r \in Requests : Create(r) \/ Invalidate(r) \/ Done(r)
  BY <1>9, <1>4 DEF Create, Invalidate, Done
<1>10. ASSUME NEW r \in Requests, GuardHit(r)
       PROVE  Stays \/ (r = s /\ req'[s].step = "in" /\ Allows(cache[req[s].proc][req[s].user].row, Need(req[s].ask)))
  <2> DEFINE row == cache[req[r].proc][req[r].user].row
  <2>1. req' = Judged(r, row) /\ req[r].step \in {"guard", "look"}
    BY <1>10 DEF GuardHit
  <2> HIDE DEF row
  <2>2. Stays \/ (r = s /\ req'[s].step = "in" /\ Allows(row, Need(req[s].ask)))
    BY <1>1, <2>1
  <2> QED
    BY <2>2 DEF row
<1>11. ASSUME NEW r \in Requests, GuardFill(r)
       PROVE  Stays \/ (r = s /\ req'[s].step = "in" /\ Allows(req[s].row, Need(req[s].ask)))
  <2> DEFINE row == req[r].row
  <2>1. req' = Judged(r, row) /\ req[r].step \in {"guard", "look"}
    BY <1>11 DEF GuardFill
  <2> HIDE DEF row
  <2>2. Stays \/ (r = s /\ req'[s].step = "in" /\ Allows(row, Need(req[s].ask)))
    BY <1>1, <2>1
  <2> QED
    BY <2>2 DEF row
<1> HIDE DEF Stays
<1>12. \/ \E r \in Requests : GuardHit(r) \/ GuardRead(r) \/ GuardFill(r)
       \/ \E r \in Requests : Create(r) \/ Invalidate(r) \/ Done(r)
       \/ \E r \in Requests : See(r) \/ Count(r) \/ Write(r)
       \/ \E r \in Requests, u \in world.users, p \in Procs, ask \in world.asks : Arrive(r, u, p, ask)
       \/ \E p \in Procs : Restart(p)
       \/ UNCHANGED vars \/ Tick
  BY DEF AccountsStep, User, Guard, EditStep
<1> USE DEF Stays
<1> QED
  BY <1>2, <1>3, <1>5, <1>6, <1>7, <1>8, <1>9, <1>10, <1>11, <1>12

(* A request that counts or writes did so already, or saw the account or counted;
   one that looks up did so already, or comes to. *)
LEMMA RequestCases ==
  ASSUME AccountsTypeOK, AccountsStep \/ UNCHANGED vars, NEW s \in Requests
  PROVE  /\ req'[s].step \in {"count", "write"} =>
              req'[s] = req[s] \/ (\E r \in Requests \ {s} : Write(r)) \/ See(s) \/ Count(s)
         /\ req'[s].step = "look" =>
              req'[s] = req[s] \/ (\E r \in Requests \ {s} : Write(r)) \/ GuardRead(s)
<1>1. See(s) \/ Count(s) => req'[s].step # "look"
  <2>1. See(s) \/ Count(s) => \/ req' = [req EXCEPT ![s] = Idle]
                             \/ \E step \in {"count", "write"} : req' = [req EXCEPT ![s].step = step]
    BY DEF See, Count, At
  <2> QED
    BY <2>1, IdleIsSigned DEF AccountsTypeOK, Signed
<1> QED
  BY <1>1, StepCases

(* What another request's write does to s: it may overtake its count. *)
LEMMA Overtaking ==
  ASSUME AccountsTypeOK, NEW s \in Requests, NEW r \in Requests \ {s}, Write(r)
  PROVE  /\ req'[s].ask = req[s].ask /\ req'[s].step = req[s].step
         /\ req'[s].user = req[s].user /\ req'[s].proc = req[s].proc
         /\ req'[s].row = req[s].row /\ req'[s].at = req[s].at
         /\ req[s].step = "write" /\ req[s].ask.kind = "disable" /\ ~req'[s].crossed =>
              /\ ~req[s].crossed
              /\ EnabledAdmin(account[req[r].ask.target]) = EnabledAdmin(account'[req[r].ask.target])
<1>1. PICK b \in BOOLEAN :
        /\ req'[s] = [req[s] EXCEPT !.crossed = b]
        /\ b = (req[s].crossed \/ (req[s].step = "write" /\ req[s].ask.kind = "disable"
                  /\ EnabledAdmin(account[req[r].ask.target]) # EnabledAdmin(account'[req[r].ask.target])))
  BY WriteRequests
<1>2. req[s] \in Signed
  BY DEF AccountsTypeOK
<1>3. /\ req'[s].ask = req[s].ask /\ req'[s].step = req[s].step /\ req'[s].crossed = b
      /\ req'[s].user = req[s].user /\ req'[s].proc = req[s].proc
      /\ req'[s].row = req[s].row /\ req'[s].at = req[s].at
  BY <1>1, <1>2 DEF Signed
<1> QED
  BY <1>1, <1>3

(* A request that saw the account or counted, and goes on. *)
LEMMA SeeCount ==
  ASSUME AccountsTypeOK, NEW s \in Requests, See(s) \/ Count(s), req'[s].step # "idle"
  PROVE  /\ req'[s].ask = req[s].ask /\ req'[s].ask.target \in Users /\ account' = account
         /\ \/ /\ See(s) /\ account[req[s].ask.target].there
               /\ req'[s].ask.kind = "disable" /\ req'[s].step = "write" => account[req[s].ask.target].role # "admin"
            \/ /\ Count(s) /\ req[s].step = "count"
               /\ OtherEnabledAdmins(req[s].ask.target) # {}
<1>1. req[s] \in Signed /\ (req[s].ask.kind \notin {"read", "stock"} => req[s].ask.target \in Users)
  BY DEF AccountsTypeOK, Signed, Asks
<1>2. CASE See(s)
  <2>1. req'[s] = [req[s] EXCEPT !.step = IF req[s].ask.kind = "disable" /\ account[req[s].ask.target].role = "admin"
                                            THEN "count" ELSE "write"]
    BY <1>2, IdleIsSigned DEF See, At, AccountsTypeOK
  <2>2. req'[s].ask = req[s].ask
    BY <1>1, <2>1 DEF Signed
  <2>3. req'[s].step = "write" /\ req[s].ask.kind = "disable" => account[req[s].ask.target].role # "admin"
    BY <1>1, <2>1 DEF Signed
  <2>4. account[req[s].ask.target].there /\ account' = account /\ req[s].ask.kind \notin {"read", "stock"}
    BY <1>2, IdleIsSigned DEF See, AccountsTypeOK
  <2> QED
    BY <1>1, <1>2, <2>2, <2>3, <2>4
<1>3. CASE Count(s)
  <2>1. req'[s] = [req[s] EXCEPT !.step = "write"] /\ OtherEnabledAdmins(req[s].ask.target) # {}
    BY <1>3, IdleIsSigned DEF Count, At, AccountsTypeOK
  <2>2. req'[s].ask = req[s].ask
    BY <1>1, <2>1 DEF Signed
  <2>3. req[s].step = "count" /\ req[s].ask.target \in Users /\ account' = account
    BY <1>3 DEF Count, AccountsTypeOK
  <2> QED
    BY <1>3, <2>1, <2>2, <2>3
<1> QED
  BY <1>2, <1>3

LEMMA NextNumbered ==
  ASSUME AccountsTypeOK, Numbered, AccountsStep \/ UNCHANGED vars
  PROVE  Numbered'
<1>1. ASSUME NEW u \in Users
      PROVE  /\ account'[u].version >= account[u].version
             /\ account[u].version > 0 => account'[u].version > 0
             /\ account'[u].there => account'[u].version > 0
  <2>1. account[u] \in Row /\ (account[u].there => account[u].version > 0)
    BY DEF AccountsTypeOK, Numbered
  <2>2. ASSUME NEW r \in Requests, Create(r)
        PROVE  account'[u] = account[u] \/ (account[u].version = 0 /\ account'[u].version = 1)
    BY <2>2 DEF Create, AccountsTypeOK, Account
  <2>3. ASSUME NEW r \in Requests, Write(r)
        PROVE  /\ account'[u] \in Row /\ account'[u].version >= account[u].version
               /\ account'[u].there => account[u].there
    <3>1. CASE u = req[r].ask.target
      BY <2>1, <2>3, <3>1, EditedRow
    <3>2. CASE u # req[r].ask.target
      BY <2>1, <2>3, <3>2, EditedRow DEF Row
    <3> QED
      BY <3>1, <3>2
  <2>4. CASE account' = account
    BY <2>1, <2>4 DEF Row
  <2>5. CASE \E r \in Requests : Create(r)
    BY <2>1, <2>2, <2>5 DEF Row
  <2>6. CASE \E r \in Requests : Write(r)
    BY <2>1, <2>3, <2>6 DEF Row
  <2> QED
    BY <2>4, <2>5, <2>6, AccountsCases
<1>2. ASSUME NEW s \in Requests, req'[s].step \in {"count", "write"}
      PROVE  /\ req'[s].ask = req[s].ask
             /\ req[s].step \in {"count", "write"} \/ account[req[s].ask.target].there
  <2>1. CASE req'[s] = req[s]
    BY <1>2, <2>1
  <2>2. ASSUME NEW r \in Requests \ {s}, Write(r) PROVE req'[s].ask = req[s].ask /\ req'[s].step = req[s].step
    BY <2>2, Overtaking
  <2>3. CASE See(s) \/ Count(s)
    BY <1>2, <2>3, SeeCount
  <2> QED
    BY <1>2, <2>1, <2>2, <2>3, RequestCases
<1>3. ASSUME NEW s \in Requests, req'[s].step \in {"count", "write"}
      PROVE  account'[req'[s].ask.target].version > 0
  <2>1. req[s].ask.target \in Users
    BY <1>2, <1>3, NextAccountsType DEF AccountsTypeOK
  <2> QED
    BY <1>1, <1>2, <1>3, <2>1 DEF Numbered
<1> QED
  BY <1>1, <1>3 DEF Numbered

(* A creation takes no administrator away. *)
LEMMA CreateKeeps ==
  ASSUME AccountsTypeOK, Numbered, NEW r \in Requests, Create(r)
  PROVE  /\ \A u \in Users : account[u].version > 0 => account'[u] = account[u]
         /\ \A u \in Users : EnabledAdmin(account[u]) => account'[u] = account[u]
<1>1. \A u \in Users : account[u].version > 0 => account'[u] = account[u]
  BY DEF Create, AccountsTypeOK
<1> QED
  BY <1>1 DEF Numbered, EnabledAdmin

LEMMA NextCountStands ==
  ASSUME AccountsTypeOK, Numbered, CountStands, AccountsStep \/ UNCHANGED vars
  PROVE  CountStands'
<1> SUFFICES ASSUME NEW s \in Requests, req'[s].step = "write", req'[s].ask.kind = "disable", ~req'[s].crossed,
                    EnabledAdmin(account'[req'[s].ask.target])
             PROVE  \E v \in Users \ {req'[s].ask.target} : EnabledAdmin(account'[v])
  BY DEF CountStands, OtherEnabledAdmins
<1> DEFINE t == req'[s].ask.target
<1>1. t \in Users
  BY NextAccountsType DEF AccountsTypeOK
<1>2. ASSUME \A u \in Users : EnabledAdmin(account[u]) => EnabledAdmin(account'[u]),
             OtherEnabledAdmins(t) # {}
      PROVE  \E v \in Users \ {t} : EnabledAdmin(account'[v])
  BY <1>2 DEF OtherEnabledAdmins
<1>3. CASE req'[s] = req[s] /\ ~\E r \in Requests : Write(r)
  <2>1. account[t].version > 0
    BY <1>3 DEF Numbered
  <2>2. account'[t] = account[t] /\ \A u \in Users : EnabledAdmin(account[u]) => account'[u] = account[u]
    BY <1>1, <1>3, <2>1, AccountsCases, CreateKeeps
  <2>3. OtherEnabledAdmins(t) # {}
    BY <1>3, <2>2 DEF CountStands
  <2>4. \A u \in Users : EnabledAdmin(account[u]) => EnabledAdmin(account'[u])
    BY <2>2
  <2> QED
    BY <1>2, <2>3, <2>4
<1>4. ASSUME NEW r \in Requests \ {s}, Write(r) PROVE \E v \in Users \ {t} : EnabledAdmin(account'[v])
  <2>1. req[s].step = "write" /\ req[s].ask = req'[s].ask
    BY <1>4, Overtaking
  <2>2. ~req[s].crossed /\ EnabledAdmin(account[req[r].ask.target]) = EnabledAdmin(account'[req[r].ask.target])
    BY <1>4, <2>1, Overtaking
  <2>3. ASSUME NEW u \in Users PROVE EnabledAdmin(account[u]) <=> EnabledAdmin(account'[u])
    <3>1. CASE u = req[r].ask.target
      BY <2>2, <3>1
    <3>2. CASE u # req[r].ask.target
      BY <1>4, <3>2, EditedRow
    <3> QED
      BY <3>1, <3>2
  <2>4. OtherEnabledAdmins(t) # {}
    BY <1>1, <2>1, <2>2, <2>3 DEF CountStands
  <2> QED
    BY <1>2, <2>3, <2>4
<1>5. CASE See(s) \/ Count(s)
  <2>1. /\ account' = account /\ t = req[s].ask.target
        /\ account[t].role # "admin" \/ OtherEnabledAdmins(t) # {}
    BY <1>5, SeeCount
  <2>2. OtherEnabledAdmins(t) # {}
    BY <2>1 DEF EnabledAdmin
  <2>3. \A u \in Users : EnabledAdmin(account[u]) => EnabledAdmin(account'[u])
    BY <2>1
  <2> QED
    BY <1>2, <2>2, <2>3
<1>6. ~Write(s)
  <2>1. SUFFICES ASSUME Write(s) PROVE FALSE
    OBVIOUS
  <2>2. req'[s] = [req[s] EXCEPT !.step = "wrote"]
    BY <2>1, WriteRequests
  <2>3. req'[s].step = "wrote"
    BY <2>2 DEF AccountsTypeOK, Signed
  <2> QED
    BY <2>3
<1> QED
  BY <1>3, <1>4, <1>5, <1>6, RequestCases

(* The last enabled administrator goes only by what nothing counts, or on a count
   that was overtaken. *)
LEMMA NextAdminRemains ==
  ASSUME AccountsTypeOK, Numbered, CountStands, AnAdminRemains, AccountsStep \/ UNCHANGED vars
  PROVE  AnAdminRemains'
<1> SUFFICES ASSUME ~demoted' PROVE \E u \in Users : EnabledAdmin(account'[u])
  BY DEF AnAdminRemains
<1>1. CASE UNCHANGED <<account, lost, demoted>>
  BY <1>1 DEF AnAdminRemains
<1>2. ASSUME NEW r \in Requests, Create(r) PROVE \E u \in Users : EnabledAdmin(account'[u])
  <2>1. ~demoted
    BY <1>2 DEF Create, ghosts
  <2> QED
    BY <1>2, <2>1, CreateKeeps DEF AnAdminRemains
<1>3. ASSUME NEW r \in Requests, Write(r) PROVE \E u \in Users : EnabledAdmin(account'[u])
  <2> DEFINE t == req[r].ask.target
  <2>1. t \in Users /\ account'[t] = Edited(account[t], req[r].ask) /\ \A u \in Users \ {t} : account'[u] = account[u]
    BY <1>3, EditedRow
  <2>2. /\ ~demoted
        /\ ~(EnabledAdmin(account[t]) /\ ~EnabledAdmin(account'[t]) /\ (req[r].ask.kind # "disable" \/ req[r].crossed))
        /\ req[r].step = "write"
    BY <1>3, <2>1 DEF Write
  <2>3. PICK v \in Users : EnabledAdmin(account[v])
    BY <2>2 DEF AnAdminRemains
  <2>4. CASE v # t
    BY <2>1, <2>3, <2>4
  <2>5. CASE v = t /\ ~EnabledAdmin(account'[t])
    <3>1. OtherEnabledAdmins(t) # {}
      BY <2>2, <2>3, <2>5 DEF CountStands
    <3> QED
      BY <2>1, <3>1 DEF OtherEnabledAdmins
  <2> QED
    BY <2>3, <2>4, <2>5
<1> QED
  BY <1>1, <1>2, <1>3, AccountsCases

-----------------------------------------------------------------------------
(* The end of a right *)

(* A right is lost in a write, which notes when. *)
LEMMA RightsKept ==
  ASSUME AccountsTypeOK, Numbered, AccountsStep \/ UNCHANGED vars, NEW u \in Users, NEW right \in Rights
  PROVE  \/ lost'[u][right] = now /\ now' = now
         \/ lost'[u][right] = lost[u][right] /\ (Allows(account[u], right) => Allows(account'[u], right))
<1>1. CASE UNCHANGED <<account, lost, demoted>>
  BY <1>1
<1>2. ASSUME NEW r \in Requests, Create(r)
      PROVE  lost' = lost /\ (Allows(account[u], right) => account'[u] = account[u])
  BY <1>2, CreateKeeps DEF Create, ghosts, Numbered, Allows
<1>3. ASSUME NEW r \in Requests, Write(r)
      PROVE  \/ lost'[u][right] = now /\ now' = now
             \/ lost'[u][right] = lost[u][right] /\ (Allows(account[u], right) => Allows(account'[u], right))
  <2> DEFINE t == req[r].ask.target
  <2>1. t \in Users /\ account'[t] = Edited(account[t], req[r].ask) /\ \A v \in Users \ {t} : account'[v] = account[v]
    BY <1>3, EditedRow
  <2>2. /\ lost' = [lost EXCEPT ![t] = [p \in Rights |-> IF Allows(account[t], p) /\ ~Allows(account'[t], p)
                                                         THEN now ELSE lost[t][p]]]
        /\ now' = now
    BY <1>3, <2>1 DEF Write, env, AccountsTypeOK
  <2>3. CASE u = t
    <3>1. lost'[u][right] = IF Allows(account[u], right) /\ ~Allows(account'[u], right) THEN now ELSE lost[u][right]
      BY <2>2, <2>3 DEF AccountsTypeOK
    <3> QED
      BY <2>2, <3>1
  <2>4. CASE u # t
    <3>1. lost'[u] = lost[u] /\ account'[u] = account[u]
      BY <2>1, <2>2, <2>4 DEF AccountsTypeOK
    <3> QED
      BY <3>1
  <2> QED
    BY <2>3, <2>4
<1> QED
  BY <1>1, <1>2, <1>3, AccountsCases

(* Time goes by in no look-up longer than LookupTime. *)
LEMMA NowCases ==
  ASSUME AccountsTypeOK, AccountsStep \/ UNCHANGED vars
  PROVE  \/ now' = now
         \/ now' = now + 1 /\ req' = req /\ \A r \in Requests : req[r].step = "look" => now < req[r].at + LookupTime
BY DEF AccountsStep, User, Guard, EditStep, Arrive, GuardHit, GuardRead, GuardFill, Create, See, Count, Write, Invalidate,
       Done, Restart, Tick, vars, env, ghosts

LEMMA NextCopiesEnd ==
  ASSUME AccountsTypeOK, Numbered, CopiesEnd, LooksEnd, AccountsStep \/ UNCHANGED vars
  PROVE  CopiesEnd'
<1> SUFFICES ASSUME NEW p \in Procs, NEW u \in Users, cache'[p][u] # NoCopy
             PROVE  /\ cache'[p][u].expires <= now' + TTL
                    /\ \A right \in Rights : Allows(cache'[p][u].row, right) =>
                         \/ Allows(account'[u], right)
                         \/ lost'[u][right] >= 0 /\ cache'[p][u].expires <= lost'[u][right] + TTL + LookupTime
  BY DEF CopiesEnd
<1>1. TTL \in Nat /\ LookupTime \in Nat /\ now \in Nat /\ now' \in Nat /\ now' >= now
  BY AccountsAssumption, NowCases DEF AccountsTypeOK
<1>2. CASE cache'[p][u] = cache[p][u]
  <2>1. cache[p][u].expires \in Nat /\ cache[p][u].expires <= now + TTL
    BY <1>2 DEF CopiesEnd, AccountsTypeOK, Copy
  <2>2. ASSUME NEW right \in Rights, Allows(cache[p][u].row, right)
        PROVE  \/ Allows(account'[u], right)
               \/ lost'[u][right] >= 0 /\ cache[p][u].expires <= lost'[u][right] + TTL + LookupTime
    BY <1>1, <1>2, <2>1, <2>2, RightsKept DEF CopiesEnd
  <2> QED
    BY <1>1, <1>2, <2>1, <2>2
<1>3. ASSUME NEW r \in Requests, GuardFill(r), p = req[r].proc, u = req[r].user, cache'[p][u] = Found(r)
      PROVE  /\ cache'[p][u].expires = now + TTL /\ now' = now
             /\ \A right \in Rights : Allows(cache'[p][u].row, right) =>
                  \/ Allows(account'[u], right)
                  \/ lost'[u][right] >= 0 /\ now + TTL <= lost'[u][right] + TTL + LookupTime
  <2>1. /\ req[r].step = "look" /\ account' = account /\ lost' = lost /\ now' = now
        /\ req[r].at \in Nat /\ lost[u] \in [Rights -> Nat \cup {-1}]
    BY <1>3 DEF GuardFill, env, ghosts, AccountsTypeOK, Signed
  <2>2. cache'[p][u].row = req[r].row /\ cache'[p][u].expires = now + TTL
    BY <1>3 DEF Found
  <2>3. ASSUME NEW right \in Rights, Allows(req[r].row, right)
        PROVE  Allows(account[u], right) \/ lost[u][right] >= req[r].at
    BY <1>3, <2>1, <2>3 DEF LooksEnd
  <2>4. now <= req[r].at + LookupTime
    BY <2>1 DEF LooksEnd
  <2>5. ASSUME NEW right \in Rights, lost[u][right] >= req[r].at
        PROVE  lost[u][right] >= 0 /\ now + TTL <= lost[u][right] + TTL + LookupTime
    BY <1>1, <2>1, <2>4, <2>5
  <2> QED
    BY <2>1, <2>2, <2>3, <2>5
<1> QED
  BY <1>1, <1>2, <1>3, CopyCases

LEMMA NextLooksEnd ==
  ASSUME AccountsTypeOK, Numbered, LooksEnd, AccountsStep \/ UNCHANGED vars
  PROVE  LooksEnd'
<1> SUFFICES ASSUME NEW s \in Requests, req'[s].step = "look"
             PROVE  /\ req'[s].at <= now' /\ now' <= req'[s].at + LookupTime
                    /\ \A right \in Rights : Allows(req'[s].row, right) =>
                         Allows(account'[req'[s].user], right) \/ lost'[req'[s].user][right] >= req'[s].at
  BY DEF LooksEnd
<1>1. LookupTime \in Nat /\ now \in Nat /\ req[s].at \in Nat /\ req[s] \in Signed
  BY AccountsAssumption DEF AccountsTypeOK, Signed
<1>2. CASE GuardRead(s)
  <2>1. /\ req'[s].row = account[req[s].user] /\ req'[s].at = now /\ req'[s].user = req[s].user
        /\ account' = account /\ now' = now
    BY <1>1, <1>2 DEF GuardRead, env, AccountsTypeOK, Signed
  <2> QED
    BY <1>1, <2>1
<1>3. CASE /\ req'[s].step = req[s].step /\ req'[s].user = req[s].user
           /\ req'[s].row = req[s].row /\ req'[s].at = req[s].at
  <2>1. /\ req[s].at <= now /\ now <= req[s].at + LookupTime
        /\ \A right \in Rights : Allows(req[s].row, right) =>
             Allows(account[req[s].user], right) \/ lost[req[s].user][right] >= req[s].at
    BY <1>3 DEF LooksEnd
  <2>2. req[s].at <= now' /\ now' <= req[s].at + LookupTime
    BY <1>1, <1>3, <2>1, NowCases
  <2>3. req[s].user \in Users
    BY <1>3 DEF AccountsTypeOK
  <2>4. ASSUME NEW right \in Rights, Allows(req[s].row, right)
        PROVE  Allows(account'[req[s].user], right) \/ lost'[req[s].user][right] >= req[s].at
    BY <2>1, <2>3, <2>4, RightsKept
  <2> QED
    BY <1>3, <2>2, <2>4
<1> QED
  BY <1>2, <1>3, RequestCases, Overtaking

(* An edit that is noted at a process, and what is noted of it. *)
LEMMA LandedCases ==
  ASSUME AccountsTypeOK, AccountsStep \/ UNCHANGED vars, NEW p \in Procs, NEW u \in Users
  PROVE  \/ landed'[p][u] = landed[p][u]
         \/ /\ cache'[p][u] = NoCopy /\ now' = now /\ account' = account
            /\ landed'[p][u] = Landed(p, u)
<1>1. ASSUME NEW r \in Requests, Invalidate(r)
      PROVE  \/ landed'[p][u] = landed[p][u]
             \/ /\ cache'[p][u] = NoCopy /\ now' = now /\ account' = account
                /\ landed'[p][u] = Landed(p, u)
  BY <1>1 DEF Invalidate, AccountsTypeOK, env
<1>2. landed' = landed \/ \E r \in Requests : Invalidate(r)
  BY DEF AccountsStep, User, Guard, EditStep, Arrive, GuardHit, GuardRead, GuardFill, Create, See, Count, Write,
         Done, Restart, Tick, vars, env, ghosts
<1> QED
  BY <1>1, <1>2

(* The version of an account only grows. *)
LEMMA VersionsGrow ==
  ASSUME AccountsTypeOK, AccountsStep \/ UNCHANGED vars, NEW u \in Users
  PROVE  account[u].version \in Nat /\ account'[u].version \in Nat /\ account'[u].version >= account[u].version
<1>1. account[u] \in Row
  BY DEF AccountsTypeOK
<1>2. account[u].version \in Nat
  BY <1>1 DEF Row
<1>3. CASE account' = account
  BY <1>2, <1>3
<1>4. ASSUME NEW r \in Requests, Create(r)
      PROVE  account'[u] = account[u] \/ (account[u].version = 0 /\ account'[u].version = 1)
  BY <1>4 DEF Create, AccountsTypeOK, Account
<1>5. ASSUME NEW r \in Requests, Write(r)
      PROVE  account'[u].version \in Nat /\ account'[u].version >= account[u].version
  <2>1. CASE u = req[r].ask.target
    BY <1>5, <2>1, EditedRow DEF Row
  <2>2. CASE u # req[r].ask.target
    BY <1>2, <1>5, <2>2, EditedRow
  <2> QED
    BY <2>1, <2>2
<1> QED
  BY <1>2, <1>3, <1>4, <1>5, AccountsCases

(* What is brought back over an edit comes from a look-up the edit crossed. *)
LEMMA NextKnown ==
  ASSUME AccountsTypeOK, LooksEnd, EditsKnown, AccountsStep \/ UNCHANGED vars
  PROVE  EditsKnown'
<1>1. TTL \in Nat /\ LookupTime \in Nat /\ now \in Nat
  BY AccountsAssumption DEF AccountsTypeOK
<1>2. ASSUME NEW p \in Procs, NEW u \in Users
      PROVE  /\ landed[p][u] \in Edits
             /\ landed'[p][u].version <= account'[u].version
  <2>1. landed[p][u] \in Edits /\ landed[p][u].version \in Nat /\ landed[p][u].version <= account[u].version
    BY DEF AccountsTypeOK, Edits, EditsKnown
  <2>2. CASE landed'[p][u] = landed[p][u]
    BY <2>1, <2>2, VersionsGrow
  <2>3. CASE landed'[p][u] = Landed(p, u) /\ account' = account
    BY <2>1, <2>3, VersionsGrow DEF Landed
  <2> QED
    BY <2>1, <2>2, <2>3, LandedCases
<1>3. ASSUME NEW p \in Procs, NEW u \in Users, cache'[p][u] # NoCopy, cache'[p][u].row.version < landed'[p][u].version
      PROVE  landed'[p][u].crossed /\ cache'[p][u].expires <= landed'[p][u].at + TTL + LookupTime
  <2>1. landed'[p][u] = landed[p][u]
    BY <1>3, LandedCases
  <2>2. CASE cache'[p][u] = cache[p][u]
    BY <1>3, <2>1, <2>2 DEF EditsKnown, Before
  <2>3. ASSUME NEW r \in Requests, GuardFill(r), p = req[r].proc, u = req[r].user, cache'[p][u] = Found(r)
        PROVE  landed'[p][u].crossed /\ cache'[p][u].expires <= landed'[p][u].at + TTL + LookupTime
    <3>1. req[r].step = "look" /\ req[r].at \in Nat
      BY <2>3 DEF GuardFill, AccountsTypeOK, Signed
    <3>2. cache'[p][u].row = req[r].row /\ cache'[p][u].expires = now + TTL
      BY <2>3 DEF Found
    <3>3. landed[p][u].crossed /\ req[r].at <= landed[p][u].at
      BY <1>3, <2>1, <2>3, <3>1, <3>2 DEF EditsKnown, Before
    <3>4. now <= req[r].at + LookupTime /\ landed[p][u].at \in Nat
      BY <1>2, <3>1 DEF LooksEnd, Edits
    <3>5. now + TTL <= landed[p][u].at + TTL + LookupTime
      BY <1>1, <3>1, <3>3, <3>4
    <3> QED
      BY <2>1, <3>2, <3>3, <3>5
  <2> QED
    BY <1>3, <2>2, <2>3, CopyCases
<1>4. ASSUME NEW s \in Requests, req'[s].step = "look",
             req'[s].row.version < landed'[req'[s].proc][req'[s].user].version
      PROVE  /\ landed'[req'[s].proc][req'[s].user].crossed
             /\ req'[s].at <= landed'[req'[s].proc][req'[s].user].at
  <2> DEFINE p == req[s].proc
             u == req[s].user
  <2>1. req[s] \in Signed
    BY DEF AccountsTypeOK
  <2>2. ~GuardRead(s)
    <3>1. SUFFICES ASSUME GuardRead(s) PROVE FALSE
      OBVIOUS
    <3>2. /\ req'[s].row = account[u] /\ req'[s].proc = p /\ req'[s].user = u
          /\ account' = account /\ u \in Users /\ p \in Procs
      BY <2>1, <3>1 DEF GuardRead, AccountsTypeOK, Signed
    <3>3. landed'[p][u].version <= account[u].version /\ account[u].version \in Nat
      BY <1>2, <3>2, VersionsGrow
    <3>4. landed'[p][u].version \in Nat
      BY <3>2, NextAccountsType DEF AccountsTypeOK, Edits
    <3> QED
      BY <1>4, <3>2, <3>3, <3>4
  <2>3. /\ req[s].step = "look" /\ req'[s].proc = p /\ req'[s].user = u
        /\ req'[s].row = req[s].row /\ req'[s].at = req[s].at
    <3>1. CASE req'[s] = req[s]
      BY <1>4, <3>1
    <3>2. ASSUME NEW r \in Requests \ {s}, Write(r)
          PROVE  /\ req'[s].step = req[s].step /\ req'[s].proc = req[s].proc /\ req'[s].user = req[s].user
                 /\ req'[s].row = req[s].row /\ req'[s].at = req[s].at
      BY <3>2, Overtaking
    <3> QED
      BY <1>4, <2>2, <3>1, <3>2, RequestCases
  <2>4. p \in Procs /\ u \in Users
    BY <2>3 DEF AccountsTypeOK
  <2>5. CASE landed'[p][u] = landed[p][u]
    BY <1>4, <2>3, <2>5 DEF EditsKnown, Before
  <2>6. CASE landed'[p][u] = Landed(p, u)
    <3>1. Landed(p, u).crossed /\ Landed(p, u).at = now
      BY <2>3 DEF Landed
    <3>2. req[s].at <= now
      BY <2>3 DEF LooksEnd
    <3> QED
      BY <2>3, <2>6, <3>1, <3>2
  <2> QED
    BY <2>4, <2>5, <2>6, LandedCases
<1> QED
  BY <1>2, <1>3, <1>4 DEF EditsKnown, Before

LEMMA NextAccounts ==
  ASSUME AccountsInv, AccountsStep \/ UNCHANGED vars
  PROVE  AccountsInv'
BY NextAccountsType, NextNumbered, NextCountStands, NextAdminRemains, NextCopiesEnd, NextLooksEnd, NextKnown DEF AccountsInv

LEMMA OfficeSteps == [OfficeNext]_officeVars => AccountsStep \/ UNCHANGED vars
BY AccountsHalf DEF officeVars

LEMMA AccountsInvariant == Spec => []AccountsInv
<1>1. OfficeInit => AccountsInv
  BY InitAccounts DEF OfficeInit
<1>2. AccountsInv /\ [OfficeNext]_officeVars => AccountsInv'
  BY NextAccounts, OfficeSteps
<1> QED
  BY <1>1, <1>2, PTL DEF Spec

(* Someone is left to administer, however many administrators disable each other at
   once, unless an edit nothing counts took one away (assertNotLastAdmin). *)
THEOREM SomeoneAdministers == Spec => []AnAdminRemains
<1>1. AccountsInv => AnAdminRemains
  BY DEF AccountsInv
<1> QED
  BY <1>1, AccountsInvariant, PTL

(* One request that is let in. *)
LEMMA LetInStep ==
  ASSUME AccountsInv, AccountsStep \/ UNCHANGED vars,
         NEW r \in Requests, req[r].step \in {"guard", "look"}, req'[r].step = "in"
  PROVE  LET u == req[r].user
             need == Need(req[r].ask)
         IN  Allows(account[u], need) \/ (lost[u][need] >= 0 /\ now < lost[u][need] + TTL + LookupTime)
<1> DEFINE u == req[r].user
           p == req[r].proc
           need == Need(req[r].ask)
<1> USE DEF AccountsInv
<1>1. need \in Rights /\ u \in Users /\ p \in Procs /\ req[r].at \in Nat
  BY AccountsAssumption DEF Need, AccountsTypeOK, Signed
<1>2. now \in Nat /\ TTL \in Nat \ {0} /\ LookupTime \in Nat /\ lost[u][need] \in Int
  BY <1>1, AccountsAssumption DEF AccountsTypeOK
<1>3. \/ GuardHit(r) /\ Allows(cache[p][u].row, need)
      \/ GuardFill(r) /\ Allows(req[r].row, need)
  <2>1. req'[r] # req[r] /\ req'[r].step \notin {"idle", "guard", "look", "wrote"}
    OBVIOUS
  <2>2. ~See(r) /\ ~Count(r)
    BY DEF See, Count
  <2>3. \A s \in Requests \ {r} : ~Write(s)
    BY Overtaking
  <2> QED
    BY <2>1, <2>2, <2>3, StepCases
<1> HIDE DEF u, p, need
<1>4. CASE GuardHit(r) /\ Allows(cache[p][u].row, need)
  <2>1. cache[p][u] # NoCopy /\ cache[p][u].expires > now
    BY <1>4 DEF GuardHit, Fresh, u, p
  <2>2. cache[p][u].expires \in Nat
    BY <1>1, <2>1 DEF AccountsTypeOK, Copy
  <2>3. Allows(account[u], need) \/ (lost[u][need] >= 0 /\ cache[p][u].expires <= lost[u][need] + TTL + LookupTime)
    BY <1>1, <1>4, <2>1 DEF CopiesEnd
  <2>4. Allows(account[u], need) \/ (lost[u][need] >= 0 /\ now < lost[u][need] + TTL + LookupTime)
    BY <1>2, <2>1, <2>2, <2>3
  <2> QED
    BY <2>4 DEF u, need
<1>5. CASE GuardFill(r) /\ Allows(req[r].row, need)
  <2>1. now <= req[r].at + LookupTime /\ (Allows(account[u], need) \/ lost[u][need] >= req[r].at)
    BY <1>1, <1>5 DEF GuardFill, LooksEnd, u
  <2>2. Allows(account[u], need) \/ (lost[u][need] >= 0 /\ now < lost[u][need] + TTL + LookupTime)
    BY <1>1, <1>2, <2>1
  <2> QED
    BY <2>2 DEF u, need
<1> QED
  BY <1>3, <1>4, <1>5

(* A right that ended is of use for TTL and one look-up at most, in whichever
   process, whatever look-ups and invalidations crossed (PermissionsGuard). *)
THEOREM RightsComeToAnEnd == Spec => RightsEnd
<1>1. AccountsInv /\ [OfficeNext]_officeVars =>
        [\A r \in Requests : req[r].step \in {"guard", "look"} /\ req'[r].step = "in" =>
           LET u == req[r].user
               need == Need(req[r].ask)
           IN  \/ Allows(account[u], need)
               \/ lost[u][need] >= 0 /\ now < lost[u][need] + TTL + LookupTime]_officeVars
  BY LetInStep, OfficeSteps
<1> QED
  BY <1>1, AccountsInvariant, PTL DEF Spec, RightsEnd

(* One request that is judged by a row older than an edit made at its process. *)
LEMMA JudgedBefore ==
  ASSUME AccountsInv, NEW r \in Requests,
         \/ GuardHit(r) /\ Before(cache[req[r].proc][req[r].user].row, req[r].proc, req[r].user)
         \/ GuardFill(r) /\ Before(req[r].row, req[r].proc, req[r].user)
  PROVE  LET edit == landed[req[r].proc][req[r].user]
         IN  edit.crossed /\ now < edit.at + TTL + LookupTime
<1> DEFINE u == req[r].user
           p == req[r].proc
<1> USE DEF AccountsInv
<1>1. u \in Users /\ p \in Procs /\ req[r].at \in Nat
  BY DEF AccountsTypeOK, Signed, GuardHit, GuardFill
<1>2. now \in Nat /\ TTL \in Nat \ {0} /\ LookupTime \in Nat /\ landed[p][u].at \in Nat
  BY <1>1, AccountsAssumption DEF AccountsTypeOK, Edits
<1>3. CASE GuardHit(r) /\ Before(cache[p][u].row, p, u)
  <2>1. cache[p][u] # NoCopy /\ cache[p][u].expires > now
    BY <1>3 DEF GuardHit, Fresh
  <2>2. cache[p][u].expires \in Nat
    BY <1>1, <2>1 DEF AccountsTypeOK, Copy
  <2>3. landed[p][u].crossed /\ cache[p][u].expires <= landed[p][u].at + TTL + LookupTime
    BY <1>1, <1>3, <2>1 DEF EditsKnown
  <2>4. now < landed[p][u].at + TTL + LookupTime
    BY <1>2, <2>1, <2>2, <2>3
  <2> QED
    BY <2>3, <2>4
<1>4. CASE GuardFill(r) /\ Before(req[r].row, p, u)
  <2>1. req[r].step = "look"
    BY <1>4 DEF GuardFill
  <2>2. landed[p][u].crossed /\ req[r].at <= landed[p][u].at
    BY <1>4, <2>1 DEF EditsKnown
  <2>3. now <= req[r].at + LookupTime
    BY <2>1 DEF LooksEnd
  <2>4. now < landed[p][u].at + TTL + LookupTime
    BY <1>1, <1>2, <2>2, <2>3
  <2> QED
    BY <2>2, <2>4
<1> QED
  BY <1>3, <1>4

(* An edit lands on the next request to its process, but for the rows that look-ups
   under way brought in over it, and these are of use for TTL and one look-up at most
   (invalidate after save, getAuthz). *)
THEOREM EditsAreSeen == Spec => EditsLandHere
<1>1. AccountsInv =>
        \A r \in Requests :
          LET p == req[r].proc
              u == req[r].user
              edit == landed[p][u]
              Old(row) == row.version < edit.version
          IN  (GuardHit(r) /\ Old(cache[p][u].row)) \/ (GuardFill(r) /\ Old(req[r].row))
                => edit.crossed /\ now < edit.at + TTL + LookupTime
  BY JudgedBefore DEF Before
<1> QED
  BY <1>1, AccountsInvariant, PTL DEF EditsLandHere

-----------------------------------------------------------------------------
(* Stock *)

LineRow == [place : Places, quantity : Int]

Read == [op : {"none", "adjust", "transfer"}, id : Lines \cup {None}, amount : Int, to : Places \cup {None},
         read : LineRow \cup {None}, dest : Lines \cup {None}, destRead : LineRow \cup {None}]

Logs == [line : Lines \cup {None}, delta : Int, transfer : Nat]

StockTypeOK ==
  /\ line \in [Lines -> LineRow \cup {None}]
  /\ log \in Seq(Logs)
  /\ tx \in [Txs -> Read]
  /\ moves \in Nat
  /\ raced \subseteq Lines

(* What a request read covers what it takes. *)
ReadsCover ==
  \A t \in Txs :
    /\ tx[t].op = "adjust" =>
         tx[t].id \in Lines /\ tx[t].read \in LineRow /\ tx[t].read.quantity + tx[t].amount >= 0
    /\ tx[t].op = "transfer" =>
         /\ tx[t].id \in Lines /\ tx[t].read \in LineRow /\ tx[t].to \in Places
         /\ tx[t].amount >= 0 /\ tx[t].read.quantity >= tx[t].amount
         /\ tx[t].dest # None => tx[t].destRead \in LineRow /\ tx[t].destRead.quantity >= 0

(* The transfers logged are those made. *)
TransfersMade == \A i \in DOMAIN log : log[i].transfer <= moves

StockInv == StockTypeOK /\ ReadsCover /\ Accounted /\ NeverShort /\ TransfersMade /\ TransfersBalance

LEMMA StockHalf == OneTransactionEach /\ StockTypeOK /\ [OfficeNext]_officeVars => StockStep
<1> SUFFICES ASSUME OneTransactionEach, StockTypeOK, [OfficeNext]_officeVars PROVE StockStep
  OBVIOUS
<1>0. tx = [t \in Txs |-> tx[t]]
  BY DEF StockTypeOK
<1>1. ASSUME NEW t \in Txs, Abort(t) PROVE StockStep
  <2>1. tx' = [u \in Txs |-> IF u \in {t} THEN NoTx ELSE tx[u]]
    BY <1>0, <1>1 DEF Abort
  <2>2. {t} \in SUBSET Txs
    OBVIOUS
  <2> QED
    BY <1>1, <2>1, <2>2 DEF Abort, StockStep
<1>2. CASE UNCHANGED stockVars
  <2>1. tx' = [u \in Txs |-> IF u \in {} THEN NoTx ELSE tx[u]]
    BY <1>0, <1>2 DEF stockVars
  <2>2. {} \in SUBSET Txs /\ UNCHANGED <<line, log, moves, raced>>
    BY <1>2 DEF stockVars
  <2> QED
    BY <2>1, <2>2 DEF StockStep
<1>3. ASSUME NEW r \in Requests, Request(r) PROVE StockStep
  BY <1>1, <1>2, <1>3 DEF Request, StockStep, OneTransactionEach
<1>4. ASSUME NEW p \in Procs, Crash(p) PROVE StockStep
  <2> DEFINE s == {r \in Txs : req[r].proc = p}
  <2>1. tx' = [u \in Txs |-> IF u \in s THEN NoTx ELSE tx[u]]
    BY <1>4 DEF Crash, OneTransactionEach
  <2>2. s \in SUBSET Txs
    OBVIOUS
  <2> QED
    BY <1>4, <2>1, <2>2 DEF Crash, StockStep
<1> QED
  BY <1>2, <1>3, <1>4 DEF OfficeNext, officeVars

LEMMA InitStock == StockInit => StockInv
<1> SUFFICES ASSUME StockInit PROVE StockInv
  OBVIOUS
<1>1. NoTx \in Read /\ NoTx.op = "none"
  BY DEF NoTx, Read
<1>2. StockTypeOK
  BY <1>1 DEF StockInit, StockTypeOK
<1>3. ReadsCover
  BY <1>1 DEF StockInit, ReadsCover
<1> QED
  BY <1>2, <1>3 DEF StockInit, StockInv, Accounted, NeverShort, TransfersMade, TransfersBalance

LEMMA MinInNat ==
  ASSUME NEW S, S \subseteq Nat, S # {}
  PROVE  Min(S) \in S
BY LeastNat DEF Min

(* Movements of one line are logged, or deleted: what is left of the others adds up
   to what it did. *)
LEMMA LoggedInt ==
  ASSUME log \in Seq(Logs), NEW l
  PROVE  Len(log) \in Nat /\ DOMAIN log = 1..Len(log) /\ Logged(l) \in Int
<1>1. Len(log) \in Nat /\ DOMAIN log = 1..Len(log) /\ \A i \in 1..Len(log) : log[i] \in Logs
  BY LenProperties, ElementOfSeq
<1> DEFINE g == [i \in DOMAIN log |-> IF log[i].line = l THEN log[i].delta ELSE 0]
<1>2. \A i \in 1..Len(log) : g[i] \in Int
  BY <1>1 DEF Logs
<1> HIDE DEF g
<1>3. SumTo(g, Len(log)) \in Int
  BY <1>1, <1>2, SumInt
<1> QED
  BY <1>1, <1>3 DEF Logged, g

(* What a log has of a line. *)
LogSum(s, l) == SumTo([i \in DOMAIN s |-> IF s[i].line = l THEN s[i].delta ELSE 0], Len(s))

LEMMA LogSumNext ==
  ASSUME NEW s \in Seq(Logs), NEW m \in Logs, NEW l
  PROVE  /\ Append(s, m) \in Seq(Logs)
         /\ LogSum(Append(s, m), l) = LogSum(s, l) + (IF m.line = l THEN m.delta ELSE 0)
<1> DEFINE n == Len(s)
           ss == Append(s, m)
           g == [i \in DOMAIN s |-> IF s[i].line = l THEN s[i].delta ELSE 0]
           h == [i \in DOMAIN ss |-> IF ss[i].line = l THEN ss[i].delta ELSE 0]
<1>1. /\ n \in Nat /\ DOMAIN s = 1..n /\ Len(ss) = n + 1 /\ DOMAIN ss = 1..(n + 1)
      /\ \A i \in 1..n : ss[i] = s[i]
      /\ ss[n + 1] = m /\ ss \in Seq(Logs)
  BY LenProperties, AppendProperties
<1> HIDE DEF ss
<1>2. \A i \in 1..n : g[i] = h[i]
  BY <1>1
<1>3. h[n + 1] = IF m.line = l THEN m.delta ELSE 0
  BY <1>1
<1> HIDE DEF g, h
<1>4. SumTo(h, n + 1) = SumTo(h, n) + h[n + 1]
  BY <1>1, SumNext
<1>5. SumTo(h, n) = SumTo(g, n)
  BY <1>1, <1>2, SumSame
<1>6. SumTo(h, n + 1) = SumTo(g, n) + (IF m.line = l THEN m.delta ELSE 0)
  BY <1>3, <1>4, <1>5
<1>7. LogSum(ss, l) = SumTo(h, n + 1) /\ LogSum(s, l) = SumTo(g, n)
  BY <1>1 DEF LogSum, g, h
<1> QED
  BY <1>1, <1>6, <1>7 DEF ss

(* One movement more. *)
LEMMA LoggedNext ==
  ASSUME log \in Seq(Logs), NEW m \in Logs, log' = Append(log, m), NEW l
  PROVE  /\ log' \in Seq(Logs)
         /\ Logged(l)' = Logged(l) + (IF m.line = l THEN m.delta ELSE 0)
<1>1. Logged(l) = LogSum(log, l) /\ Logged(l)' = LogSum(log', l)
  BY DEF Logged, LogSum
<1> QED
  BY <1>1, LogSumNext

(* The movements of another line are deleted. *)
LEMMA LoggedGone ==
  ASSUME log \in Seq(Logs), None \notin Lines, NEW id \in Lines, NEW l,
         log' = [i \in DOMAIN log |-> IF log[i].line = id THEN Gone ELSE log[i]]
  PROVE  /\ log' \in Seq(Logs)
         /\ l \in Lines \ {id} => Logged(l)' = Logged(l)
<1> DEFINE n == Len(log)
           g == [i \in DOMAIN log |-> IF log[i].line = l THEN log[i].delta ELSE 0]
           h == [i \in DOMAIN log' |-> IF log'[i].line = l THEN log'[i].delta ELSE 0]
<1>1. n \in Nat /\ DOMAIN log = 1..n
  BY LenProperties
<1>2. DOMAIN log' = 1..n /\ log' \in Seq(Logs) /\ Len(log') = n
  <2>1. Gone \in Logs
    BY DEF Gone, Movement, Logs
  <2>2. \A i \in 1..n : log[i] \in Logs
    BY <1>1, ElementOfSeq
  <2>3. log' \in [1..n -> Logs]
    BY <1>1, <2>1, <2>2
  <2>4. log' \in Seq(Logs)
    BY <1>1, <2>3, SeqDef
  <2> QED
    BY <1>1, <2>3, <2>4, LenProperties
<1>3. l \in Lines \ {id} => \A i \in 1..n : g[i] = h[i]
  BY <1>1, <1>2 DEF Gone, Movement
<1> HIDE DEF g, h
<1>4. l \in Lines \ {id} => SumTo(h, n) = SumTo(g, n)
  BY <1>1, <1>3, SumSame
<1> QED
  BY <1>2, <1>4 DEF Logged, g, h

(* A line nothing is logged of has 0. *)
LEMMA LoggedNone ==
  ASSUME log \in Seq(Logs), NEW l, ~HasMoved(l)
  PROVE  Logged(l) = 0
<1> DEFINE n == Len(log)
           g == [i \in DOMAIN log |-> IF log[i].line = l THEN log[i].delta ELSE 0]
<1>1. n \in Nat /\ DOMAIN log = 1..n
  BY LenProperties
<1>2. \A i \in 1..n : g[i] = 0
  BY <1>1 DEF HasMoved
<1> HIDE DEF g
<1>3. SumTo(g, n) = 0
  BY <1>1, <1>2, SumZero
<1> QED
  BY <1>3 DEF Logged, g

-----------------------------------------------------------------------------
(* The steps of the stock.  A movement that is logged for its own transfer, or for
   none, leaves the transfers in balance. *)

LEMMA BalanceNext ==
  ASSUME log \in Seq(Logs), TransfersBalance, NEW m \in Logs, log' = Append(log, m),
         m.transfer # 0 => \A i \in DOMAIN log : log[i].transfer = m.transfer => log[i].delta + m.delta = 0
  PROVE  TransfersBalance'
<1> DEFINE n == Len(log)
<1>1. /\ n \in Nat /\ DOMAIN log = 1..n /\ DOMAIN log' = 1..(n + 1)
      /\ \A i \in 1..n : log'[i] = log[i] /\ log[i] \in Logs
      /\ log'[n + 1] = m
  BY LenProperties, AppendProperties, ElementOfSeq
<1> QED
  BY <1>1 DEF TransfersBalance, Logs

LEMMA EditStock ==
  ASSUME StockAssumption, StockInv, Edit
  PROVE  StockInv'
<1> USE DEF StockInv
<1>1. None \notin Lines /\ log \in Seq(Logs)
  BY StockAssumption DEF StockTypeOK
<1>2. ASSUME NEW id \in Lines, NEW p \in Places, NEW n \in Amounts \cup {0}, CreateLine(id, p, n)
      PROVE  StockInv'
  <2>1. id \in Unused /\ n \in Nat
    <3>1. Unused \subseteq Lines
      BY DEF Unused
    <3>2. Unused \subseteq Nat /\ n \in Nat
      BY <3>1, StockAssumption
    <3>3. Unused # {} /\ id = Min(Unused)
      BY <1>2 DEF CreateLine
    <3> QED
      BY <3>2, <3>3, MinInNat
  <2>2. /\ line' = [line EXCEPT ![id] = [place |-> p, quantity |-> n]]
        /\ log' = IF n > 0 THEN Append(log, Movement(id, n, 0)) ELSE log
        /\ UNCHANGED <<tx, moves, raced>>
    BY <1>2 DEF CreateLine
  <2>3. Movement(id, n, 0) \in Logs
    BY <2>1 DEF Movement, Logs
  <2>4. Logged(id) = 0
    BY <1>1, <2>1, LoggedNone DEF Unused
  <2>5. ASSUME NEW l \in Lines PROVE Logged(l)' = Logged(l) + (IF l = id THEN n ELSE 0)
    <3>1. Logged(l) \in Int
      BY <1>1, LoggedInt
    <3>2. CASE n > 0
      BY <1>1, <2>2, <2>3, <3>2, LoggedNext DEF Movement
    <3>3. CASE n = 0
      BY <2>2, <3>1, <3>3 DEF Logged
    <3> QED
      BY <2>1, <3>2, <3>3
  <2>6. log' \in Seq(Logs)
    BY <1>1, <2>2, <2>3, LoggedNext
  <2>7. StockTypeOK'
    BY <2>1, <2>2, <2>6 DEF StockTypeOK, LineRow
  <2>8. Accounted' /\ NeverShort'
    BY <2>1, <2>2, <2>4, <2>5 DEF StockTypeOK, Accounted, NeverShort, LineRow
  <2>9. TransfersMade' /\ TransfersBalance'
    <3>1. CASE n > 0
      <4>1. TransfersBalance'
        BY <1>1, <2>2, <2>3, <3>1, BalanceNext DEF Movement
      <4>2. TransfersMade'
        BY <1>1, <2>2, <2>3, <3>1, LenProperties, AppendProperties DEF TransfersMade, Movement, StockTypeOK
      <4> QED
        BY <4>1, <4>2
    <3>2. CASE n = 0
      BY <2>2, <3>2 DEF TransfersMade, TransfersBalance
    <3> QED
      BY <2>1, <3>1, <3>2
  <2> QED
    BY <2>2, <2>7, <2>8, <2>9 DEF ReadsCover
<1>3. ASSUME NEW id \in Lines, NEW p \in Places, UpdateLine(id, p)
      PROVE  StockInv'
  <2>1. /\ line[id] \in LineRow /\ line' = [line EXCEPT ![id].place = p]
        /\ UNCHANGED <<log, tx, moves, raced>>
    BY <1>3 DEF UpdateLine, StockTypeOK
  <2>2. /\ line'[id] \in LineRow /\ line'[id].quantity = line[id].quantity
        /\ line' \in [Lines -> LineRow \cup {None}] /\ \A l \in Lines \ {id} : line'[l] = line[l]
    BY <2>1 DEF StockTypeOK, LineRow
  <2>3. \A l \in Lines : Logged(l)' = Logged(l)
    BY <2>1 DEF Logged
  <2> QED
    BY <1>3, <2>1, <2>2, <2>3
       DEF StockTypeOK, ReadsCover, Accounted, NeverShort, TransfersMade, TransfersBalance, UpdateLine
<1>4. ASSUME NEW id \in Lines, RemoveLine(id)
      PROVE  StockInv'
  <2>1. /\ line' = [line EXCEPT ![id] = None]
        /\ log' = [i \in DOMAIN log |-> IF log[i].line = id THEN Gone ELSE log[i]]
        /\ UNCHANGED <<tx, moves, raced>>
    BY <1>4 DEF RemoveLine
  <2>2. \A l \in Lines \ {id} : Logged(l)' = Logged(l)
    BY <1>1, <2>1, LoggedGone
  <2>3. log' \in Seq(Logs) /\ Len(log) \in Nat /\ DOMAIN log = 1..Len(log)
    BY <1>1, <2>1, LoggedGone, LenProperties
  <2>4. Accounted' /\ NeverShort'
    BY <2>1, <2>2 DEF StockTypeOK, Accounted, NeverShort
  <2>5. TransfersMade' /\ TransfersBalance'
    BY <2>1, <2>3 DEF StockTypeOK, TransfersMade, TransfersBalance, Gone, Movement
  <2> QED
    BY <2>1, <2>3, <2>4, <2>5 DEF StockTypeOK, ReadsCover
<1> QED
  BY <1>2, <1>3, <1>4 DEF Edit

(* Whatever leaves the lines and the log alone need only be looked at for what the
   request has read. *)
LEMMA ReadsStock ==
  ASSUME StockInv, UNCHANGED <<line, log, moves, raced>>, tx' \in [Txs -> Read], ReadsCover'
  PROVE  StockInv'
<1>1. \A l \in Lines : Logged(l)' = Logged(l)
  BY DEF Logged
<1> QED
  BY <1>1 DEF StockInv, StockTypeOK, Accounted, NeverShort, TransfersMade, TransfersBalance

LEMMA BeginStock ==
  ASSUME StockAssumption, StockInv, NEW t \in Txs, Begin(t) \/ TransferFind(t)
  PROVE  StockInv'
<1> USE DEF StockInv
<1>1. NoTx \in Read /\ NoTx.dest = None /\ None \notin Lines
  BY StockAssumption DEF NoTx, Read
<1>2. ASSUME NEW q \in Read, tx' = [tx EXCEPT ![t] = q], UNCHANGED <<line, log, moves, raced>>,
             q.op = "adjust" => q.id \in Lines /\ q.read \in LineRow /\ q.read.quantity + q.amount >= 0,
             q.op = "transfer" =>
               /\ q.id \in Lines /\ q.read \in LineRow /\ q.to \in Places
               /\ q.amount >= 0 /\ q.read.quantity >= q.amount
               /\ q.dest # None => q.destRead \in LineRow /\ q.destRead.quantity >= 0
      PROVE  StockInv'
  <2>1. tx' \in [Txs -> Read]
    BY <1>2 DEF StockTypeOK
  <2>2. ReadsCover'
    BY <1>2 DEF StockTypeOK, ReadsCover
  <2> QED
    BY <1>2, <2>1, <2>2, ReadsStock
<1>3. ASSUME NEW id \in Lines, NEW n \in Int, AdjustRead(t, id, n)
      PROVE  StockInv'
  <2> DEFINE q == [NoTx EXCEPT !.op = "adjust", !.id = id, !.amount = n, !.read = line[id]]
  <2>1. line[id] \in LineRow /\ line[id].quantity + n >= 0
    BY <1>3 DEF AdjustRead, StockTypeOK
  <2>2. /\ q \in Read /\ q.op = "adjust" /\ q.id = id /\ q.read = line[id] /\ q.amount = n
    BY <2>1 DEF NoTx, Read
  <2>3. tx' = [tx EXCEPT ![t] = q] /\ UNCHANGED <<line, log, moves, raced>>
    BY <1>3 DEF AdjustRead
  <2> HIDE DEF q
  <2> QED
    BY <1>2, <2>1, <2>2, <2>3
<1>4. ASSUME NEW id \in Lines, NEW n \in Nat, NEW to \in Places, TransferRead(t, id, to, n)
      PROVE  StockInv'
  <2> DEFINE q == [op |-> "transfer", id |-> id, amount |-> n, to |-> to, read |-> line[id],
                   dest |-> None, destRead |-> None]
  <2>1. line[id] \in LineRow /\ line[id].quantity >= n
    BY <1>4 DEF TransferRead, StockTypeOK
  <2>2. q \in Read /\ n >= 0
    BY <2>1 DEF Read
  <2>3. /\ q.op = "transfer" /\ q.id = id /\ q.read = line[id] /\ q.amount = n /\ q.to = to
        /\ q.dest = None
    OBVIOUS
  <2>4. tx' = [tx EXCEPT ![t] = q] /\ UNCHANGED <<line, log, moves, raced>>
    BY <1>4 DEF TransferRead
  <2> HIDE DEF q
  <2> QED
    BY <1>2, <2>1, <2>2, <2>3, <2>4
<1>5. ASSUME NEW d \in Lines, NEW row \in LineRow, row.quantity >= 0, tx[t].op = "transfer",
             tx' = [tx EXCEPT ![t].dest = d, ![t].destRead = row], UNCHANGED <<line, log, moves, raced>>
      PROVE  StockInv'
  <2> DEFINE q == [tx[t] EXCEPT !.dest = d, !.destRead = row]
  <2>1. tx[t] \in Read
    BY DEF StockTypeOK
  <2>2. /\ q \in Read /\ q.op = "transfer" /\ q.id = tx[t].id /\ q.read = tx[t].read
        /\ q.amount = tx[t].amount /\ q.to = tx[t].to /\ q.destRead = row
    BY <1>5, <2>1 DEF Read
  <2>3. tx' = [tx EXCEPT ![t] = q]
    BY <1>5 DEF StockTypeOK
  <2> HIDE DEF q
  <2> QED
    BY <1>2, <1>5, <2>2, <2>3 DEF ReadsCover
<1>6. CASE Begin(t)
  BY <1>3, <1>4, <1>6, StockAssumption DEF Begin
<1>7. CASE TransferFind(t)
  <2>1. tx[t].op = "transfer" /\ tx[t].to \in Places /\ UNCHANGED <<line, log, moves, raced>>
    BY <1>7 DEF TransferFind, ReadsCover
  <2>2. ASSUME NEW d \in AtPlace(tx[t].to), tx' = [tx EXCEPT ![t].dest = d, ![t].destRead = line[d]]
        PROVE  StockInv'
    <3>1. d \in Lines /\ line[d] \in LineRow /\ line[d].quantity >= 0
      BY <2>2 DEF AtPlace, StockTypeOK, NeverShort
    <3> QED
      BY <1>5, <2>1, <2>2, <3>1
  <2>3. ASSUME Unused # {},
               tx' = [tx EXCEPT ![t].dest = Min(Unused), ![t].destRead = [place |-> tx[t].to, quantity |-> 0]]
        PROVE  StockInv'
    <3>1. Unused \subseteq Lines
      BY DEF Unused
    <3>2. Unused \subseteq Nat
      BY <3>1, StockAssumption
    <3>3. Min(Unused) \in Lines
      BY <2>3, <3>1, <3>2, MinInNat
    <3>4. [place |-> tx[t].to, quantity |-> 0] \in LineRow /\ [place |-> tx[t].to, quantity |-> 0].quantity >= 0
      BY <2>1 DEF LineRow
    <3> QED
      BY <1>5, <2>1, <2>3, <3>3, <3>4
  <2> QED
    BY <1>7, <2>2, <2>3 DEF TransferFind
<1> QED
  BY <1>6, <1>7

(* An adjustment that is saved. *)
LEMMA AdjustStock ==
  ASSUME StockAssumption, StockInv, NEW t \in Txs, AdjustCommit(t)
  PROVE  StockInv'
<1> USE DEF StockInv
<1> DEFINE q == tx[t]
           id == q.id
           row == [q.read EXCEPT !.quantity = @ + q.amount]
           m == Movement(id, q.amount, 0)
<1>1. /\ id \in Lines /\ q.read \in LineRow /\ q.amount \in Int /\ q.read.quantity + q.amount >= 0
      /\ log \in Seq(Logs) /\ NoTx \in Read /\ NoTx.op = "none"
  BY DEF AdjustCommit, ReadsCover, StockTypeOK, Read, NoTx
<1>2. row \in LineRow /\ row.quantity = q.read.quantity + q.amount
  BY <1>1 DEF LineRow
<1>3. m \in Logs /\ m.line = id /\ m.delta = q.amount /\ m.transfer = 0
  BY <1>1 DEF Movement, Logs
<1>4. /\ line' = [line EXCEPT ![id] = row] /\ log' = Append(log, m) /\ moves' = moves
      /\ tx' = [tx EXCEPT ![t] = NoTx]
      /\ raced' = raced \cup Overtaken({id}, [l \in {id} |-> q.read])
  BY DEF AdjustCommit
<1>5. /\ raced \subseteq raced' /\ raced' \subseteq Lines
      /\ id \notin raced' => line[id] # None /\ line[id].quantity = q.read.quantity
  BY <1>1, <1>4 DEF Overtaken, StockTypeOK
<1> HIDE DEF row, m
<1>6. ASSUME NEW l \in Lines PROVE Logged(l)' = Logged(l) + (IF l = id THEN q.amount ELSE 0)
  BY <1>1, <1>3, <1>4, LoggedNext
<1>7. StockTypeOK'
  BY <1>1, <1>2, <1>3, <1>4, <1>5, LoggedNext DEF StockTypeOK
<1>8. ReadsCover'
  BY <1>1, <1>4 DEF ReadsCover, StockTypeOK
<1>9. Accounted'
  <2> SUFFICES ASSUME NEW l \in Lines, line'[l] # None, l \notin raced'
               PROVE  line'[l].quantity = Logged(l)'
    BY DEF Accounted
  <2>1. CASE l = id
    BY <1>1, <1>2, <1>4, <1>5, <1>6, <2>1 DEF Accounted, StockTypeOK
  <2>2. CASE l # id
    <3>1. Logged(l) \in Int
      BY <1>1, LoggedInt
    <3> QED
      BY <1>4, <1>5, <1>6, <2>2, <3>1 DEF Accounted, StockTypeOK
  <2> QED
    BY <2>1, <2>2
<1>10. NeverShort'
  BY <1>1, <1>2, <1>4 DEF NeverShort, StockTypeOK
<1>11. TransfersBalance'
  BY <1>1, <1>3, <1>4, BalanceNext
<1>12. TransfersMade'
  BY <1>1, <1>3, <1>4, LenProperties, AppendProperties DEF TransfersMade, StockTypeOK
<1> QED
  BY <1>7, <1>8, <1>9, <1>10, <1>11, <1>12

LEMMA RowAfter ==
  ASSUME NEW row \in LineRow, NEW k \in Int
  PROVE  /\ [row EXCEPT !.quantity = @ + k] \in LineRow
         /\ [row EXCEPT !.quantity = @ + k].quantity = row.quantity + k
         /\ [row EXCEPT !.quantity = @ - k] \in LineRow
         /\ [row EXCEPT !.quantity = @ - k].quantity = row.quantity - k
BY DEF LineRow

(* A transfer that is saved.  A destination it creates starts from nothing, which
   is also what is logged of it. *)
LEMMA TransferStock ==
  ASSUME StockAssumption, StockInv, NEW t \in Txs, TransferCommit(t)
  PROVE  StockInv'
<1> USE DEF StockInv
<1> DEFINE q == tx[t]
           id == q.id
           dest == q.dest
           n == q.amount
           from == [q.read EXCEPT !.quantity = @ - n]
           to == [q.destRead EXCEPT !.quantity = @ + n]
           k == moves + 1
           out == Movement(id, -n, k)
           in == Movement(dest, n, k)
           created == line[dest] = None /\ ~HasMoved(dest) /\ q.destRead.quantity = 0
           read == [l \in {id, dest} |-> IF l = dest THEN q.destRead ELSE q.read]
<1>1. /\ id \in Lines /\ dest \in Lines /\ q.read \in LineRow /\ q.destRead \in LineRow
      /\ n \in Int /\ n >= 0 /\ q.read.quantity >= n /\ q.destRead.quantity >= 0
      /\ log \in Seq(Logs) /\ NoTx \in Read /\ NoTx.op = "none" /\ k \in Nat /\ k # 0
  BY DEF TransferCommit, ReadsCover, StockTypeOK, Read, NoTx
<1>2. /\ from \in LineRow /\ from.quantity = q.read.quantity - n
      /\ to \in LineRow /\ to.quantity = q.destRead.quantity + n
  BY <1>1, RowAfter
<1>3. /\ out \in Logs /\ out.line = id /\ out.delta = -n /\ out.transfer = k
      /\ in \in Logs /\ in.line = dest /\ in.delta = n /\ in.transfer = k
  BY <1>1 DEF Movement, Logs
<1>4. /\ log' = log \o <<out, in>> /\ moves' = k /\ tx' = [tx EXCEPT ![t] = NoTx]
      /\ line' = [[line EXCEPT ![id] = from] EXCEPT ![dest] = to]
      /\ raced' = raced \cup Overtaken({id} \cup (IF created THEN {} ELSE {dest}), read)
                        \cup (IF id = dest THEN {id} ELSE {})
  BY DEF TransferCommit, TransferLog
<1>5. /\ raced \subseteq raced' /\ raced' \subseteq Lines
      /\ id = dest => id \in raced'
      /\ id # dest /\ id \notin raced' => line[id] # None /\ line[id].quantity = q.read.quantity
      /\ dest \notin raced' => created \/ (line[dest] # None /\ line[dest].quantity = q.destRead.quantity)
  <2> HIDE DEF created
  <2>1. read[dest] = q.destRead /\ (id # dest => read[id] = q.read)
    OBVIOUS
  <2>2. \A l \in {id} \cup (IF created THEN {} ELSE {dest}) :
          l \notin raced' => line[l] # None /\ line[l].quantity = read[l].quantity
    BY <1>4 DEF Overtaken
  <2>3. raced' \subseteq raced \cup {id, dest} /\ raced \subseteq raced' /\ (id = dest => id \in raced')
    BY <1>4 DEF Overtaken
  <2>4. raced \subseteq Lines
    BY DEF StockTypeOK
  <2>5. dest \notin raced' => created \/ (line[dest] # None /\ line[dest].quantity = q.destRead.quantity)
    BY <2>1, <2>2
  <2>6. id # dest /\ id \notin raced' => line[id] # None /\ line[id].quantity = q.read.quantity
    BY <2>1, <2>2
  <2> HIDE DEF read
  <2> QED
    BY <1>1, <2>3, <2>4, <2>5, <2>6
<1>6. created => line[dest] = None /\ Logged(dest) = 0 /\ q.destRead.quantity = 0
  BY <1>1, LoggedNone
<1> HIDE DEF from, to, in, out, created, read
<1>7. \A l \in Lines : line'[l] = IF l = dest THEN to ELSE IF l = id THEN from ELSE line[l]
  BY <1>1, <1>4 DEF StockTypeOK
<1>8. line' \in [Lines -> LineRow \cup {None}]
  BY <1>1, <1>2, <1>4 DEF StockTypeOK
<1> DEFINE half == Append(log, out)
<1>9. /\ half \in Seq(Logs) /\ log' = Append(half, in) /\ log' \in Seq(Logs)
      /\ \A l : LogSum(half, l) = LogSum(log, l) + (IF l = id THEN -n ELSE 0)
      /\ \A l : LogSum(log', l) = LogSum(half, l) + (IF l = dest THEN n ELSE 0)
  <2>1. half \in Seq(Logs) /\ \A l : LogSum(half, l) = LogSum(log, l) + (IF l = id THEN -n ELSE 0)
    BY <1>1, <1>3, LogSumNext
  <2>2. log' = Append(half, in)
    BY <1>1, <1>3, <1>4
  <2> HIDE DEF half
  <2>3. Append(half, in) \in Seq(Logs)
        /\ \A l : LogSum(Append(half, in), l) = LogSum(half, l) + (IF l = dest THEN n ELSE 0)
    BY <1>3, <2>1, LogSumNext
  <2> QED
    BY <2>1, <2>2, <2>3
<1> HIDE DEF half
<1>10. ASSUME NEW l
       PROVE  /\ Logged(l) \in Int
              /\ Logged(l)' = Logged(l) + (IF l = id THEN -n ELSE 0) + (IF l = dest THEN n ELSE 0)
  <2>1. Logged(l) = LogSum(log, l) /\ Logged(l)' = LogSum(log', l)
    BY DEF Logged, LogSum
  <2>2. Logged(l) \in Int
    BY <1>1, LoggedInt
  <2> QED
    BY <1>9, <2>1, <2>2
<1>11. StockTypeOK'
  BY <1>1, <1>4, <1>5, <1>8, <1>9 DEF StockTypeOK
<1>12. ReadsCover'
  BY <1>1, <1>4 DEF ReadsCover, StockTypeOK
<1>13. Accounted'
  <2> SUFFICES ASSUME NEW l \in Lines, line'[l] # None, l \notin raced'
               PROVE  line'[l].quantity = Logged(l)'
    BY DEF Accounted
  <2>0. Logged(l) \in Int /\ (line[l] # None => line[l].quantity = Logged(l))
    BY <1>5, <1>10 DEF Accounted
  <2>1. CASE l = dest
    <3>1. id # dest /\ Logged(l)' = Logged(l) + n
      BY <1>1, <1>5, <1>10, <2>0, <2>1
    <3>2. Logged(l) = q.destRead.quantity
      BY <1>5, <1>6, <2>0, <2>1
    <3> QED
      BY <1>1, <1>2, <1>7, <2>1, <3>1, <3>2
  <2>2. CASE l # dest /\ l = id
    <3>1. Logged(l)' = Logged(l) - n
      BY <1>1, <1>10, <2>0, <2>2
    <3>2. Logged(l) = q.read.quantity
      BY <1>5, <2>0, <2>2
    <3> QED
      BY <1>1, <1>2, <1>7, <2>2, <3>1, <3>2
  <2>3. CASE l # dest /\ l # id
    <3>1. Logged(l)' = Logged(l)
      BY <1>10, <2>0, <2>3
    <3> QED
      BY <1>7, <2>0, <2>3, <3>1
  <2> QED
    BY <2>1, <2>2, <2>3
<1>14. NeverShort'
  <2>1. from.quantity >= 0 /\ to.quantity >= 0
    BY <1>1, <1>2 DEF LineRow
  <2> QED
    BY <1>7, <2>1 DEF NeverShort
<1> DEFINE len == Len(log)
<1>15. /\ len \in Nat /\ DOMAIN log = 1..len /\ DOMAIN log' = 1..(len + 2)
       /\ \A i \in 1..len : log'[i] = log[i] /\ log[i] \in Logs /\ log[i].transfer <= moves
       /\ log'[len + 1] = out /\ log'[len + 2] = in
  <2>1. len \in Nat /\ DOMAIN log = 1..len /\ \A i \in 1..len : log[i] \in Logs
    BY <1>1, LenProperties, ElementOfSeq
  <2>2. /\ Len(half) = len + 1 /\ \A i \in 1..len : half[i] = log[i]
        /\ half[len + 1] = out
    BY <1>1, <1>3, <2>1, AppendProperties DEF half
  <2>3. /\ Len(log') = len + 2 /\ \A i \in 1..(len + 1) : log'[i] = half[i]
        /\ log'[len + 2] = in
    BY <1>3, <1>9, <2>1, <2>2, AppendProperties
  <2>4. DOMAIN log' = 1..(len + 2)
    BY <1>9, <2>3, LenProperties
  <2> QED
    BY <2>1, <2>2, <2>3, <2>4 DEF TransfersMade
<1> HIDE DEF len
<1>16. TransfersMade'
  <2> SUFFICES ASSUME NEW i \in 1..(len + 2) PROVE log'[i].transfer <= k
    BY <1>4, <1>15 DEF TransfersMade
  <2>1. i \in 1..len \/ i = len + 1 \/ i = len + 2
    BY <1>15
  <2>2. moves \in Nat /\ k = moves + 1
    BY DEF StockTypeOK
  <2>3. \A j \in 1..len : log[j].transfer \in Nat
    BY <1>15 DEF Logs
  <2> QED
    BY <1>3, <1>15, <2>1, <2>2, <2>3
<1>17. TransfersBalance'
  <2>0. /\ moves \in Nat /\ k = moves + 1
        /\ \A j \in 1..len : log[j].transfer \in Nat /\ log[j].transfer # k
    BY <1>15 DEF StockTypeOK, Logs
  <2>1. \A i \in 1..(len + 2) : i \in 1..len \/ i = len + 1 \/ i = len + 2
    BY <1>15
  <2> SUFFICES ASSUME NEW i \in 1..(len + 2), NEW j \in 1..(len + 2), i # j,
                      log'[i].transfer # 0, log'[i].transfer = log'[j].transfer
               PROVE  log'[i].delta + log'[j].delta = 0
    BY <1>15 DEF TransfersBalance
  <2>2. CASE i \in 1..len /\ j \in 1..len
    BY <1>15, <2>2 DEF TransfersBalance
  <2>3. CASE ~(i \in 1..len /\ j \in 1..len)
    <3>0. \A e \in 1..(len + 2) : log'[e].transfer = k <=> e \notin 1..len
      BY <1>3, <1>15, <2>0, <2>1
    <3>1. (i = len + 1 /\ j = len + 2) \/ (i = len + 2 /\ j = len + 1)
      BY <2>1, <2>3, <3>0
    <3> QED
      BY <1>1, <1>3, <1>15, <3>1
  <2> QED
    BY <2>2, <2>3
<1> QED
  BY <1>11, <1>12, <1>13, <1>14, <1>16, <1>17

(* What is rolled back leaves nothing. *)
LEMMA NextStock == StockAssumption /\ StockInv /\ StockStep => StockInv'
<1> SUFFICES ASSUME StockAssumption, StockInv, StockStep PROVE StockInv'
  OBVIOUS
<1>1. CASE Edit
  BY <1>1, EditStock
<1>2. ASSUME NEW t \in Txs, Begin(t) \/ TransferFind(t) PROVE StockInv'
  BY <1>2, BeginStock
<1>3. ASSUME NEW t \in Txs, Commit(t) PROVE StockInv'
  BY <1>3, AdjustStock, TransferStock DEF Commit
<1>4. ASSUME NEW s \in SUBSET Txs, tx' = [t \in Txs |-> IF t \in s THEN NoTx ELSE tx[t]],
             UNCHANGED <<line, log, moves, raced>>
      PROVE  StockInv'
  <2>1. NoTx \in Read /\ NoTx.op = "none"
    BY DEF NoTx, Read
  <2>2. tx' \in [Txs -> Read]
    BY <1>4, <2>1 DEF StockInv, StockTypeOK
  <2>3. ReadsCover'
    BY <1>4, <2>1 DEF StockInv, ReadsCover
  <2> QED
    BY <1>4, <2>2, <2>3, ReadsStock
<1> QED
  BY <1>1, <1>2, <1>3, <1>4 DEF StockStep

(* The stock is accounted for: whatever requests adjust, transfer, edit, remove and
   die at once, a line that no two transactions wrote over one another stands at the
   sum of its movements, none is sold short and the transfers cancel out
   (stock.service.ts adjust, transfer). *)
THEOREM StockIsAccounted == Spec => []StockAccounted
<1>1. OfficeInit => StockInv
  BY InitStock DEF OfficeInit
<1>2. StockInv /\ [OfficeNext]_officeVars => StockInv'
  BY NextStock, StockHalf, StockAssumption, OneTransactionEach DEF StockInv
<1>3. StockInv => StockAccounted
  BY DEF StockInv, StockAccounted
<1> QED
  BY <1>1, <1>2, <1>3, PTL DEF Spec
=============================================================================
