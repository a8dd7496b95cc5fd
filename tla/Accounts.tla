------------------------------ MODULE Accounts ------------------------------
(***************************************************************************)
(* users.service.ts and the guard in front of every endpoint: an account's *)
(* row is in the database, each API process keeps a copy of it for a while,*)
(* and an edit throws away the copy of the process that made it.           *)
(*                                                                         *)
(* Names, addresses, passwords and sessions are left out: a request is     *)
(* signed in, and needs one right.                                         *)
(***************************************************************************)
EXTENDS Integers, FiniteSets

CONSTANTS Users,        \* the accounts
          StartRole,    \* their roles at first, "none" for one not made yet
          Rights,       \* the permissions that matter here
          ManagerHas,   \* those of a manager's baseline
          Procs,        \* the API's processes
          Requests,     \* the requests that may run at once
          Nobody,       \* no account
          TTL,          \* how long a copy is served
          LookupTime,   \* bound on the time one look-up takes
          Worlds        \* who asks for what, and bounds on the requests, the clock
                        \* and the restarts

Roles == {"admin", "manager", "technician"}

\* What a request may ask for: a list, something of the stock, or an edit of an account.
Asks ==
  [kind : {"read", "stock"}, target : {Nobody}, role : Roles, grants : SUBSET Rights]
    \cup [kind : {"create", "role", "grants", "disable", "enable", "remove"}, target : Users,
          role : Roles, grants : SUBSET Rights]

\* An installation starts with an administrator.
ASSUME AccountsAssumption ==
  /\ StartRole \in [Users -> Roles \cup {"none"}] /\ Nobody \notin Users
  /\ \E u \in Users : StartRole[u] = "admin"
  /\ {"users", "stock"} \subseteq Rights /\ ManagerHas \subseteq Rights
  /\ TTL \in Nat \ {0} /\ LookupTime \in Nat
  /\ \A w \in Worlds : w.users \subseteq Users /\ w.asks \subseteq Asks
                        /\ {w.requests, w.time, w.restarts} \subseteq Nat

VARIABLES account,   \* the users table
          cache,     \* each process's copies of the rows
          req,       \* the requests under way
          now, world, arrived, restarts,
          lost,      \* when an account last lost each right; -1 if it never did
          landed,    \* the last edit of an account each process made
          demoted    \* was an administrator demoted, removed, or disabled on an old count

vars == <<account, cache, req, now, world, arrived, restarts, lost, landed, demoted>>
env == <<now, world, arrived, restarts>>
ghosts == <<lost, landed, demoted>>

DefaultPermissions(role) ==
  CASE role = "admin" -> Rights [] role = "manager" -> ManagerHas [] role = "technician" -> {}

\* A row of the users table; version counts its edits, and is 0 before it is made.
Account(role) == [there |-> TRUE, role |-> role, grants |-> DefaultPermissions(role),
                  enabled |-> TRUE, version |-> 1]

NoAccount == [there |-> FALSE, role |-> "technician", grants |-> {}, enabled |-> TRUE, version |-> 0]

NoCopy == [row |-> Nobody, expires |-> 0]

\* What an edit asks for: its kind, the account it edits, the role or the grants.
Ask(kind, target, role, grants) == [kind |-> kind, target |-> target, role |-> role, grants |-> grants]

\* A list that is read; a request about the stock.
Look == Ask("read", Nobody, "admin", {})

Idle == [step |-> "idle", user |-> Nobody, proc |-> Nobody, ask |-> Look,
         row |-> Nobody, at |-> 0, crossed |-> FALSE]

Need(ask) == IF ask.kind \in {"read", "stock"} THEN "stock" ELSE "users"

\* The guard's decision on a row: enabled, and an administrator or granted.
Allows(row, right) == row.there /\ row.enabled /\ (row.role = "admin" \/ right \in row.grants)

EnabledAdmin(row) == row.there /\ row.enabled /\ row.role = "admin"

At(r, step) == req' = [req EXCEPT ![r].step = step]

-----------------------------------------------------------------------------
(* The guard *)

\* A request comes to one of the processes, from someone who once signed in.
Arrive(r, u, p, ask) ==
  /\ req[r] = Idle /\ arrived < world.requests /\ account[u].version > 0
  /\ arrived' = arrived + 1
  /\ req' = [req EXCEPT ![r] = [Idle EXCEPT !.step = "guard", !.user = u, !.proc = p, !.ask = ask]]
  /\ UNCHANGED <<account, cache, now, world, restarts, ghosts>>

\* Mutant: a copy is served whatever its age.
Fresh_Always(copy) == copy # NoCopy

Fresh(copy) == copy # NoCopy /\ copy.expires > now

\* What becomes of r when the guard judges it by row.
Judged(r, row) ==
  [req EXCEPT ![r] = IF Allows(row, Need(@.ask)) THEN [@ EXCEPT !.step = "in", !.row = Nobody, !.at = 0] ELSE Idle]

GuardHit(r) ==
  LET copy == cache[req[r].proc][req[r].user]
  IN  /\ req[r].step = "guard" /\ Fresh(copy)
      /\ req' = Judged(r, copy.row)
      /\ UNCHANGED <<account, cache, env, ghosts>>

GuardRead(r) ==
  /\ req[r].step = "guard" /\ ~Fresh(cache[req[r].proc][req[r].user])
  /\ req' = [req EXCEPT ![r].step = "look", ![r].row = account[req[r].user], ![r].at = now]
  /\ UNCHANGED <<account, cache, env, ghosts>>

\* The row is kept for TTL from now, not from when it was read; an edit made here
\* may have thrown the copy away in between.
GuardFill(r) ==
  LET q == req[r]
      copy == IF q.row.there
              THEN [row |-> q.row, expires |-> now + TTL] ELSE NoCopy
  IN  /\ q.step = "look"
      /\ cache' = [cache EXCEPT ![q.proc][q.user] = copy]
      /\ req' = Judged(r, q.row)
      /\ UNCHANGED <<account, env, ghosts>>

-----------------------------------------------------------------------------
(* The edits of an account *)

\* A new account, unless the address is taken: a row that was removed does not
\* come back, its account has another id.
Create(r) ==
  LET q == req[r]
      new == account[q.ask.target].version = 0
  IN  /\ q.step = "in" /\ q.ask.kind = "create"
      /\ account' = IF new THEN [account EXCEPT ![q.ask.target] = Account(q.ask.role)] ELSE account
      /\ req' = [req EXCEPT ![r] = Idle]
      /\ UNCHANGED <<cache, env, ghosts>>

\* findEntity, and the refusal to disable or delete oneself.
See(r) ==
  LET q == req[r]
  IN  /\ q.step = "in" /\ q.ask.kind \notin {"read", "stock", "create"}
      /\ IF ~account[q.ask.target].there \/ (q.ask.kind \in {"disable", "remove"} /\ q.ask.target = q.user)
           THEN req' = [req EXCEPT ![r] = Idle]
           ELSE At(r, IF q.ask.kind = "disable" /\ account[q.ask.target].role = "admin"
                        THEN "count" ELSE "write")
      /\ UNCHANGED <<account, cache, env, ghosts>>

OtherEnabledAdmins(u) == {v \in Users \ {u} : EnabledAdmin(account[v])}

\* Mutant: the account itself is counted.
Count_Self(r) ==
  /\ req[r].step = "count"
  /\ IF \A v \in Users : ~EnabledAdmin(account[v]) THEN req' = [req EXCEPT ![r] = Idle] ELSE At(r, "write")
  /\ UNCHANGED <<account, cache, env, ghosts>>

\* The last enabled administrator is not disabled.
Count(r) ==
  /\ req[r].step = "count"
  /\ IF OtherEnabledAdmins(req[r].ask.target) = {}
       THEN req' = [req EXCEPT ![r] = Idle] ELSE At(r, "write")
  /\ UNCHANGED <<account, cache, env, ghosts>>

\* The row an edit leaves; a role without grants brings the role's own.
Edited(row, ask) ==
  IF ~row.there THEN row
  ELSE [there   |-> ask.kind # "remove",
        role    |-> IF ask.kind = "role" THEN ask.role ELSE row.role,
        grants  |-> IF ask.kind = "role" THEN DefaultPermissions(ask.role)
                    ELSE IF ask.kind = "grants" THEN ask.grants ELSE row.grants,
        enabled |-> ask.kind = "enable" \/ (row.enabled /\ ask.kind # "disable"),
        version |-> row.version + 1]

\* The edit reaches the database; other requests may have edited since it looked.
Write(r) ==
  LET q == req[r]
      t == q.ask.target
      old == account[t]
      new == Edited(old, q.ask)
  IN  /\ q.step = "write"
      /\ account' = [account EXCEPT ![t] = new]
      /\ lost' = [lost EXCEPT ![t] = [p \in Rights |-> IF Allows(old, p) /\ ~Allows(new, p) THEN now ELSE @[p]]]
      /\ demoted' = (demoted \/ (EnabledAdmin(old) /\ ~EnabledAdmin(new) /\ (q.ask.kind # "disable" \/ q.crossed)))
      /\ req' = [s \in Requests |->
                   IF s = r THEN [q EXCEPT !.step = "wrote"]
                   ELSE [req[s] EXCEPT !.crossed = @ \/ (req[s].step = "write" /\ req[s].ask.kind = "disable"
                                                         /\ EnabledAdmin(old) # EnabledAdmin(new))]]
      /\ UNCHANGED <<cache, env, landed>>

\* Noted of an edit of account u made at process p, as it tells p's copies: the
\* account's version, when, and whether a look-up of it was under way there.
Landed(p, u) ==
  [version |-> account[u].version, at |-> now,
   crossed |-> \E s \in Requests : req[s].step = "look" /\ req[s].proc = p /\ req[s].user = u]

\* Mutant: the copy of whoever made the edit goes.
Invalidate_Own(r) ==
  LET q == req[r]
  IN  /\ q.step = "wrote"
      /\ cache' = [cache EXCEPT ![q.proc][q.user] = NoCopy]
      /\ landed' = [landed EXCEPT ![q.proc][q.ask.target] = Landed(q.proc, q.ask.target)]
      /\ req' = [req EXCEPT ![r] = Idle]
      /\ UNCHANGED <<account, env, lost, demoted>>

\* The edited account's copy goes, in the process that made the edit.
Invalidate(r) ==
  LET q == req[r]
  IN  /\ q.step = "wrote"
      /\ cache' = [cache EXCEPT ![q.proc][q.ask.target] = NoCopy]
      /\ landed' = [landed EXCEPT ![q.proc][q.ask.target] = Landed(q.proc, q.ask.target)]
      /\ req' = [req EXCEPT ![r] = Idle]
      /\ UNCHANGED <<account, env, lost, demoted>>

-----------------------------------------------------------------------------
(* The world *)

\* A process restarts with no copies; its requests are gone.
Restart(p) ==
  /\ restarts < world.restarts
  /\ restarts' = restarts + 1
  /\ cache' = [cache EXCEPT ![p] = [u \in Users |-> NoCopy]]
  /\ req' = [r \in Requests |-> IF req[r].proc = p THEN Idle ELSE req[r]]
  /\ UNCHANGED <<account, now, world, arrived, ghosts>>

\* Time goes by, and no look-up takes longer than LookupTime.
Tick ==
  /\ now < world.time
  /\ \A r \in Requests : req[r].step = "look" => now < req[r].at + LookupTime
  /\ now' = now + 1
  /\ UNCHANGED <<account, cache, req, world, arrived, restarts, ghosts>>

Init ==
  /\ account = [u \in Users |-> IF StartRole[u] = "none" THEN NoAccount ELSE Account(StartRole[u])]
  /\ cache = [p \in Procs |-> [u \in Users |-> NoCopy]]
  /\ req = [r \in Requests |-> Idle]
  /\ now = 0 /\ world \in Worlds /\ arrived = 0 /\ restarts = 0
  /\ lost = [u \in Users |-> [p \in Rights |-> -1]]
  /\ landed = [p \in Procs |-> [u \in Users |-> [version |-> 0, at |-> 0, crossed |-> FALSE]]]
  /\ demoted = FALSE

\* A request about the stock is answered.
Done(r) ==
  /\ req[r].step = "in" /\ req[r].ask.kind \in {"read", "stock"}
  /\ req' = [req EXCEPT ![r] = Idle]
  /\ UNCHANGED <<account, cache, env, ghosts>>

Guard(r) == GuardHit(r) \/ GuardRead(r) \/ GuardFill(r)

EditStep(r) == Create(r) \/ See(r) \/ Count(r) \/ Write(r) \/ Invalidate(r)

User(r) == Guard(r) \/ EditStep(r) \/ \E u \in world.users, p \in Procs, ask \in world.asks : Arrive(r, u, p, ask)
=============================================================================
