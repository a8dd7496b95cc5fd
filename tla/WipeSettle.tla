------------------------------ MODULE WipeSettle ------------------------------
(***************************************************************************)
(* devices/devices.service.ts, `ingest`: one machine, and the requests that*)
(* file captures and wipe records of it, on any API instance.  A request   *)
(* looks the asset up, updates it from what it read, saves the record, and *)
(* for a wipe settles the asset's wipe status from every record, under a   *)
(* lock on the asset's row.  People set the status from the web meanwhile. *)
(*                                                                         *)
(* A payload is                                                            *)
(*   outcome  "wiped", "failed", or "none" for a capture                   *)
(*   drive, profile, at   what the record says of the drive (WipeRollup)   *)
(*   call     the status an operator chose at the station, or "none"       *)
(***************************************************************************)
EXTENDS WipeRollup

CONSTANTS Requests,     \* the requests that may run at once
          Nobody,       \* the owner of a free row
          Payloads,     \* what stations send
          Calls,        \* the statuses a person chooses
          MaxRequests   \* bound on the requests made

ASSUME RequestsAssumption == Nobody \notin Requests /\ MaxRequests \in Nat /\ Payloads # {}

VARIABLES exists, status,   \* the asset's row
          filed,     \* its wipe records
          lock,      \* who holds the asset's row FOR UPDATE
          pc, payload, seen,      \* the requests, and what each has read
          made,      \* how many requests were made
          missed     \* a request died after it wrote, and no wipe was settled since

settleVars == <<exists, status, filed, lock, pc, payload, seen, made, missed>>

record == <<exists, status>>

-----------------------------------------------------------------------------
(* Statuses *)

WipeStatuses == {"data_wiped", "data_wipe_failed"}

Rank(s) == IF s = "power_on" THEN 1 ELSE 2

Derived == WipeStatuses \cup {"power_on"}

\* Mutant: a person's choice has no rank, so anything outranks it.
DerivedMayReplace_Calls(next, current) ==
  current # next /\ (current \in Derived => Rank(next) >= Rank(current))

\* Ranks decide between derived statuses; any other status is a person's call.
DerivedMayReplace(next, current) ==
  \/ current = "none"
  \/ /\ next # current
     /\ current \in Derived /\ next \in Derived
     /\ Rank(next) >= Rank(current)

IsWipe(p) == p.outcome # "none"

\* A wipe status a wipe record claims is one drive's claim: it goes to the roll-up.
ExplicitStatus(p) == IF IsWipe(p) /\ p.call \in WipeStatuses THEN "none" ELSE p.call

\* What the update writes, if anything: the call, else at most the floor a profile
\* proves.
StatusPatch(p, current) ==
  CASE ExplicitStatus(p) # "none" -> ExplicitStatus(p)
    [] ExplicitStatus(p) = "none" /\ p.profile # {} /\ DerivedMayReplace("power_on", current)
         -> "power_on"
    [] OTHER -> "none"

Settles(records) ==
  IF RollupWipe(records).verdict = "wiped" THEN "data_wiped" ELSE "data_wipe_failed"

(* A person's call is none of the derived statuses, nor the absence of one. *)
ASSUME CallsAreCalls == Calls \cap (Derived \cup {"none"}) = {}

(* A station sends a call, a wipe status or neither; and a capture makes a call,
   or has no profile to prove anything by.  The plain capture, which does take
   back an erasure, is the subject of CaptureKeepsErasure. *)
NoPlainCapture ==
  \A p \in Payloads :
    /\ p.call \in Calls \cup WipeStatuses \cup {"none"}
    /\ ~IsWipe(p) => p.call \in Calls \/ (p.call = "none" /\ p.profile = {})

-----------------------------------------------------------------------------
(* A request *)

Goes(q, state) == pc' = [pc EXCEPT ![q] = state]

Arrive(q, p) ==
  /\ pc[q] = "idle" /\ made < MaxRequests
  /\ made' = made + 1
  /\ payload' = [payload EXCEPT ![q] = p]
  /\ Goes(q, "arrived")
  /\ UNCHANGED <<record, filed, lock, seen, missed>>

\* The asset is looked up by its tag.
Find(q) ==
  /\ pc[q] = "arrived"
  /\ seen' = [seen EXCEPT ![q] = [found |-> exists, status |-> status, rows |-> {}]]
  /\ Goes(q, "found")
  /\ UNCHANGED <<record, filed, lock, payload, made, missed>>

\* The update is worked out from what was read, and waits for the row's lock only
\* while a settle holds it.
Update(q) ==
  LET p == payload[q]
  IN  /\ pc[q] = "found" /\ seen[q].found
      /\ lock = Nobody
      /\ LET patch == StatusPatch(p, seen[q].status)
         IN  status' = IF patch = "none" THEN status ELSE patch
      /\ Goes(q, "updated")
      /\ UNCHANGED <<exists, filed, lock, payload, seen, made, missed>>

\* No asset was found: it is created, unless another request has; the unique tag
\* then makes this one an error.
Create(q) ==
  LET p == payload[q]
  IN  /\ pc[q] = "found" /\ ~seen[q].found
      /\ IF exists
           THEN Goes(q, "idle") /\ UNCHANGED record
           ELSE /\ Goes(q, "updated")
                /\ exists' = TRUE
                /\ status' = StatusPatch(p, "none")
      /\ UNCHANGED <<filed, lock, payload, seen, made, missed>>

\* The record is saved: its foreign key waits for a lock on the asset.
Save(q) ==
  LET p == payload[q]
      n == Cardinality(filed) + 1
      row == [id |-> n, created |-> n, status |-> p.outcome, method |-> 1, manual |-> FALSE,
              at |-> p.at, drive |-> p.drive, profile |-> p.profile]
  IN  /\ pc[q] = "updated"
      /\ lock = Nobody
      /\ filed' = IF IsWipe(p) THEN filed \cup {row} ELSE filed
      /\ Goes(q, IF IsWipe(p) THEN "saved" ELSE "idle")
      /\ UNCHANGED <<record, lock, payload, seen, made, missed>>

\* Mutant: the asset is read without FOR UPDATE.
SettleLock_NoLock(q) ==
  /\ pc[q] = "saved"
  /\ seen' = [seen EXCEPT ![q].status = status]
  /\ Goes(q, "locked")
  /\ UNCHANGED <<record, filed, lock, payload, made, missed>>

SettleLock(q) ==
  /\ pc[q] = "saved"
  /\ lock = Nobody
  /\ lock' = q
  /\ seen' = [seen EXCEPT ![q].status = status]
  /\ Goes(q, "locked")
  /\ UNCHANGED <<record, filed, payload, made, missed>>

SettleRead(q) ==
  /\ pc[q] = "locked"
  /\ seen' = [seen EXCEPT ![q].rows = filed]
  /\ Goes(q, "read")
  /\ UNCHANGED <<record, filed, lock, payload, made, missed>>

SettleWrite(q) ==
  LET next == Settles(seen[q].rows)
  IN  /\ pc[q] = "read"
      /\ status' = IF DerivedMayReplace(next, seen[q].status) THEN next ELSE status
      /\ lock' = Nobody
      /\ missed' = FALSE
      /\ Goes(q, "idle")
      /\ UNCHANGED <<exists, filed, payload, seen, made>>

\* The instance dies or the database fails: what was written stays, the transaction
\* that settles is rolled back.
Crash(q) ==
  /\ pc[q] # "idle"
  /\ Goes(q, "idle")
  /\ lock' = IF lock = q THEN Nobody ELSE lock
  /\ missed' = (missed \/ pc[q] \notin {"arrived", "found"})
  /\ UNCHANGED <<record, filed, payload, seen, made>>

\* A person sets the status on the asset's page.
Call(s) ==
  /\ exists /\ lock = Nobody
  /\ status' = s
  /\ UNCHANGED <<exists, filed, lock, pc, payload, seen, made, missed>>

-----------------------------------------------------------------------------
\* The machine is new, or was added by hand: with no status.
SettleInit ==
  /\ exists \in BOOLEAN /\ status = "none"
  /\ filed = {}
  /\ lock = Nobody
  /\ pc = [q \in Requests |-> "idle"]
  /\ payload = [q \in Requests |-> CHOOSE p \in Payloads : TRUE]
  /\ seen = [q \in Requests |-> [found |-> FALSE, status |-> "none", rows |-> {}]]
  /\ made = 0
  /\ missed = FALSE

Handle(q) ==
  \/ Find(q) \/ Update(q) \/ Create(q) \/ Save(q)
  \/ SettleLock(q) \/ SettleRead(q) \/ SettleWrite(q)

SettleNext ==
  \/ \E q \in Requests, p \in Payloads : Arrive(q, p)
  \/ \E q \in Requests : Handle(q) \/ Crash(q)
  \/ \E s \in Calls : Call(s)

SettleSpec == SettleInit /\ [][SettleNext]_settleVars

-----------------------------------------------------------------------------
(* Properties *)

\* Whichever request settles last sees every record, and its answer stays: with no
\* request under way, a wipe status is the one the records roll up to, unless a
\* request died half way and no wipe was settled since.
Settled ==
  /\ filed # {} /\ ~missed /\ status \notin Calls
  /\ \A q \in Requests : pc[q] = "idle"
  => status = Settles(filed)

\* A wipe that settles never overwrites a person's call, made however late.
SettleKeepsCall ==
  [][\A q \in Requests : SettleWrite(q) /\ status \in Calls => status' = status]_settleVars

\* A plain re-capture can never erase a wipe result.
CaptureKeepsErasure ==
  [][\A q \in Requests : ~IsWipe(payload[q]) /\ payload[q].call = "none" /\ Update(q)
        /\ status \in WipeStatuses => status' = status]_settleVars

=============================================================================
