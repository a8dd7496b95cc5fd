---------------------------- MODULE OfflineUpload ----------------------------
(***************************************************************************)
(* powersync/powersync.service.ts and lib/powersync/connector.ts: a phone  *)
(* scans and audits devices with no signal; every statement it runs on its *)
(* own database is a write in its upload queue, sent one at a time and     *)
(* retried until the server answers 200.  A request whose connection breaks*)
(* may still be running when the same write is sent again.                 *)
(*                                                                         *)
(* Only the phone's own forms write here, so no write carries a column the *)
(* server would drop, except the tag of a device that is there already.    *)
(* Names, grades and times are left out: an audit's status is its number.  *)
(***************************************************************************)
EXTENDS Integers, FiniteSets, Sequences

CONSTANTS Devices,      \* the devices
          Stocked,      \* those in stock, each in FirstLot, when the phone goes offline
          Lots, FirstLot,
          NoLot,        \* no lot
          Unknown,      \* the lot of a device the phone, or the server, has not got
          Requests,     \* the uploads that may run at once
          Nobody,       \* no upload
          Worlds,       \* who is signed in and what else goes on: sets of Flags
          MaxWrites,    \* bound on the phone's writes
          MaxTroubles,  \* bound on broken connections and server restarts
          MaxOthers     \* bound on what other people do

Flags == {"manager", "lots", "devices", "rivals", "grants"}

ASSUME UploadAssumption ==
  /\ Stocked \subseteq Devices /\ FirstLot \in Lots
  /\ NoLot \notin Lots /\ Unknown \notin Lots /\ NoLot # Unknown /\ Nobody \notin Requests
  /\ Worlds \subseteq SUBSET Flags
  /\ {MaxWrites, MaxTroubles, MaxOthers} \subseteq Nat

VARIABLES writes,    \* every write the phone ever queued, in order
          next,      \* the first of them the phone has not completed
          seen,      \* the phone's copy: where each device is, and its status
          listed,    \* the lots the phone can scan into
          waits,     \* the upload whose answer the phone waits for
          req,       \* the uploads the server is working on
          owner,     \* whose each lot is: "ours" or pooled, "theirs", "gone"
          device,    \* the server's devices
          rows,      \* the writes whose history or audit row is there
          events,    \* how many AUDITED events each audit has
          rivals,    \* devices whose tag is on another device's record
          grants,    \* what the account may do
          deleted,   \* devices someone deleted
          refused,   \* writes skipped for want of a grant
          crossed,   \* whether an upload went on after its connection broke
          world, troubles, others

phone == <<writes, next, seen, listed, waits>>
stock == <<device, rows, events, refused>>
outside == <<owner, rivals, grants, deleted, others>>
vars == <<phone, req, stock, outside, crossed, world, troubles>>

Ids == 1..MaxWrites

Ops == {"create", "move", "grade", "scan", "audit"}

OnDevice == {"create", "move", "grade"}     \* writes to assets; the others to their own table

Absent == [lot |-> Unknown, status |-> 0]

Idle == [write |-> 0, step |-> "idle", lot |-> NoLot, trimmed |-> FALSE]

There(d) == device[d].lot # Unknown

Entry(r) == writes[req[r].write]

Manager == "manager" \in world

-----------------------------------------------------------------------------
(* The phone *)

Put(op, d, l, claim) == [op |-> op, device |-> d, lot |-> l, of |-> 0, claim |-> claim]

Queue(ws) ==
  /\ Len(writes) + Len(ws) <= MaxWrites
  /\ writes' = writes \o ws
  /\ UNCHANGED <<next, listed, waits, req, stock, outside, crossed, world, troubles>>

\* A tag the phone does not know, scanned into a lot, is a new device.
ReceiveNew(d, l) ==
  /\ seen[d] = Absent /\ d \notin Stocked /\ \A i \in DOMAIN writes : writes[i].device # d
  /\ l \in listed
  /\ seen' = [seen EXCEPT ![d].lot = l]
  /\ Queue(<<Put("create", d, l, FALSE), Put("scan", d, NoLot, FALSE)>>)

\* A known device: an event, and its lot if one is selected that it is not in.
ScanKnown(d, l) ==
  /\ seen[d] # Absent
  /\ \/ l = NoLot /\ UNCHANGED seen /\ Queue(<<Put("scan", d, NoLot, FALSE)>>)
     \/ /\ l \in listed \ {seen[d].lot}
        /\ seen' = [seen EXCEPT ![d].lot = l]
        /\ Queue(<<Put("scan", d, NoLot, FALSE), Put("move", d, l, FALSE)>>)

\* The audit, then its outcome on the phone's own copy of the device.
RecordAudit(d, claim) ==
  LET n == Len(writes) + 1 IN
  /\ seen[d] # Absent
  /\ seen' = [seen EXCEPT ![d].status = n]
  /\ Queue(<<Put("audit", d, NoLot, claim),
             [Put("grade", d, NoLot, claim) EXCEPT !.of = n]>>)

Waiting == next <= Len(writes)

UploadData(r) ==
  /\ Waiting /\ waits = Nobody /\ req[r] = Idle
  /\ waits' = r
  /\ req' = [req EXCEPT ![r] = [Idle EXCEPT !.write = next, !.step = "check"]]
  /\ UNCHANGED <<writes, next, seen, listed, stock, outside, crossed, world, troubles>>

\* Mutant: any answer completes the write.
Completes_Always(r) == waits = r

Completes(r) == waits = r /\ req[r].step = "ok"

Answer(r) ==
  /\ req[r].step \in {"ok", "failed"}
  /\ next' = IF Completes(r) THEN next + 1 ELSE next
  /\ waits' = IF waits = r THEN Nobody ELSE waits
  /\ req' = [req EXCEPT ![r] = Idle]
  /\ UNCHANGED <<writes, seen, listed, stock, outside, crossed, world, troubles>>

\* With nothing waiting the phone takes the server's state; see sync-rules.yaml.
SyncDown ==
  LET mine == {l \in Lots : owner[l] # "gone" /\ (Manager => owner[l] = "ours")} IN
  /\ ~Waiting /\ waits = Nobody
  /\ seen' = [d \in Devices |-> IF device[d].lot \in mine THEN device[d] ELSE Absent]
  /\ listed' = mine
  /\ UNCHANGED <<writes, next, waits, req, stock, outside, crossed, world, troubles>>

-----------------------------------------------------------------------------
(* applyBatch on one write *)

Owns(l) == l \in Lots /\ owner[l] = "ours"

\* assertManagerMayWrite: a manager's write to what is not theirs throws.
Forbidden(e) ==
  /\ Manager
  /\ \/ There(e.device) /\ ~Owns(device[e.device].lot)
     \/ e.op \in {"create", "move"} /\ ~Owns(e.lot)
     \/ e.op = "grade" /\ ~There(e.device)

Ungranted(e) ==
  \/ e.op = "audit" /\ "audit" \notin grants
  \/ e.op = "grade" /\ e.claim /\ "wipe" \notin grants

\* screen(): a row that is there is not written again.
Skipped(i) == writes[i].op \notin OnDevice /\ i \in rows

\* The tag of a device that exists, and a wipe claimed without the grant, are taken out.
Trims(e) ==
  \/ e.op = "create" /\ There(e.device)
  \/ e.op = "audit" /\ e.claim /\ "wipe" \notin grants

Goto(r, step) == req' = [req EXCEPT ![r].step = step]

Check(r) ==
  LET i == req[r].write  e == Entry(r) IN
  /\ req[r].step = "check"
  /\ \/ Forbidden(e) /\ Goto(r, "failed") /\ UNCHANGED refused
     \/ ~Forbidden(e) /\ Skipped(i) /\ Goto(r, "ok") /\ UNCHANGED refused
     \/ /\ ~Forbidden(e) /\ ~Skipped(i) /\ Ungranted(e)
        /\ Goto(r, "ok") /\ refused' = refused \cup {i}
     \/ /\ ~Forbidden(e) /\ ~Skipped(i) /\ ~Ungranted(e)
        /\ req' = [req EXCEPT ![r].trimmed = Trims(e),
                              ![r].lot = e.lot,
                              ![r].step = IF e.op \in OnDevice THEN "sanitise" ELSE "write"]
        /\ UNCHANGED refused
  /\ UNCHANGED <<phone, device, rows, events, outside, crossed, world, troubles>>

\* Mutant: a lot that is gone is kept.
Kept_Always(l) == TRUE

Kept(l) == l \in Lots => owner[l] # "gone"

SanitizeAssetFks(r) ==
  /\ req[r].step = "sanitise"
  /\ req' = [req EXCEPT ![r].step = "write",
                        ![r].lot = IF Kept(@) THEN @ ELSE NoLot]
  /\ UNCHANGED <<phone, stock, outside, crossed, world, troubles>>

\* The foreign key of a device's lot.
LotStands(l) == l \in Lots => owner[l] # "gone"

\* The upsert of a device.  Where it exists screen() has dropped its tag, and an INSERT
\* without one fails NOT NULL before ON CONFLICT is looked at.
WriteDevice(r) ==
  LET e == Entry(r)
      fits == ~req[r].trimmed /\ LotStands(req[r].lot) /\ (There(e.device) \/ e.device \notin rivals) IN
  /\ req[r].step = "write" /\ e.op = "create"
  /\ Goto(r, IF fits THEN "ok" ELSE "failed")
  /\ device' = IF fits THEN [device EXCEPT ![e.device].lot = req[r].lot] ELSE device
  /\ UNCHANGED <<phone, rows, events, refused, outside, crossed, world, troubles>>

\* Mutant: toEntityData leaves batch_id as it is, and it is lost.
Moved_Lost(d, l) == device

Moved(d, l) == [device EXCEPT ![d].lot = l]

\* An update of no row is no error.
PatchDevice(r) ==
  LET e == Entry(r)
      fits == There(e.device) /\ LotStands(req[r].lot) IN
  /\ req[r].step = "write" /\ e.op \in {"move", "grade"}
  /\ Goto(r, IF There(e.device) /\ ~fits THEN "failed" ELSE "ok")
  /\ device' = IF ~fits THEN device
               ELSE IF e.op = "move" THEN Moved(e.device, req[r].lot)
               ELSE [device EXCEPT ![e.device].status = e.of]
  /\ UNCHANGED <<phone, rows, events, refused, outside, crossed, world, troubles>>

\* An event's row refers to its device, which must be there.
WriteEvent(r) ==
  LET i == req[r].write  e == Entry(r) IN
  /\ req[r].step = "write" /\ e.op = "scan"
  /\ Goto(r, IF There(e.device) THEN "ok" ELSE "failed")
  /\ rows' = IF There(e.device) THEN rows \cup {i} ELSE rows
  /\ UNCHANGED <<phone, device, events, refused, outside, crossed, world, troubles>>

\* Mutant: the insert's side effects do not wait for it to take.
Inserts_Unchecked(i) == TRUE

\* ON CONFLICT DO NOTHING ... RETURNING id
Inserts(i) == i \notin rows

\* The audit, the device's status and the AUDITED event, in one transaction.
WriteAudit(r) ==
  LET i == req[r].write  e == Entry(r)
      takes == There(e.device) /\ Inserts(i) IN
  /\ req[r].step = "write" /\ e.op = "audit"
  /\ Goto(r, IF takes \/ i \in rows THEN "ok" ELSE "failed")
  /\ rows' = IF takes THEN rows \cup {i} ELSE rows
  /\ events' = IF takes THEN [events EXCEPT ![i] = @ + 1] ELSE events
  /\ device' = IF takes /\ ~req[r].trimmed
               THEN [device EXCEPT ![e.device].status = i] ELSE device
  /\ UNCHANGED <<phone, refused, outside, crossed, world, troubles>>

-----------------------------------------------------------------------------
(* The network, the server and other people *)

Trouble == troubles < MaxTroubles /\ troubles' = troubles + 1

\* The phone gives the upload up; the server may not notice.
BreakConnection ==
  /\ Trouble /\ waits # Nobody
  /\ waits' = Nobody
  /\ crossed' = (crossed \/ req[waits].step \notin {"ok", "failed"})
  /\ UNCHANGED <<writes, next, seen, listed, req, stock, outside, world>>

RestartServer ==
  /\ Trouble
  /\ req' = [r \in Requests |-> Idle] /\ waits' = Nobody
  /\ UNCHANGED <<writes, next, seen, listed, stock, outside, crossed, world>>

Someone(flag) ==
  /\ flag \in world /\ others < MaxOthers
  /\ others' = others + 1
  /\ UNCHANGED <<phone, req, refused, crossed, world, troubles>>

\* A device goes with its rows.
Cascade(ds) ==
  LET lost == {i \in rows : writes[i].device \in ds} IN
  /\ device' = [d \in Devices |-> IF d \in ds THEN Absent ELSE device[d]]
  /\ rows' = rows \ lost
  /\ events' = [i \in Ids |-> IF i \in lost THEN 0 ELSE events[i]]
  /\ deleted' = deleted \cup ds

DeleteDevice(d) ==
  /\ Someone("devices") /\ There(d) /\ Cascade({d})
  /\ UNCHANGED <<owner, rivals, grants>>

\* A lot goes with its devices.
DeleteLot(l) ==
  /\ Someone("lots") /\ owner[l] # "gone"
  /\ owner' = [owner EXCEPT ![l] = "gone"]
  /\ Cascade({d \in Devices : device[d].lot = l})
  /\ UNCHANGED <<rivals, grants>>

ReassignLot(l) ==
  /\ Someone("lots") /\ owner[l] # "gone"
  /\ owner' = [owner EXCEPT ![l] = IF @ = "ours" THEN "theirs" ELSE "ours"]
  /\ UNCHANGED <<device, rows, events, deleted, rivals, grants>>

\* Another route files a device under the tag, or removes it.
Refile(d) ==
  /\ Someone("rivals") /\ d \notin Stocked /\ ~There(d)
  /\ rivals' = IF d \in rivals THEN rivals \ {d} ELSE rivals \cup {d}
  /\ UNCHANGED <<device, rows, events, deleted, owner, grants>>

Regrant(g) ==
  /\ Someone("grants")
  /\ grants' = IF g \in grants THEN grants \ {g} ELSE grants \cup {g}
  /\ UNCHANGED <<device, rows, events, deleted, owner, rivals>>

-----------------------------------------------------------------------------

Init ==
  /\ writes = <<>> /\ next = 1 /\ waits = Nobody
  /\ req = [r \in Requests |-> Idle]
  /\ owner = [l \in Lots |-> "ours"] /\ listed = Lots
  /\ device = [d \in Devices |-> IF d \in Stocked THEN [Absent EXCEPT !.lot = FirstLot] ELSE Absent]
  /\ seen = device
  /\ rows = {} /\ events = [i \in Ids |-> 0]
  /\ rivals = {} /\ grants = {"audit", "wipe"}
  /\ deleted = {} /\ refused = {} /\ crossed = FALSE
  /\ world \in Worlds /\ troubles = 0 /\ others = 0

Upload(r) ==
  \/ UploadData(r) \/ Answer(r)
  \/ Check(r) \/ SanitizeAssetFks(r)
  \/ WriteDevice(r) \/ PatchDevice(r) \/ WriteEvent(r) \/ WriteAudit(r)

Others ==
  \/ \E d \in Devices : DeleteDevice(d) \/ Refile(d)
  \/ \E l \in Lots : DeleteLot(l) \/ ReassignLot(l)
  \/ \E g \in {"audit", "wipe"} : Regrant(g)

Scans ==
  \E d \in Devices :
    \/ \E l \in Lots : ReceiveNew(d, l)
    \/ \E l \in Lots \cup {NoLot} : ScanKnown(d, l)
    \/ \E claim \in BOOLEAN : RecordAudit(d, claim)

Next ==
  \/ Scans \/ SyncDown \/ Others \/ BreakConnection \/ RestartServer
  \/ \E r \in Requests : Upload(r)

Spec == Init /\ [][Next]_vars

\* The phone retries while it has a connection, and the server answers.
FairSpec == Spec /\ \A r \in Requests : WF_vars(Upload(r))

-----------------------------------------------------------------------------
(* Properties *)

Homes == Lots \cup {NoLot}
Places == Homes \cup {Unknown}
Place == [lot : Places, status : Ids \cup {0}]
Write == [op : Ops, device : Devices, lot : Homes, of : Ids \cup {0}, claim : BOOLEAN]
Flight == [write : Ids \cup {0}, trimmed : BOOLEAN, lot : Homes,
           step : {"idle", "check", "sanitise", "write", "ok", "failed"}]

\* The types of the phone's queue and copy, the uploads in flight and the server's rows.
TypeOK ==
  /\ writes \in Seq(Write)
  /\ next \in 1..(Len(writes) + 1) /\ Len(writes) <= MaxWrites
  /\ {seen, device} \subseteq [Devices -> Place]
  /\ listed \subseteq Lots /\ owner \in [Lots -> {"ours", "theirs", "gone"}]
  /\ waits \in Requests \cup {Nobody}
  /\ req \in [Requests -> Flight]
  /\ rows \cup refused \subseteq DOMAIN writes /\ events \in [Ids -> 0..1]
  /\ rivals \cup deleted \subseteq Devices /\ grants \subseteq {"audit", "wipe"}
  /\ crossed \in BOOLEAN /\ world \in Worlds
  /\ troubles \in 0..MaxTroubles /\ others \in 0..MaxOthers

\* However often an audit is sent, and with two uploads of it running at once, it and
\* its AUDITED event are there together, once, or neither is.
AuditOnce == \A i \in Ids : events[i] = IF i \in rows /\ writes[i].op = "audit" THEN 1 ELSE 0

\* A write is on the server, or its device was deleted, or the account had not the grant.
Landed(i) ==
  \/ writes[i].device \in deleted \/ i \in refused \/ i \in rows
  \/ writes[i].op \in OnDevice /\ There(writes[i].device)

\* What the phone has let go of has landed.
CompletedLanded == \A i \in 1..(next - 1) : Landed(i)

\* A device is the server's, or was, or comes with one of the first n writes.
Rooted(d, n) ==
  \/ There(d) \/ d \in deleted
  \/ \E j \in DOMAIN writes : j <= n /\ writes[j].op = "create" /\ writes[j].device = d

\* What the phone knows, and writes about, is rooted; a row's device is there.
QueueFacts ==
  /\ \A d \in Devices : seen[d] # Absent => Rooted(d, Len(writes))
  /\ \A i \in DOMAIN writes : writes[i].op # "create" => Rooted(writes[i].device, i - 1)
  /\ \A i \in rows : writes[i].op \in Ops \ OnDevice /\ There(writes[i].device)
  /\ \A i \in refused : writes[i].op # "create"

\* An upload is of a write not after the next, and answers 200 only when that has landed.
FlightFacts ==
  \A r \in Requests :
    /\ req[r].step # "idle" => req[r].write \in DOMAIN writes /\ req[r].write <= next
    /\ req[r].step = "ok" => Landed(req[r].write)
    /\ waits = r => req[r].step # "idle" /\ req[r].write = next

\* The inductive invariant.
UploadInv == TypeOK /\ AuditOnce /\ CompletedLanded /\ QueueFacts /\ FlightFacts

\* Once nothing waits and nobody else had a hand in it, the server's devices are where
\* the phone put them, with the outcome of the phone's last audit, provided that no
\* upload outlived its connection: one that did may land after a later write.
QuietAgrees ==
  ~Waiting /\ others = 0 /\ ~crossed => \A d \in Devices : seen[d] \in {Absent, device[d]}

\* The four things the upload has no answer to: a row for a device that is gone, a new
\* device whose tag is taken, a new device that is there already, and a manager's write
\* to what is no longer theirs.
Wedged ==
  /\ Waiting
  /\ LET e == writes[next] IN
     \/ e.op \notin OnDevice /\ ~There(e.device)
     \/ e.op = "create" /\ (There(e.device) \/ e.device \in rivals)
     \/ Forbidden(e)

\* Whatever else happens, retries, restarts, lots that are gone and grants that are
\* withdrawn included, a waiting write is completed or stands before one of the four for good.
QueueMoves == \A n \in Ids : (next = n /\ Waiting) ~> (next > n \/ []Wedged)

\* powersync.service.ts:152 says that the upsert covers the first sync of an update, and
\* connector.ts:43-45 that a failed batch is retried "rather than losing it": what the
\* phone queued is uploaded in the end.
QueueDrains == []<>(~Waiting)

=============================================================================
