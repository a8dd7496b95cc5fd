# A verification development of als-inventory-software

The program receives used computers, erases their drives, certifies the erasure
and sells the machines.  It is a NestJS API over PostgreSQL (`src/apps/api`), a
Next.js web application with an offline scanning page (`src/apps/web`, with
PowerSync between the phone and the API), and an audit station booted from a USB
stick (`src/tools`), which probes a machine, erases its drives and files what
happened.

What these modules ask is whether the program can be believed: that a drive
which was not erased never ends up on a certificate, that work recorded where
the network or the power fails is neither lost nor counted twice, and that stock
and rights stay what they are while requests interleave.

## 1. Inventory

### Parts, their state and their operations

| Part | State it keeps | Operations | What is hard |
|---|---|---|---|
| Wipe roll-up (`devices/wipe-rollup.ts`) | none: a function of a machine's wipe records | `rollupWipe`, `expectedDrivesFromRows` | two clocks, records late, doubled and out of order; drives that hide their serial or change path |
| Certificate ledger (`certificates/certificate-ledger.ts`) | `erasure_certificates`: append-only, numbered, each row chained to the one before | `ensure`, `inputs`, `issue` | several instances and one advisory lock; a record filed between reading and issuing |
| Certificate check (same file) | per process: the walk under way, the last verdict and its checkpoint | `verify`, `chainThrough`, `walk`, `walkChain` | a walk in batches over a table that grows; joined, failed and stale walks |
| Station ingest (`devices/devices.service.ts`) | the asset's row, its audits | `ingest`, `settleWipeStatus` | read, decide, write, in separate statements, from several stations |
| Erase engine (`tools/hardware-audit.sh --wipe-drive`) | one shell process per drive, its limitations, and the drive | hidden-area checks, ATA and NVMe erase commands, read-back, overwrite, verdict | controllers that report what they did not do, old log entries, a bus reset in mid-wipe, what a method does not reach |
| Station's queue (`tools/gui/server.py`) | queue file and wipe markers on the stick, copies in RAM, job and flush threads | `record_wipe`, `upload_audit`, `queue_add`, `queue_flush`, `recover_pending_wipes` | restarts, power cuts, sticks that refuse writes or do not read in full |
| Station's jobs (`tools/gui/server.py`) | `JOBS`, `PROCS`, `DRIVE_QUEUES`, a thread per job | `start_job`, `cancel_job` | the namespaces of one drive wait for each other; jobs are stopped while they wait; a restart forgets them |
| Operator sign-in (`tools/gui/server.py`) | the operator's session, its lock, the shared account's token, a setting | sign-in and out, `operator_token`, `authed_api`, `stamp_provenance`, `held_reason` | uploads, renewals and sign-outs in threads of one process; refusals that arrive late |
| Device locks and installed OS (`tools/lock-checks.sh`, `hardware-audit.sh`, `assets.service.ts`) | the rows of one capture; an audit's lock status and OOBE check | ten detectors, the OS of the disk, the roll-up, `recordAutopilotOobe` | absence and a failed look-up look alike; a status written from an earlier read |
| Counted goods (`pallets/pallets.service.ts`) | pallets, lines, the Sold archive, merges | create, edit, add, sell, return, merge | only the merge is a transaction |
| Devices on pallets, sales, returns (`assets`, `batches`, `lots`, `pallets`) | devices, lots, sub-lots, asset pallets | intake, edit, move, transfer, sell one, a pallet or a lot, return, delete | loops of statements without a transaction; one total split over many devices |
| Offline upload (`powersync/powersync.service.ts`, `web/lib/powersync/connector.ts`, the scan page, the audit form) | the phone's upload queue and its copy of the devices; devices, audits, events | scan, audit, `uploadData`, `applyBatch` | lost answers, retries beside the first attempt, devices and lots that are gone |
| Accounts (`auth/permissions.service.ts`, `users`) | users, a copy of their grants per process | the guard, create, role, grants, disable, remove | copies filled after they were thrown away; the last administrator |
| Consumable stock (`stock`) | lines and movements | `adjust`, `transfer`, create, edit, remove | READ COMMITTED: read, then save an absolute quantity |
| Sales orders, invoices | orders, counters | fulfilment, numbering | one step of several failing |
| Everything else | reference data, activity log, photos, reports, web pages, boot scripts | single-row edits, reads, probing of parts and health | nothing a model would show |

### How they interact

A station starts an engine for a drive and files a record of what it says
(engine → queue → ingest), under the account of whoever is signed in.  The
engine runs in a session of its own and outlives the station's process; what it
then says goes unread, and the marker on the stick speaks for it.  Ingest saves
the record, settles the machine's wipe status from *all* its records (the
roll-up) under a lock on the machine's row, and asks the ledger for a
certificate; the ledger takes its own lock and asks the roll-up again.  A record
typed by a person reaches the same table through the web or through a phone's
upload.  Anyone who holds a certificate can have the ledger check it.  The
phone writes its own database and PowerSync replays the writes, one at a time,
to `applyBatch`.  Lots own devices, and deleting one deletes its devices with
their audits.  A pallet holds counted lines or devices, and refuses to be sold
or deleted as the one while it holds the other.  Every request passes a guard
that decides on a copy of the account, at most a TTL old.  A capture also files what
it could tell of the machine's locks and installed system; once the machine is
imaged, a technician records its first Windows screen on the newest audit, and
that outranks what the station could see from outside.

### What makes each part correct

* Roll-up: "wiped" only if every drive was last erased; erased machines are not
  refused; a person's record does not outrank a later one of the station.
* Ledger: numbers with no gap and no repeat, nothing rewritten, each certificate
  drawn from the records as they are, one certificate per erasure.
* Check: no sound certificate is refused, nothing known to be broken is vouched
  for, every check ends, an edit of the table is found.
* Ingest: when all is quiet the status is the roll-up of the records; a settle
  overwrites no person; a capture takes back no erasure.
* Engine: what it calls wiped was read back and holds none of the old data; what
  the method did not reach is named.
* Jobs: erases of one drive take turns, what was stopped before it started wrote
  nothing, and nobody waits behind a job that is over.
* Station: no wipe is forgotten or judged twice; no waiting record is lost; the
  last durable trace of a wipe is not given up; every wipe is recorded.
* Locks: what could not be looked at is never filed as absent; a disk called
  empty is empty; a lock that could be read stays LOCKED on the audit.
* Sign-in: a record goes only under the account of its tag; a session ends only
  by its own end; a record goes once its operator is there.
* Pallets: units are neither lost nor repeated; a merged pallet is empty and
  frozen, of merges beside each other or beside one request on a line; merges do
  not deadlock.
* Devices: a whole sale adds up to the total entered; a sold device keeps its
  record and its place; nothing in stock is shipped.
* Offline: what the phone lets go of has landed; nothing lands twice; the queue
  moves on.
* Accounts: a right withdrawn ends within a TTL and one look-up; an edit, giving or
  taking, is seen at once where it was made, unless a look-up was under way there,
  and then as soon; an administrator remains, if nothing overtook the count.
* Stock: a line's quantity is the sum of its movements; no line is sold short.

`PROJECT.json` lists the hazards one by one, each at its line, with the
properties that watch it or the reason why none does.

## 2. Modules

| Module | Stands for | State and actions |
|---|---|---|
| `WipeRollup` | `wipe-rollup.ts`, `certificate-eligibility.ts` | operators only: clusters, expected drives, `OutcomeFor`, `RollupWipe` |
| `WipeRecords` | what machines, stations and people do to produce records | the truth of each drive beside the rows; wipes, captures, the stick's queue, records by hand |
| `CertificateBook` | what the ledger promises: an append-only line of certificates, each naming the one before | `Issue` |
| `CertificateLedger` | `ensure`, `inputs`, `issue` | rows, certificates, the advisory lock, a program counter per call |
| `CertificateChain` | `verify`, `chainThrough`, `walk`, `walkChain` | the table, the walk and its batch, the cached verdict, the checks waiting |
| `WipeSettle` | `ingest`, `settleWipeStatus` | the asset's row and lock, its records, a program counter per request; uses `WipeRollup` |
| `StationQueue` | queue, markers, flush and recovery of `server.py` | files, RAM, jobs and threads; the stick, the power and the network outside |
| `EraseEngine` | `hardware-audit.sh --wipe-drive` | a drive as the regions of it that still hold old data; the engine's methods, read-back and verdict |
| `Station` | a station with its engines | `StationQueue` and an `INSTANCE` of `EraseEngine`: `Begin`, `Collect`, `Unread` |
| `WipeJobs` | `start_job`, `cancel_job` of `server.py` | the jobs started, the queue of each NVMe drive, a stop under way |
| `OperatorSession` | sign-in, renewal, tags and uploads of `server.py` | the session and its lock, two requests at once, the tokens and accounts of the server |
| `LockChecks` | `lock-checks.sh`, the OS part of `hardware-audit.sh`, `bios_locked` | a machine with its locks, a stick with its tools and rights; one step per detector |
| `DeviceLocks` | a machine's locks from captures to audits, `recordAutopilotOobe` | extends `LockChecks` by audits and technicians' requests |
| `PalletStock` | counted goods of `pallets.service.ts` | pallets, lines, Sold rows, merges, row locks; a request is what it still has to do |
| `GoodsIn` | devices, lots and asset pallets | extends `PalletStock`; one request at a time, statement by statement, and a process that stops between two |
| `OfflineUpload` | phone and `applyBatch` | the queue, the phone's copy, uploads in flight with a step each, the server's rows |
| `Accounts` | the guard and `users.service.ts` | users, copies per process, requests, a clock |
| `StockLedger` | `stock.service.ts` | lines, movements, what each transaction read |
| `Office` | the API's desk | `Accounts` and `StockLedger`: a transaction belongs to a request that was let in and dies with its process |
| `Sums` | the quantities and prices that add up | operators only: a sum of the first values of a function, and over a finite set |
| `…Proofs`, `SumLemmas` | proofs (section 5) | |
| `MC…` | the instances TLC checks | constants, and the small worlds |

`WipeRollup` is used by `WipeRecords`, `WipeSettle` and `CertificateLedger`, so
that the same verdict that TLC checks against the truth decides in the models of
ingest and of the ledger.  `CertificateLedger` implements `CertificateBook`, and
`Station` implements `StationQueue`.  The definitions named `X_Something` before
an `X` are variants of it with a plausible bug; none is used by a
specification.  They are there to show that each property depends on `X`.

### Correspondence, module by module

**WipeRollup** translates the clustering of drive keys (serial; else WWN; else
model and size, with the path as a last resort), the expected drives (per type,
the longest list), `outcomeFor` (the latest record on *both* clocks must be an
erase, a failure within the window wins, a block discard is not an erase) and
the final combination with hand-typed and legacy records.  Times are small
numbers, methods are classes, text is left out.

**WipeRecords** keeps for every drive what really happened and writes the record
a station would file: the listing may fail, drives drop off the bus, swap paths,
the clock is wrong, the stick waits and repeats.  Each `world` turns on some of
these, so their combinations stay small.

**CertificateLedger**.  A call reads whether it has anything to certify, waits
for `pg_advisory_xact_lock`, re-reads the records under it, looks for a
certificate with the same key of wipes, finds the free number and inserts; a
crash releases the lock.  `WipeKey` is the identity of a wipe, not the row's id.
`Book == INSTANCE CertificateBook WITH ...` maps the table to the book.

**CertificateChain**.  One process walks the chain in batches (`BATCH`), keeping
what it has verified; a check joins the walk under way if the certificate was
there when it started, else waits and starts another.  A row is abstractly an
original or edited one; that an edited row's hash does not fit is the assumption
that hashes and signatures cannot be forged.

**StationQueue**.  The two files are sets of records that may be written, refuse
writes or not read in full; each has a RAM copy.  `StartWipe` marks before the
engine starts, `EngineEnds` gives the outcome, `Finalize` puts the record in the
marker, `Upload` posts, `Enqueue` queues, `Unmark` removes.
`FlushStart/One/End` is one flush under its lock, `Boot/RecoverOne/RecoverEnd`
the recovery.  `Forget` is the process dying, `PowerOff` the power.

**EraseEngine**.  A drive is the set of its regions that still hold old data:
`user`, a hidden end (`hpa`, `dco`), other namespaces (`siblings`), sectors out
of service before the wipe (`retired`) or during it (`late`).  A region is
erased and read back as a whole; the code samples windows of it.  `todo` is the
ladder of methods that rest; what `Consistent` says a drive may be is what the
buses allow, no hidden end and no magnetic sectors behind NVMe, no namespaces
behind ATA.  The hidden-area check is one step of what the
drive answers, and the SMART counts are read or not.  A sanitize is taken by the
controller, and its log says so at once, later or never; `fresh` is the code's
guard against the success of an older sanitize still in the log.  `NvmeFirst`
folds the look-up of the controller behind a name into "commands, or none".

**Station**.  `Begin` is `StartWipe` with `Launch`, `Collect` is `EngineEnds`
with the line the engine printed, `Unread` is an engine that ends after its
process restarted; a power cut ends engines where they stand.

**WipeJobs**.  A job's thread goes from `TakeTurn` (`wait_turn`) through `Launch`
(`Popen`), `ReadOutput` and `Release` to `FileRecord`; registering and queueing are one
step, since they are under one lock.  A request to stop reads the job and its
process first (`Look`) and decides under the lock later (`Stop`).  What a command
does to the drive is `EraseEngine`'s, and the files behind a record are
`StationQueue`'s, so here a command runs and ends, and a record is filed or not.

**OperatorSession**.  `Take` reads whose session it is and the token under one
hold of `OPERATOR_LOCK`, which a renewal keeps while it asks the server.  The
setting is a variable that a rescan changes, and is read where the code reads
it: at the gate, at the tag, at the start of a request and again in
`ensure_token`.  A record's tag is settled when the wipe starts with the setting
on, and at its end otherwise.  A 401 gets one renewal and one retry, a 403 ends
the session it was sent under.  The record's own way through the stick is
`StationQueue`'s, so here it waits or is sent.

**LockChecks**.  A machine says what is the matter with it (enrolled, joined, a
password, an injected binary, which volumes and hives it has) and a stick what
it lacks (a tool, root, a view of the firmware).  A hive is good, missing,
closed to both tools or to one, or torn, and then any read of it may fail:
`Reads` gives the outcomes, `XSays` the statuses a detector may file.  `Detect`
files them in the code's order; `looked` stands for `WIN_ENCRYPTED`, which is
set only where a volume was tried.  `DiskVerdict` is `als_os_disk_verdict`, over
the whole list of volumes or the part a listing that ran out of time gave.
What a row says in words, the names of tenants and the licence are left out; so
are machines with several disks and a detector that dies.

**DeviceLocks**.  `UploadAudit` is `lockStatusOf` and the payload's boolean,
`FindAudit` and `RecordOobe` are the two statements of `recordAutopilotOobe`.
`Plain` says that a lock was written down where this capture reads.

**WipeSettle**.  Look-up, update or creation, the record, then for a wipe the
lock on the asset's row and the settle; people set the status at any time;
instances die.

**PalletStock**.  Each request is a record of what it has read and what it has
still to do; one action per statement, one for the whole merge after its locks.

**GoodsIn**.  `task` is the request under way, with the devices it has still to
treat: adding to a pallet, taking off, selling a pallet and returning go device
by device, selling a lot is three statements over all of them, and `Crash` drops
the rest.  `Share`, `PriceAll` and `PriceRest` are the two ways the code splits
a total.  A `Shift` says which operations may meet, to keep the instances small.

**OfflineUpload**.  A write is queued by the forms' own statements (a new device:
`create` then `scan`; a known one: `scan` and `move`; an audit: `audit` and
`grade`).  `UploadData` sends the first, `Check` is `assertManagerMayWrite` and
`screen`, then `SanitizeAssetFks`, then one action per kind of write, then
`Answer`.  A broken connection leaves the handler running: that is how two
uploads of one write come to run at once.

**Accounts**.  A request looks for a copy of the account in its process; without
one it reads the row and later fills the copy with an expiry counted from the
moment of filling, whatever was invalidated in between.  An edit throws away its
own process's copy only; `landed` notes the account's version then, the time, and
whether a look-up of that account was under way in that process.  Disabling counts the other administrators first and
writes afterwards.

**StockLedger**.  `Begin` reads the line, `Commit` saves the row with the new
quantity and the movement; `raced` marks a line whose quantity was written over
unseen, so that the promise is stated for the others and the floor for all.

## 3. Runs

| Run | Question | Instance | Result |
|---|---|---|---|
| `wipe_records` | is the verdict true of the drives, and is a status that was settled the verdict? | two views of one machine. Drives: two of them, seven worlds (late and repeated records; failed listings and block discards; no name or a WWN only; drives that drop off and swap; wrong clocks and hand records; old sticks). Requests: two settles at once, three in all, a person, instances dying | holds |
| `ledger_safety` | does the ledger keep its book, and does the inductive invariant hold? | two calls, two machines, up to three records of one | holds |
| `chain_check` | are checks right and answered while the table grows and is edited? | three certificates, batches of two, two checks, one edit, one failure or restart | holds |
| `settle_capture` | "a plain re-capture can never erase a wipe result" | one wipe, captures | violated |
| `station_wipes` | is what is called wiped erased, is what is left named, is every wipe recorded, is none lost or judged twice, is no record overwritten, do erases of one drive take turns? | two views. One wipe of one of fourteen drives, four methods asked for, one crash, one trouble. Or three jobs of two namespaces and a restore, in five orders, one request to stop, one restart | holds |
| `device_locks` | is a lock that is there ever filed as absent, a full disk as empty, a lock that was read forgotten? | fifty-eight machines, each with one lock, one broken hive or one odd disk; eighteen sticks, each lacking one thing; two captures, a wipe and an image between, two technicians | holds |
| `registry_rule` | "A check that could not run reports UNKNOWN. Never PASS." | the same machines and sticks, one capture | violated |
| `operator_records` | whose account does a record go under, and whose session is ended? | two operators and the shared account, one record, a request for lists beside the upload, four events | holds |
| `pallets` | is stock conserved, are merges safe, do sales add up? | counted goods: two requests at once in merges, three in all, two pallets and up to two more. Devices: three, up to five requests, two lots, one sub-lot, an asset pallet beside a counted one | holds |
| `upload_moves` | is anything lost or doubled, and does the queue move? | one stocked device, one new one, two lots, three writes, one broken connection or restart, one act of somebody else; technician and manager | holds |
| `upload_drains` | does a new device's upload survive a lost answer? | the same, nobody else about | violated |
| `office` | do rights end, do edits land, does an administrator remain, does the stock add up? | two processes, two requests at once, four worlds: three requests with a clock, three edits of administrators (two worlds), five stock requests with a restart | holds |

**Why these bounds.**  The interesting cases need few actors.  A roll-up errs on
two records of one drive in the wrong order, or on one drive hidden behind
another: two drives, three or four records.  The ledger and ingest err when two
requests overlap and a third piece of state changes between: two requests, three
in all.  A batch of two over three certificates has a full batch, a short one
and a checkpoint in the middle.  What engines do to
their drives does not depend on one another once they take turns, so one is enough,
of every kind; turns need a job, one waiting behind it and a third behind that
one, which one stop releases.  That wipe has two records that meet in the queue, its own and the
one a recovery files, and for any number of wipes the theorems speak.  A
late refusal of a session needs a sign-in, its end, a second sign-in and the
event that refused the first: four events, and the upload beside one more
request.  A lock is missed by one failed read on one machine with one
stick, since detectors share nothing but the mounted volume; two captures and
two technicians make a read that is stale.  A merge needs two sources, its result and one more pallet for a second
merge.  A sale that is split badly needs three devices; one that stops half-way
and is repeated, four or five requests.  The phone needs a new device with its
event and one write after it, and two uploads in flight since the first may be
abandoned.  A stale copy needs two processes, one edit, and as much time as a
look-up and a TTL.  Each bound is named in the module (`MaxRequests`,
`MaxCrashes`, …) and guards one action.

`CHECK_DEADLOCK FALSE` stands in the cfgs whose system may really stop: the
requests, wipes or events of the bound are used up.  The runs of the ledger, of
the certificate check and of the upload do look for deadlock, and find none: a
caller asks for another certificate, a holder checks his again, and a phone with
nothing to send still takes the server's state.

### What the violated runs show

* `settle_capture` — `devices.service.ts:68`.  The rank is compared with a status
  read before; by the time the update is written the row may hold a wipe result.
* `upload_drains` — `powersync.service.ts:152-153` and the test at
  `powersync.service.spec.ts:400`.  A retried PUT of a new device finds the
  device there, drops the tag because identity is fixed, and the upsert becomes
  an `INSERT … ON CONFLICT` without a tag, which PostgreSQL refuses for NOT NULL
  before it looks at the conflict.  Every retry fails, and all later writes wait.
  `upload_moves` is the other half: apart from this and three more causes (a
  deleted device with a waiting event, a tag taken by somebody else, a manager's
  lot that is no longer theirs) a waiting write always goes through.
* `registry_rule` — `lock-checks.sh:1322`.  `check_entra` asks for JoinInfo with a
  look-up that fails alike when the key is absent and when the hive does not
  open, and probes no key known to be there, as `check_domain` does; and when
  `Select` is not read, the stale control set is asked (694-705).  `check_mdm`
  (1171-1172) gives an unread enrolment up only if `hivexsh` does not find its
  key either.  Each is filed as PASS on a machine that belongs to somebody, the
  answer the file calls the most expensive it could give.  `PassIsSeen` is what
  does hold, for every detector: outside the gaps of `Gap`, PASS is earned.  The
  gaps are these two, a SECURITY hive torn after its probe, a password whose
  attribute the firmware does not show, a TPM that was not asked about its
  owner, a vendor setting that is not exported, and an encrypted volume blkid
  does not type on a machine whose volumes were not tried.

### What was met and has no run

* An overwrite erases one namespace of a drive, and the others are looked for
  only on the way to `nvme format` (`hardware-audit.sh:1337`, `1340`,
  `1362-1366`): its record names none of them, against 1479-1480 ("a certificate
  must say what the method cannot reach") and 2024-2026.  `LeftoversNamed` asks
  for them after a Purge only; it also leaves out a hidden end that an earlier
  wipe of the boot raised and a bus reset brought back (`CameBack`), and a sector
  retired during the overwrite of a drive whose counts read zero (`late`).
* The roll-up of locks is never CLEAR: nothing on the disk can clear a machine of
  Autopilot, so one check is always UNKNOWN.  `lock_status` ranks WARNING above
  it, where `docs/design/2026-09-02-device-locks-and-ubuntu-base.md:28` has any
  UNKNOWN make the machine UNVERIFIED; for the same reason the kiosk's
  `bios_locked` (`server.py:1186`) never sends False, while the text mode does on
  a machine that is UNVERIFIED.
* A "generic" screen recorded by a request that read before an "organisation" was
  written takes its LOCKED back (`assets.service.ts:553`); recorded afterwards it
  does not, since the status it starts from is the stored one and not the
  detectors' (against 555, "re-derived rather than patched").
* A disk that serves its first sector and no more passes the test read and is
  called empty (`hardware-audit.sh:3518`).
* An erasure is certified twice when a wipe typed by hand was certified in between:
  a station's wipe S, a wipe typed by hand, and S sent again because its answer was
  lost.  The copy is received after the typed one, so that no longer speaks for
  the machine (`wipe-rollup.ts`, on both clocks); the sources are S again and
  differ from those of the latest certificate, the only one `sameSources` is asked
  about (`certificate-ledger.ts:186`), and a third certificate with a new number
  is issued for S.  Lines 417-426 say that the identical wipe sent again must
  not get a second one.  TLC finds it with one caller and three rows; two wipes
  typed on one day around a station's do the same.  `WipesAreNamed` leaves such
  machines out.
* A clock that runs ahead, on a wipe uploaded late, makes it the latest on both
  clocks, and a failure between them is hidden (`wipe-rollup.ts:38-40`).
* What is kept of a drive list has no WWN, so of drives that report no serial and are
  alike the list that has most of them is expected (`wipe-rollup.ts:227-266`), not
  the union that 242 speaks of, against 32-34 ("every internal drive any wipe-time
  hardware profile lists must have a wiped record").  With three such drives, a boot
  that lists 1 and 2 and wipes 1, then one that lists 2 and 3 and wipes 3: two are
  expected, two have records, the machine is wiped, and drive 2 was not.  So
  `CertifiedDrivesErased` is false of three such drives, which TLC shows in two
  boots; the worlds of `wipe_records` have two, and the theorem asks for serials.
* The sale of a lot leaves its devices linked to open pallets
  (`batches.service.ts:347`, against `asset.entity.ts:155-156`).
* A line can be inserted on a pallet a merge has just emptied
  (`pallets.service.ts:1788-1802`); so `MayBegin` runs merges beside each other and
  beside one request on a line only, and `MergedForGood` and `StockConserved` are
  claimed of that.
* A look-up that read an account before an edit brings the older row back after the
  edit threw it away, so that the edit does not land "on the next request" of its own
  process (`permissions.service.ts:73-74`) but up to a look-up and a TTL later.
  `EditsLandHere` says that nothing else delays an edit, and no longer than that;
  with the exception struck out TLC finds the race, and with a bound one shorter too.
* A layout or a return can put counted lines on a pallet of devices
  (`pallets.service.ts:437`, against the comment at 1790).
* After a restart of the kiosk `JOBS` and the controllers' queues start empty
  while an engine may still run (`server.py:117-124`), and a second one can be
  started on its drive: `TurnsAreTaken` leaves out the jobs a restart lost.  A
  restore and a wipe of one disk are never kept apart (5966), and a request to stop
  a job that has been let go and has no process yet is told that nothing is
  running (5103-5104).
* A session that ends between a wipe's gate and its stamp leaves the record to
  the shared account (`server.py:5680`, `5763`, against 1011-1012); and when the
  setting is switched on between two looks at it, a record of the shared account
  can go under an operator's (`server.py:1461`, against 1588-1589), which is the
  exception `OwnAccount` spells out.  With the setting off, a token refused with
  401 is never renewed (`server.py:1599-1602`), which is why `Served` asks for
  one that is not dead.

## 4. Fairness

* `Station`: weak fairness of the engine's own steps, of collecting its line, of
  the job thread, the flush, the retry of turned-down records, the recovery and
  the process starting again: threads of one Python process, started by the boot
  script, and a shell that waits with a limit.  Nothing is assumed of a drive
  (it may never end a sanitize), the stick, the network or the server;
  `WipesRecorded` asks only of runs in which the last three end up well.
* `OperatorSession`: a request under way goes on (its calls have timeouts), and
  each record is tried again and again while it is not held — strongly, since
  one flush takes the records in turn and a lock may be held when it comes by.
* `CertificateChain`: the walk and the checks go on (promises of one Node
  process), and time passes.  That every certificate is checked again and again
  is an assumption about the people who hold them; only `TamperingFound` needs it.
* `OfflineUpload`: the phone retries while it has a connection, and a running
  request ends (PowerSync's upload loop, a promise of the API).  Connections
  broken and restarts are bounded, so that "always again broken" is not what
  stops the queue.

The other specifications have no fairness: their properties are safety.

## 5. Proofs

TLAPS checks these for every value of the constants the assumptions below allow:
any number of machines, wipes, drives, operators, callers, pallets, devices,
requests, crashes and troubles.  Type invariants that are theorems are not
repeated by a run.  An invariant is seldom inductive alone; each entry says which
facts about states in the middle of a request, a wipe or a sale make it so.

* **`SumLemmas`**.  A sum of the first n values of a function does not change
  with the others, grows by what one value grows by, and is what one value makes
  it where the rest are alike; and the same over a finite set.  Each is proved by
  the least number that would be an exception, since the provers have no
  induction over an operator.  The books of the stock, of the pallets and of the
  sales rest on them.
* **`CertificateProofs`**, the ledger.  `LedgerInv` is inductive, and the ledger
  implements the book (`BookSpec`).  It says that the lock is held by exactly the
  call inside the critical section, that each certificate names the one before it
  and numbers are unique, and that a call about to insert still has the head, a
  free number and erasures nobody has certified meanwhile.  That last part,
  `DraftIsCurrent`, is not inductive alone: it holds because only the holder of
  the lock inserts, and because the number it found was free; the loop that looks
  for it ends by a pigeonhole argument over the finite table.  The refinement
  maps the table to the book; every step but the insert stutters.
* **`CertificateProofs`**, one certificate per erasure.
  `OneCertificatePerErasure` holds of assets whose records tell their wipes apart
  (`WipesAreNamed`, which the run's machines meet): all from stations, a drive
  having a serial or a WWN and never two methods at one time; or all typed by
  hand, of one drive and method.  Records may come in any order and any number
  of times, fail, and outnumber any bound.  A new certificate is compared with
  the asset's latest alone, so that it equals none of the others needs a history:
  `HistoryInv` says that each certificate goes no less far than the one before it
  on any of its drives (`NoLater`), that what it lists is on record or
  superseded there (`OnRecord`), and that a call under the lock has read no less
  than the last certificate lists.  Rows are only added, so what a certifiable
  machine's roll-up names is no earlier than anything on record
  (`SourcesGoForward`): its sources are each drive's latest row by the station's
  clock, also where several device paths have to be looked at
  (`PathsAreLatest`), or the last wipe typed (`StationSources`, `HandSources`).
  Were the new one an earlier one, all between would be squeezed to be the same
  (`NoLaterSqueezes`), the latest too, and that one it is not.
* **`CertificateProofs`**, the check.  `ChainInv` says what the walk has seen, how
  the batch relates to the table, and what the verdict kept means; it also gives
  `VouchedFor`, for any edits.  `NoFalseAlarm` is not inductive alone: a false
  alarm is prepared two steps earlier, by a walk that ends before the
  certificate it is asked about.  The argument is that a check gives up only
  after two walks, the second of which began after the certificate was in the
  table, and that a batch shorter than asked for is the rest of the table.
* **`WipeProofs`**.  `SettleKeepsCall` for every request; and, over any
  function from records to a wipe status, with captures that carry a call or no
  profile (`NoPlainCapture`), that with no request under way the status is that
  function of all the records, unless a person or a crash decided
  (`StatusIsTheRollup`, the run's `Settled`).  `RowInv` is the lock;
  `StatusInv` says of a state with requests under way who still owes the settle.
* **`WipeProofs`**, the verdict itself.  `ManualSpeaksLast` for any machine;
  `CertifiedDrivesErased` for one whose drives each report a serial of their own
  (`Named`), when no record is late or the clocks are right (`Timed`); and, of such
  a machine, `EveryErasureCounts`.  `FiledInv` gives the records the order they were
  received in, with which every set of them has a latest on either clock; `RecordInv`
  ties what a record says to the drive it came from.  The roll-up is then taken
  apart: a drive's rows are one cluster (`SerialRows`), its outcome is its last wipe
  on the clock that is right, or on each of its paths (`ClusterErased`), and the
  drives expected are those some record lists (`Expected`).  The match of listed
  drives with clusters is a fold; a serial is listed at most once, so one step of it
  is enough (`OneListed`).  Without these conditions the first is false: of three
  drives without serials, and of a clock that is wrong on a record that is late
  (section 3, what was met and has no run).
* **`StationProofs`**, the queue.  `StationInv` ties each wipe's progress to where
  its marker and its record are, on the stick and in RAM, and what the flush and
  the recovery hold in their hands.  From it follow that no wipe is forgotten
  (`WipesAreKept`), that no waiting record is overwritten
  (`QueueForgetsNothing`) and that the last trace is guarded
  (`LastTraceWatched`), the last two for any stick.
* **`StationProofs`**, the verdict.  For `OneVerdict` records alone are not enough:
  a marker left on the stick is a record of the next start.  `Said` takes them
  together, and `VerdictInv` says that all that is said of a wipe is one thing —
  nothing before it starts, an unknown outcome while it runs, its record
  afterwards — and that what a flush sends was made.
* **`StationProofs`**, the engines.  `Station` implements `StationQueue` by the
  identity, so the above holds with engines that outlive their process; and
  `WipedIsErased`, for drives of every kind.  `Sound` is the invariant of an
  engine and its drive: a hidden end with old data is spoken of, open to the
  erase, or went back after this engine or an earlier one raised it; and once
  the read-back was clean nothing in reach is left.  `Claimed` follows the word
  "wiped" from the engine through the job, the marker, the files, the flush and
  the recovery: it is never said of a wipe whose engine did not say it, on any
  stick, and no engine is launched again on a drive of which it was said.
  `LeftoversNamed` needs the rest of the regions, which is `Named`: on a drive
  that does what it reports, a Purge leaves no retired sector and no namespace, a
  log that is believed is this engine's own, and a retired sector that is left
  was counted, or its drive is flash, of which an overwrite says so unasked.  To
  reason about it, `Consistent` had to say what the buses allow; and a `CASE` of
  `Ladder` and one of `Worst`, whose guards overlapped, had to become the `IF`s
  of the shell script: which arm TLC took was its own choice.
* **`StationDeskProofs`**, the operators.  `SessionInv` says that every token in
  hand — in the session, among the sign-ins the server answered, at a request —
  is of the account it was asked for, that who renews holds the lock and that the
  session is still the one it renews, and that the tag of what is made is
  settled.  It gives `OwnAccount`, and `SessionStands`: an answer ends a session
  only if it was sent with that session's own token.
* **`StationDeskProofs`**, the locks: `PassIsSeen`, `BlankIsBlank` and
  `LocksAreTold`.  `Filed` says that every row so far is one the detector may file
  on this machine and stick; it is inductive because what a detector says depends
  only on those, and what BitLocker's says, on the volumes tried, which is settled
  when it comes last.  Each PASS beside a lock then needs a failed read, and
  `FailedRead` and `MixedRead` give back the hive that made it fail.  A status
  read by a request is LOCKED whenever the audit holds a lock that could be read,
  so the write that follows cannot lose it.
* **`StationDeskProofs`**, the jobs: `TurnsAreTaken`.  `JobsInv` says that a queue
  holds, in the order they were started, the jobs of its drive that are not
  through, that who has its turn stands first, and that of two jobs of one drive
  the later launched only when the earlier was through.  The last part looks like
  the property, but is not inductive alone: who stands first is needed at the
  launch, and who is still in the queue at a stop.
* **`OfflineUploadProofs`**.  `UploadInv` gives `AuditOnce` and `CompletedLanded`.
  The second is not inductive alone, since an update of no row is answered 200:
  it needs to know that a device that is not there was there once.  `QueueFacts`
  says so: what the phone writes about is on the server, was deleted from it, or
  is created by an earlier write of the same queue, which by then has landed;
  and a row's device is there, since it goes with it.  `FlightFacts` says that an
  upload is of a write not after the next, and is at its 200 only when the write
  has landed, so that the answer to an upload the phone gave up harms nothing.
  `QuietAgrees` speaks of an empty queue; `QuietInv` says it of one that is not:
  the last waiting write that places or grades a device is where the phone has
  it, and with no such write the server has it already.
* **`OfficeProofs`**, the accounts: `EditsLandHere`, `AnAdminRemains` and
  `RightsEnd`.  `EditsKnown` says that what is older than an edit, in a copy or in the
  hands of a look-up, comes from a look-up that read no later than the edit landed and
  was still under way then.  `CopiesEnd` says that a right in a copy is a right of the row, or
  was lost since a moment from which the copy's expiry is at most a look-up and a
  TTL away; `LooksEnd` says it of a row a request has read and not yet filled in.
  `CountStands` says what an administrator who is being disabled has counted.
* **`OfficeProofs`**, the stock: `StockAccounted`, for any interleaving of
  transactions that read, and save an absolute quantity.  The sum of a line's
  movements grows by the movement that is logged; `ReadsCover` says that what a
  transaction read covers what it is about to take, however stale it is, and a
  line it writes over unseen is marked.
* **`GoodsInProofs`**, counted goods.  `PalletInv` says which requests may be
  beside each other, that row locks are taken in one order (`MergesQueue`), and
  that what is on pallets is on live ones; `Reads`, what a request has read and
  may rely on.  `MergedForGood` follows from what a step may freeze, in the worlds
  of `MayBegin`: nothing is proved of a line added or a pallet edited beside a merge.
  `StockConserved` is about the moments between requests; `Balanced` says in the
  middle of each how many units it still has to take off, or to put back.
* **`GoodsInProofs`**, devices.  `GoodsInv` adds what the request on devices has
  read: `ShippedWhole` and `SaleRecordStands`.  For `SalesAddUp`, `SaleInv` says
  how far the sale under way is: the devices sold with their pallet so far have
  the rounded share and the rest are still to come, a lot's devices have none or
  the quotient.  What is left goes on one device, and `ShareSum` and
  `QuotientSum` give the total back, whatever the number and the rounding.  A
  sale that ended only ever loses devices: a number that is still whole is the
  same set of devices, at the same prices.

The assumptions are those named in the modules: `CallersAssumption`,
`DayAssumption`, `ChainAssumption`, `RequestsAssumption`, `CallsAreCalls`,
`StationAssumption`, `DrivesAssumption`, `JobsAssumption`, `SessionAssumption`,
`LocksAssumption`, `DeviceAssumption`, `UploadAssumption`, `AccountsAssumption`,
`StockAssumption` (of `PalletStock` and of `StockLedger`), `OneTransactionEach`,
`GoodsAssumption`, `EpochAssumption` and `WorldsAssumption` — distinct tokens,
finite sets of rows, bounds that are natural numbers, totals in whole pence, and
what drives, machines and sticks may be.  TLC evaluates each in a run.

**Only model-checked.**  Liveness (`WipesRecorded`, `OwnRecordsGo`,
`ChecksAnswered`, `TamperingFound`, `QueueMoves`), which needs ENABLED.
`OneCertificatePerErasure` on machines that are wiped both by stations and by
hand, where it is false (section 3, what was met and has no run).  And the verdict on drives told apart by less than a serial, on
the records of old sticks, which name no drive, and on those that are late from a
clock that is wrong: with two drives and a few records they are in `wipe_records`.

## 6. Not modelled, and why

* Sales orders: fulfilment reads an order and then sells its devices as
  `GoodsIn` does.  Three cases were read off the code and need no model: a
  device that is sold, or on another order, can be added to one
  (`sales.service.ts:96`); a line added to a shipped order never ships; two
  PATCHes at once ship twice.  Invoices: a number comes from one atomic upsert.
* Of the engine: the suspend that unfreezes a drive (off by default), eMMC
  (which has the overwrite alone), ATA passwords, labels and reasons.  Of the
  station: what a job shows on screen, the watch on its writes, hardware tests,
  the week a refresh token lasts.
* The probes of parts, health and licence in `hardware-audit.sh`, and the boot
  scripts: I/O on devices.
* What certificates and records say in words, PDFs, reports, dashboard, web
  pages: wording, layout and reads.  They are a good half of the source.
* Reference data, photos, activity, the expected items of a lot: single-row
  edits that nothing else decides from.
* Hashes and signatures: taken as unforgeable.
* PowerSync itself, PostgreSQL, the network: external, modelled by what the code
  relies on (row locks, foreign keys, NOT NULL before ON CONFLICT, READ
  COMMITTED, one transaction at a time uploaded, no download while writes wait).
* Two requests of one pallet at once other than merges beside each other or
  beside a sale of a line, and two requests on devices at once: the code reads
  and then writes with no transaction and promises nothing; the hazards name the
  cases.

## 7. Plan

Written in this order, the most important behaviour first: the roll-up, the
ledger with its abstract book, ingest, the station's queue, pallets, the check
of certificates, the upload; then accounts and stock behind the guard, devices
on pallets and their sales, the engine and the station with it, the operators'
sign-in, the device locks, the jobs.  What would come next:

1. `EraseEngine` with two engines on one drive after a restart, which
   `TurnsAreTaken` leaves out today, and what is then left of `WipedIsErased`.
2. Fulfilment of orders beside the sales of `GoodsIn`.
3. Two requests on one lot at once in `GoodsIn`, once the code has transactions
   to promise anything by.

Runs are kept few, one per question.  A new component's run takes the place of
one that asks less.
