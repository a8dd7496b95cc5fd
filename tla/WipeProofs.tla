----------------------------- MODULE WipeProofs -----------------------------
(***************************************************************************)
(* Proofs about the status of a machine (WipeSettle), for any number of    *)
(* requests, records and crashes - there Settles is any function of the    *)
(* records to a wipe status - and about that function: what a roll-up of   *)
(* records says of the drives they came from (WipeRecords), for any number *)
(* of drives, boots, wipes and records.                                    *)
(***************************************************************************)
EXTENDS WipeRecords, WipeSettle, SumLemmas

-----------------------------------------------------------------------------
(* The lock on the asset's row *)

Wrote == {"updated", "saved", "locked", "read"}

TypeOK ==
  /\ pc \in [Requests -> {"idle", "arrived", "found"} \cup Wrote]
  /\ payload \in [Requests -> Payloads]
  /\ DOMAIN seen = Requests
  /\ \A q \in Requests : DOMAIN seen[q] = {"found", "status", "rows"}

(* A request that settles has the row's lock, and what it read still stands. *)
LockHeld ==
  \A q \in Requests :
    /\ pc[q] \in {"locked", "read"} <=> lock = q
    /\ lock = q => seen[q].status = status
    /\ pc[q] = "read" => seen[q].rows = filed

(* The asset that has records, and that a request found or wrote to, is there. *)
WroteToOne ==
  /\ filed # {} => exists
  /\ \A q \in Requests : seen[q].found \/ pc[q] \in Wrote => exists

RowInv == TypeOK /\ LockHeld /\ WroteToOne

LEMMA InitRow ==
  ASSUME SettleInit
  PROVE  RowInv
<1>1. (CHOOSE p \in Payloads : TRUE) \in Payloads
  BY RequestsAssumption
<1> QED
  BY <1>1, RequestsAssumption DEF SettleInit, RowInv, TypeOK, LockHeld, WroteToOne, Wrote

(* Nobody writes the status or saves a record while a settle holds the row; the
   one way past the lock, a creation, finds the asset there. *)
LEMMA NextRow ==
  ASSUME RowInv, [SettleNext]_settleVars
  PROVE  RowInv'
<1> USE DEF RowInv, Goes, record, Wrote
<1>1. ASSUME NEW q \in Requests, NEW p \in Payloads, Arrive(q, p) PROVE RowInv'
  BY <1>1 DEF Arrive, TypeOK, LockHeld, WroteToOne
<1>2. ASSUME NEW q \in Requests, Find(q) PROVE RowInv'
  BY <1>2 DEF Find, TypeOK, LockHeld, WroteToOne
<1>3. ASSUME NEW q \in Requests, Update(q) PROVE RowInv'
  BY <1>3, RequestsAssumption DEF Update, TypeOK, LockHeld, WroteToOne
<1>4. ASSUME NEW q \in Requests, Create(q) PROVE RowInv'
  BY <1>4 DEF Create, TypeOK, LockHeld, WroteToOne
<1>5. ASSUME NEW q \in Requests, Save(q) PROVE RowInv'
  BY <1>5, RequestsAssumption DEF Save, TypeOK, LockHeld, WroteToOne
<1>6. ASSUME NEW q \in Requests, SettleLock(q) PROVE RowInv'
  BY <1>6, RequestsAssumption DEF SettleLock, TypeOK, LockHeld, WroteToOne
<1>7. ASSUME NEW q \in Requests, SettleRead(q) PROVE RowInv'
  BY <1>7 DEF SettleRead, TypeOK, LockHeld, WroteToOne
<1>8. ASSUME NEW q \in Requests, SettleWrite(q) PROVE RowInv'
  BY <1>8, RequestsAssumption DEF SettleWrite, TypeOK, LockHeld, WroteToOne
<1>9. ASSUME NEW q \in Requests, Crash(q) PROVE RowInv'
  BY <1>9, RequestsAssumption DEF Crash, TypeOK, LockHeld, WroteToOne
<1>10. ASSUME NEW s \in Calls, Call(s) PROVE RowInv'
  BY <1>10, RequestsAssumption DEF Call, TypeOK, LockHeld, WroteToOne
<1>11. CASE UNCHANGED settleVars
  BY <1>11 DEF settleVars, TypeOK, LockHeld, WroteToOne
<1> QED
  BY <1>1, <1>2, <1>3, <1>4, <1>5, <1>6, <1>7, <1>8, <1>9, <1>10, <1>11 DEF SettleNext, Handle

(* The status a settle compares with is the one it writes over, whatever captures,
   wipes, people and crashes came meanwhile (settleWipeStatus, FOR UPDATE). *)
LEMMA RowInvariant == SettleSpec => []RowInv
<1>1. SettleInit => RowInv
  BY InitRow
<1>2. RowInv /\ [SettleNext]_settleVars => RowInv'
  BY NextRow
<1> QED
  BY <1>1, <1>2, PTL DEF SettleSpec

-----------------------------------------------------------------------------
(* What a settle writes *)

LEMMA SettlesToWipeStatus == \A records : Settles(records) \in WipeStatuses
BY DEF Settles, WipeStatuses

(* A call stays; any other status the program knows becomes the roll-up of the
   records as they are. *)
LEMMA WriteSettles ==
  ASSUME RowInv, NEW q \in Requests, SettleWrite(q)
  PROVE  /\ status \in Calls => status' = status
         /\ status \in Derived \cup {"none"} => status' = Settles(filed)
<1>1. seen[q].rows = filed /\ seen[q].status = status
  BY DEF RowInv, LockHeld, SettleWrite
<1>2. status' = IF DerivedMayReplace(Settles(filed), status) THEN Settles(filed) ELSE status
  BY <1>1 DEF SettleWrite
<1>3. Settles(filed) \in WipeStatuses
  BY SettlesToWipeStatus
<1> QED
  BY <1>2, <1>3, CallsAreCalls DEF DerivedMayReplace, Derived, WipeStatuses, Rank

(* The settle of a wipe never overwrites what a person decided, made however late:
   for any payloads, the plain capture included. *)
THEOREM CallsAreKept == SettleSpec => SettleKeepsCall
<1>1. RowInv /\ [SettleNext]_settleVars =>
        [\A q \in Requests : SettleWrite(q) /\ status \in Calls => status' = status]_settleVars
  BY WriteSettles
<1> QED
  BY <1>1, RowInvariant, PTL DEF SettleSpec, SettleKeepsCall

-----------------------------------------------------------------------------
(* The status, when all is quiet *)

(* Past its update, a request with a wipe record is going to settle. *)
WillSettle(q) == IsWipe(payload[q]) /\ pc[q] \in Wrote

(* The status is the roll-up of the records, or a request is going to see to it, or
   one that was going to died. *)
StatusInv ==
  /\ status \in Calls \cup Derived \cup {"none"}
  /\ \A q \in Requests : pc[q] \in {"saved", "locked", "read"} => IsWipe(payload[q])
  /\ filed # {} /\ ~missed /\ status \notin Calls =>
       status = Settles(filed) \/ \E q \in Requests : WillSettle(q)

(* What an update writes, if anything, is a call, or is for a wipe. *)
LEMMA PatchKinds ==
  ASSUME NoPlainCapture, NEW p \in Payloads, NEW current
  PROVE  /\ StatusPatch(p, current) \in Calls \cup Derived \cup {"none"}
         /\ ~IsWipe(p) => StatusPatch(p, current) \in Calls \cup {"none"}
BY CallsAreCalls DEF NoPlainCapture, StatusPatch, ExplicitStatus, IsWipe, Derived, WipeStatuses

LEMMA UpdateStatus ==
  ASSUME NoPlainCapture, RowInv, StatusInv, NEW q \in Requests, Update(q)
  PROVE  StatusInv'
<1> USE DEF RowInv, TypeOK, Wrote, Update, Goes
<1> DEFINE patch == StatusPatch(payload[q], seen[q].status)
<1>1. /\ patch \in Calls \cup Derived \cup {"none"}
      /\ ~IsWipe(payload[q]) => patch \in Calls \cup {"none"}
  BY PatchKinds
<1>2. status' = IF patch = "none" THEN status ELSE patch
  OBVIOUS
<1> HIDE DEF patch
<1>3. CASE IsWipe(payload[q])
  BY <1>1, <1>2, <1>3 DEF StatusInv, WillSettle
<1>4. CASE ~IsWipe(payload[q])
  BY <1>1, <1>2, <1>4 DEF StatusInv, WillSettle
<1> QED
  BY <1>3, <1>4

LEMMA CreateStatus ==
  ASSUME NoPlainCapture, RowInv, StatusInv, NEW q \in Requests, Create(q)
  PROVE  StatusInv'
<1> USE DEF RowInv, TypeOK, Wrote, Create, Goes, record
<1>1. CASE exists
  BY <1>1 DEF StatusInv, WillSettle
<1>2. CASE ~exists
  <2>1. filed' = {}
    BY <1>2 DEF WroteToOne
  <2>2. status' = StatusPatch(payload[q], "none")
    BY <1>2
  <2> QED
    BY <1>2, <2>1, <2>2, PatchKinds DEF StatusInv
<1> QED
  BY <1>1, <1>2

LEMMA SaveStatus ==
  ASSUME RowInv, StatusInv, NEW q \in Requests, Save(q)
  PROVE  StatusInv'
<1> USE DEF RowInv, TypeOK, Wrote, Save, Goes, record
<1>1. CASE IsWipe(payload[q])
  BY <1>1 DEF StatusInv, WillSettle
<1>2. CASE ~IsWipe(payload[q])
  BY <1>2 DEF StatusInv, WillSettle
<1> QED
  BY <1>1, <1>2

LEMMA WriteStatus ==
  ASSUME RowInv, StatusInv, NEW q \in Requests, SettleWrite(q)
  PROVE  StatusInv'
<1>1. filed' = filed /\ (status' \in Calls \/ status' = Settles(filed))
  BY WriteSettles DEF StatusInv, SettleWrite
<1>2. pc' = [pc EXCEPT ![q] = "idle"] /\ payload' = payload
  BY DEF SettleWrite, Goes
<1> QED
  BY <1>1, <1>2, SettlesToWipeStatus DEF StatusInv, RowInv, TypeOK, Derived

LEMMA NextStatus ==
  ASSUME NoPlainCapture, RowInv, StatusInv, [SettleNext]_settleVars
  PROVE  StatusInv'
<1> USE DEF RowInv, TypeOK, Goes, record, Wrote
<1>1. ASSUME NEW q \in Requests, NEW p \in Payloads, Arrive(q, p) PROVE StatusInv'
  BY <1>1 DEF Arrive, StatusInv, WillSettle
<1>2. ASSUME NEW q \in Requests, Find(q) PROVE StatusInv'
  BY <1>2 DEF Find, StatusInv, WillSettle
<1>3. ASSUME NEW q \in Requests, Update(q) \/ Create(q) \/ Save(q) \/ SettleWrite(q) PROVE StatusInv'
  BY <1>3, UpdateStatus, CreateStatus, SaveStatus, WriteStatus
<1>4. ASSUME NEW q \in Requests, SettleLock(q) PROVE StatusInv'
  BY <1>4 DEF SettleLock, StatusInv, WillSettle
<1>5. ASSUME NEW q \in Requests, SettleRead(q) PROVE StatusInv'
  BY <1>5 DEF SettleRead, StatusInv, WillSettle
<1>6. ASSUME NEW q \in Requests, Crash(q) PROVE StatusInv'
  BY <1>6 DEF Crash, StatusInv, WillSettle
<1>7. ASSUME NEW s \in Calls, Call(s) PROVE StatusInv'
  BY <1>7 DEF Call, StatusInv
<1>8. CASE UNCHANGED settleVars
  BY <1>8 DEF settleVars, StatusInv, WillSettle
<1> QED
  BY <1>1, <1>2, <1>3, <1>4, <1>5, <1>6, <1>7, <1>8 DEF SettleNext, Handle

(* Whichever request settles last, with no request under way the status is a
   person's call or the roll-up of every record, unless a request died half way. *)
THEOREM StatusIsTheRollup ==
  ASSUME NoPlainCapture
  PROVE  SettleSpec => []Settled
<1>1. SettleInit => StatusInv
  BY DEF SettleInit, StatusInv
<1>2. RowInv /\ StatusInv /\ [SettleNext]_settleVars => StatusInv'
  BY NextStatus
<1>3. RowInv /\ StatusInv => Settled
  BY DEF StatusInv, Settled, WillSettle, Wrote
<1> QED
  BY <1>1, <1>2, <1>3, RowInvariant, PTL DEF SettleSpec

-----------------------------------------------------------------------------
(* What a person types *)

(* Rows are filed at times of their own, none in the future; a row or a queued
   record is of a wipe that had happened; and some row a person typed, if there is
   one, is the last of these. *)
FiledInv ==
  /\ now \in Nat
  /\ \A p \in queue : p.truth \in Nat /\ p.truth <= now
  /\ \A r \in rows :
       /\ r.created \in Nat /\ r.truth \in Nat
       /\ r.truth <= r.created /\ r.created <= now
       /\ r.manual \in BOOLEAN
       /\ r.manual => r.at = 0 /\ r.truth = r.created
  /\ \A r, s \in rows : r.created = s.created => r = s
  /\ (\E m \in rows : m.manual)
       => \E m \in rows : m.manual /\ \A r \in rows : r.manual => r.created <= m.created

LEMMA InitFiled ==
  ASSUME Init
  PROVE  FiledInv
BY EpochAssumption DEF Init, FiledInv

(* A row filed now keeps the rows in order, whoever filed it. *)
LEMMA FileOne ==
  ASSUME FiledInv,
         NEW r, rows' = rows \cup {r}, now' = now + 1,
         r.created = now + 1, r.truth \in Nat, r.truth <= now + 1,
         r.manual \in BOOLEAN, r.manual => r.at = 0 /\ r.truth = r.created,
         \A p \in queue' : p \in queue \/ (p.truth \in Nat /\ p.truth <= now + 1)
  PROVE  FiledInv'
<1>1. now' \in Nat /\ \A p \in queue' : p.truth \in Nat /\ p.truth <= now'
  BY DEF FiledInv
<1>2. \A s \in rows : s.created < r.created
  BY DEF FiledInv
<1>3. \A s \in rows' :
        /\ s.created \in Nat /\ s.truth \in Nat
        /\ s.truth <= s.created /\ s.created <= now'
        /\ s.manual \in BOOLEAN
        /\ s.manual => s.at = 0 /\ s.truth = s.created
  BY DEF FiledInv
<1>4. \A s, t \in rows' : s.created = t.created => s = t
  BY <1>2, <1>3 DEF FiledInv
<1>5. (\E m \in rows' : m.manual)
        => \E m \in rows' : m.manual /\ \A s \in rows' : s.manual => s.created <= m.created
  <2>1. CASE r.manual
    BY <2>1, <1>2, <1>3 DEF FiledInv
  <2>2. CASE ~r.manual
    BY <2>2 DEF FiledInv
  <2> QED
    BY <2>1, <2>2
<1> QED
  BY <1>1, <1>3, <1>4, <1>5 DEF FiledInv

LEMMA NextFiled ==
  ASSUME FiledInv, [Next]_vars
  PROVE  FiledInv'
<1>1. CASE Boot
  BY <1>1 DEF Boot, FiledInv
<1>2. ASSUME NEW d \in DOMAIN session.path, NEW outcome \in world.outcomes,
             NEW sent \in BOOLEAN, NEW kept \in BOOLEAN, Wipe(d, outcome, sent, kept)
      PROVE  FiledInv'
  <2> DEFINE p == Payload(d, outcome)
  <2>1. p.truth = now + 1 /\ now + 1 \in Nat
    BY DEF Payload, FiledInv
  <2>2. \A o \in queue' : o \in queue \/ (o.truth \in Nat /\ o.truth <= now + 1)
    BY <1>2, <2>1 DEF Wipe
  <2>3. CASE sent
    <3>1. PICK r : r = Filed(p, now + 1)
      OBVIOUS
    <3>2. rows' = rows \cup {r} /\ now' = now + 1
      BY <1>2, <2>3, <3>1 DEF Wipe
    <3>3. r.created = now + 1 /\ r.truth = p.truth /\ r.manual = FALSE
      BY <3>1 DEF Filed
    <3>4. r.truth \in Nat /\ r.truth <= now + 1
      BY <2>1, <3>3
    <3>5. r.manual \in BOOLEAN /\ ~r.manual
      BY <3>3, Zenon
    <3> QED
      BY <2>2, <3>2, <3>3, <3>4, <3>5, FileOne
  <2>4. CASE ~sent
    BY <1>2, <2>1, <2>2, <2>4 DEF Wipe, FiledInv
  <2> QED
    BY <2>3, <2>4
<1>3. ASSUME NEW p \in queue, NEW kept \in BOOLEAN, Flush(p, kept)
      PROVE  FiledInv'
  <2>1. PICK r : r = Filed(p, now + 1)
    OBVIOUS
  <2>2. rows' = rows \cup {r} /\ now' = now + 1 /\ queue' \subseteq queue
    BY <1>3, <2>1 DEF Flush
  <2>3. r.created = now + 1 /\ r.truth = p.truth /\ r.manual = FALSE
    BY <2>1 DEF Filed
  <2>4. p.truth \in Nat /\ p.truth <= now + 1
    BY DEF FiledInv
  <2>5. r.truth \in Nat /\ r.truth <= now + 1
    BY <2>3, <2>4
  <2>6. r.manual \in BOOLEAN /\ ~r.manual
    BY <2>3, Zenon
  <2>7. \A o \in queue' : o \in queue \/ (o.truth \in Nat /\ o.truth <= now + 1)
    BY <2>2
  <2> QED
    BY <2>2, <2>3, <2>5, <2>6, <2>7, FileOne
<1>4. ASSUME NEW word \in {"wiped", "failed"}, RecordManually(word)
      PROVE  FiledInv'
  <2>1. PICK r : r = [id |-> Cardinality(rows) + 1, created |-> now + 1, manual |-> TRUE,
                      status |-> word, method |-> 1, at |-> 0, drive |-> Unknown,
                      profile |-> {}, drv |-> 0, truth |-> now + 1]
    OBVIOUS
  <2>2. rows' = rows \cup {r} /\ now' = now + 1 /\ queue' = queue
    BY <1>4, <2>1 DEF RecordManually
  <2>3. r.created = now + 1 /\ r.truth = now + 1 /\ r.manual = TRUE /\ r.at = 0 /\ now + 1 \in Nat
    BY <2>1 DEF FiledInv
  <2>4. r.manual \in BOOLEAN
    BY <2>3, Zenon
  <2>5. \A o \in queue' : o \in queue \/ (o.truth \in Nat /\ o.truth <= now + 1)
    BY <2>2
  <2> QED
    BY <2>2, <2>3, <2>4, <2>5, FileOne
<1>5. CASE UNCHANGED vars
  BY <1>5 DEF vars, FiledInv
<1> QED
  BY <1>1, <1>2, <1>3, <1>4, <1>5 DEF Next

(* On one clock, what is later has no smaller time on it. *)
LEMMA LaterClock ==
  ASSUME NEW c \in Clocks, NEW a, NEW b, ClockOf(c, a) \in Nat, ClockOf(c, b) \in Nat,
         Later(c, a, b)
  PROVE  ClockOf(c, a) >= ClockOf(c, b)
BY DEF Later, LexGreater

LEMMA ClockLater ==
  ASSUME NEW c \in Clocks, NEW a, NEW b, ClockOf(c, a) \in Nat, ClockOf(c, b) \in Nat,
         ClockOf(c, a) > ClockOf(c, b)
  PROVE  Later(c, a, b)
BY DEF Later, LexGreater

(* The verdict of a machine rests on a person's word only when that word is newer
   than every station row, and says so. *)
LEMMA ManualVerdict ==
  ASSUME NEW rws, RollupWipe(rws).verdict = "wiped", RollupWipe(rws).basis = "manual"
  PROVE  /\ ManualSpeaks(rws)
         /\ LatestOf("station", {r \in rws : r.manual}).status = "wiped"
<1> DEFINE identified == {r \in rws : Identified(r)}
           m == LatestOf("station", {r \in rws : r.manual})
<1>1. rws # {}
  BY DEF RollupWipe, Result
<1>2. identified # {}
  <2>1. LegacyRollup(rws).basis = "legacy"
    BY DEF LegacyRollup, Result
  <2> QED
    BY <1>1, <2>1 DEF RollupWipe
<1>3. ManualSpeaks(rws)
  <2>1. DriveRollup(rws).basis = "drives"
    BY DEF DriveRollup, Worst, Result
  <2> QED
    BY <1>1, <1>2, <2>1 DEF RollupWipe
<1>4. OutcomeFor({m}).status = "wiped"
  <2>1. RollupWipe(rws) = DriveResult(OutcomeFor({m}).status, OutcomeFor({m}).discard, "manual", m.id)
    BY <1>1, <1>2, <1>3 DEF RollupWipe
  <2> QED
    BY <2>1 DEF DriveResult, Result
<1>5. \A c \in Clocks : LatestOf(c, {m}) = m
  BY DEF LatestOf
<1>6. IsErase(m)
  BY <1>4, <1>5 DEF OutcomeFor, Clocks
<1> QED
  BY <1>3, <1>6 DEF IsErase

LEMMA FiledManual ==
  ASSUME FiledInv
  PROVE  ManualSpeaksLast
<1> SUFFICES ASSUME RollupWipe(rows).verdict = "wiped", RollupWipe(rows).basis = "manual"
             PROVE  \E m \in rows : m.manual /\ m.status = "wiped" /\ \A r \in rows : r.truth <= m.truth
  BY DEF ManualSpeaksLast
<1> DEFINE typed == {r \in rows : r.manual}
           m == LatestOf("station", typed)
<1>1. ManualSpeaks(rows) /\ m.status = "wiped"
  BY ManualVerdict
<1>2. \A r \in typed : ClockOf("station", r) = r.created /\ r.created \in Nat
  BY DEF FiledInv, ClockOf, Station
<1>3. \E l \in typed : \A s \in typed \ {l} : Later("station", l, s)
  <2>1. PICK l \in typed : \A r \in typed : r.created <= l.created
    BY <1>1 DEF ManualSpeaks, FiledInv
  <2>2. \A s \in typed \ {l} : s.created < l.created
    BY <1>2, <2>1 DEF FiledInv
  <2> QED
    BY <1>2, <2>2, ClockLater DEF Clocks
<1>4. m \in typed /\ \A s \in typed \ {m} : Later("station", m, s)
  BY <1>3 DEF LatestOf
<1> HIDE DEF m
<1>5. \A s \in typed : s.created <= m.created
  BY <1>2, <1>4, LaterClock DEF Clocks
<1>6. \A s \in rows \ typed : s.created <= m.created
  <2> SUFFICES ASSUME NEW s \in rows \ typed PROVE s.created <= m.created
    OBVIOUS
  <2>1. Later("received", m, s)
    BY <1>1 DEF ManualSpeaks, Clocks, m
  <2>2. ClockOf("received", m) = m.created /\ ClockOf("received", s) = s.created
    BY DEF ClockOf, Received
  <2> QED
    BY <1>4, <2>1, <2>2, LaterClock DEF FiledInv, Clocks
<1> QED
  BY <1>1, <1>4, <1>5, <1>6 DEF FiledInv

(* A person's word makes a machine wiped only while it is the last word in true time
   (rollupWipe, manualSpeaks), whatever the clocks of the stations and the queue. *)
THEOREM PeopleSpeakLast == Spec => []ManualSpeaksLast
<1>1. Init => FiledInv
  BY InitFiled
<1>2. FiledInv /\ [Next]_vars => FiledInv'
  BY NextFiled
<1>3. FiledInv => ManualSpeaksLast
  BY FiledManual
<1> QED
  BY <1>1, <1>2, <1>3, PTL DEF Spec

-----------------------------------------------------------------------------
(* What a station says of a drive *)

(* A payload, and the row made of it, are about a drive of the machine and list
   drives of it; on new sticks they say what that drive says of itself, and by
   right clocks when it was wiped. *)
Told(p) ==
  /\ p.drv \in DOMAIN world.drives
  /\ p.truth \in Nat \ {0}
  /\ p.at \in Int
  /\ p.profile \subseteq {Listing(e) : e \in DOMAIN world.drives}
  /\ world.sticks = {"new"} =>
       /\ p.drive.serial = world.drives[p.drv].serial
       /\ p.drive.model = world.drives[p.drv].model
       /\ p.drive.gb = world.drives[p.drv].gb
       /\ p.drive.wwn = world.drives[p.drv].wwn
       /\ p.drive.path \in Nat \ {0}
       /\ world.skews = {0} => p.at = p.truth

SessionOK ==
  /\ DOMAIN session.path \subseteq DOMAIN world.drives
  /\ \A d \in DOMAIN session.path : session.path[d] \in Nat \ {0}
  /\ session.skew \in world.skews /\ session.stick \in world.sticks

(* The records in the queue and on the server were told; without a way to lose an
   answer none is late, and without a web form none was typed. *)
RecordInv ==
  /\ FiledInv
  /\ world \in Worlds
  /\ SessionOK
  /\ \A p \in queue : Told(p)
  /\ \A r \in rows : r.at \in Int /\ r.at <= now + Tolerance
  /\ \A r \in rows : IF r.manual THEN r.drv = 0 ELSE Told(r)
  /\ ~world.offline => queue = {} /\ \A r \in rows : r.truth = r.created
  /\ ~world.manual => \A r \in rows : ~r.manual

LEMMA SessionsOK ==
  ASSUME world \in Worlds, NEW n, NEW s \in Sessions(n)
  PROVE  /\ DOMAIN s.path \subseteq DOMAIN world.drives
         /\ \A d \in DOMAIN s.path : s.path[d] \in Nat \ {0}
         /\ s.skew \in world.skews /\ s.stick \in world.sticks
<1> DEFINE present == {P \in SUBSET DOMAIN world.drives : P # {} /\ DOMAIN world.drives \ world.flaky \subseteq P}
<1>1. s.path \in UNION {Paths(P) : P \in present} /\ s.skew \in world.skews /\ s.stick \in world.sticks
  BY DEF Sessions
<1>2. PICK P \in present : s.path \in Paths(P)
  BY <1>1
<1>3. s.path \in [P -> 1..Cardinality(P)]
  BY <1>2 DEF Paths
<1>4. IsFiniteSet(P) /\ P \subseteq DOMAIN world.drives
  BY <1>2, WorldsAssumption, FS_Subset
<1>5. Cardinality(P) \in Nat
  BY <1>4, FS_CardinalityType
<1> QED
  BY <1>1, <1>3, <1>4, <1>5

LEMMA PayloadTold ==
  ASSUME world \in Worlds, SessionOK, now \in Nat, NEW d \in DOMAIN session.path, NEW outcome
  PROVE  Told(Payload(d, outcome)) /\ Payload(d, outcome).truth = now + 1
<1> DEFINE p == Payload(d, outcome)
<1>1. d \in DOMAIN world.drives /\ session.skew \in Int /\ session.path[d] \in Nat \ {0}
  BY WorldsAssumption DEF SessionOK
<1>2. p.drv = d /\ p.truth = now + 1
  BY DEF Payload
<1>3. p.at \in Int
  BY <1>1 DEF Payload
<1>4. p.profile \subseteq {Listing(e) : e \in DOMAIN world.drives}
  <2>1. \A e \in DOMAIN session.path : e \in DOMAIN world.drives
    BY DEF SessionOK
  <2>2. p.profile = IF session.listed THEN {Listing(e) : e \in DOMAIN session.path} ELSE {}
    BY DEF Payload
  <2> HIDE DEF p
  <2> QED
    BY <2>1, <2>2, Zenon
<1>5. ASSUME world.sticks = {"new"}
      PROVE  /\ p.drive.serial = world.drives[d].serial
             /\ p.drive.model = world.drives[d].model
             /\ p.drive.gb = world.drives[d].gb
             /\ p.drive.wwn = world.drives[d].wwn
             /\ p.drive.path \in Nat \ {0}
             /\ world.skews = {0} => p.at = p.truth
  <2>1. session.stick = "new"
    BY <1>5 DEF SessionOK
  <2>2. p.drive = [serial |-> world.drives[d].serial, model |-> world.drives[d].model,
                   gb |-> world.drives[d].gb, wwn |-> world.drives[d].wwn,
                   path |-> session.path[d]]
    BY <2>1 DEF Payload
  <2>3. p.at = now + 1 + session.skew
    BY <2>1 DEF Payload
  <2>4. world.skews = {0} => session.skew = 0
    BY DEF SessionOK
  <2> HIDE DEF p
  <2> QED
    BY <1>1, <1>2, <2>2, <2>3, <2>4
<1> HIDE DEF p
<1>6. Told(p)
  BY <1>1, <1>2, <1>3, <1>4, <1>5 DEF Told
<1> QED
  BY <1>2, <1>6 DEF p

LEMMA FiledTold ==
  ASSUME NEW p, Told(p), NEW t \in Nat, p.truth <= t
  PROVE  /\ Told(Filed(p, t))
         /\ Filed(p, t).at \in Int /\ Filed(p, t).at <= t + Tolerance
<1> DEFINE r == Filed(p, t)
<1>1. r.at = IF p.at > t + Tolerance THEN 0 ELSE p.at
  BY DEF Filed
<1>2. r.drive = p.drive /\ r.profile = p.profile /\ r.drv = p.drv /\ r.truth = p.truth
  BY DEF Filed
<1> HIDE DEF r
<1>3. r.at \in Int /\ r.at <= t + Tolerance
  BY <1>1, EpochAssumption DEF Told
<1>4. p.at = p.truth => r.at = r.truth
  BY <1>1, <1>2, EpochAssumption DEF Told
<1>5. Told(r)
  BY <1>2, <1>3, <1>4 DEF Told
<1> QED
  BY <1>3, <1>5 DEF r

LEMMA InitRecord ==
  ASSUME Init
  PROVE  RecordInv
BY InitFiled, SessionsOK, EpochAssumption DEF Init, RecordInv, SessionOK

(* A row filed of what was told, or typed, keeps what the records say true. *)
LEMMA RecordOne ==
  ASSUME RecordInv, NEW r, rows' = rows \cup {r}, FiledInv',
         now' = now + 1, world' = world, session' = session,
         r.at \in Int, r.at <= now + 1 + Tolerance,
         IF r.manual THEN r.drv = 0 ELSE Told(r),
         \A p \in queue' : Told(p),
         ~world.offline => queue' = {} /\ r.truth = r.created,
         ~world.manual => ~r.manual
  PROVE  RecordInv'
<1>1. \A p : Told(p)' <=> Told(p)
  BY DEF Told, Listing
<1>2. SessionOK' /\ world' \in Worlds
  BY DEF SessionOK, RecordInv
<1>3. \A s \in rows' : s.at \in Int /\ s.at <= now' + Tolerance
  BY EpochAssumption DEF RecordInv, FiledInv
<1>4. \A s \in rows' : IF s.manual THEN s.drv = 0 ELSE Told(s)
  BY DEF RecordInv
<1>5. ~world'.offline => queue' = {} /\ \A s \in rows' : s.truth = s.created
  BY DEF RecordInv
<1>6. ~world'.manual => \A s \in rows' : ~s.manual
  BY DEF RecordInv
<1> QED
  BY <1>1, <1>2, <1>3, <1>4, <1>5, <1>6 DEF RecordInv

LEMMA NextRecord ==
  ASSUME RecordInv, [Next]_vars
  PROVE  RecordInv'
<1>1. FiledInv'
  BY NextFiled DEF RecordInv
<1>2. now \in Nat /\ now + 1 \in Nat /\ now + 1 + Tolerance \in Nat
  BY EpochAssumption DEF RecordInv, FiledInv
<1>3. CASE UNCHANGED <<world, now, queue, rows>> /\ SessionOK'
  <2>1. \A p : Told(p)' <=> Told(p)
    BY <1>3 DEF Told, Listing
  <2> QED
    BY <1>1, <1>3, <2>1 DEF RecordInv
<1>4. CASE Boot
  BY <1>3, <1>4, SessionsOK DEF Boot, RecordInv, SessionOK
<1>5. ASSUME NEW d \in DOMAIN session.path, NEW outcome \in world.outcomes,
             NEW sent \in BOOLEAN, NEW kept \in BOOLEAN, Wipe(d, outcome, sent, kept)
      PROVE  RecordInv'
  <2>1. PICK p : p = Payload(d, outcome)
    OBVIOUS
  <2>2. Told(p) /\ p.truth = now + 1
    BY <1>2, <2>1, PayloadTold DEF RecordInv
  <2>3. \A o \in queue' : Told(o)
    BY <1>5, <2>1, <2>2 DEF Wipe, RecordInv
  <2>4. /\ now' = now + 1 /\ world' = world /\ session' = session
        /\ ~world.offline => sent /\ queue' = {}
    BY <1>5 DEF Wipe, RecordInv
  <2>5. CASE sent
    <3>1. PICK r : r = Filed(p, now + 1)
      OBVIOUS
    <3>2. rows' = rows \cup {r}
      BY <1>5, <2>1, <2>5, <3>1 DEF Wipe
    <3>3. Told(r) /\ r.at \in Int /\ r.at <= now + 1 + Tolerance
      BY <1>2, <2>2, <3>1, FiledTold
    <3>4. ~r.manual /\ r.truth = r.created
      BY <2>2, <3>1 DEF Filed
    <3> QED
      BY <1>1, <2>3, <2>4, <3>2, <3>3, <3>4, RecordOne
  <2>6. CASE ~sent
    <3>1. rows' = rows
      BY <1>5, <2>6 DEF Wipe
    <3>2. \A o : Told(o)' <=> Told(o)
      BY <2>4 DEF Told, Listing
    <3>3. SessionOK' /\ world' \in Worlds
      BY <2>4 DEF SessionOK, RecordInv
    <3>4. \A r \in rows : r.at \in Int /\ r.at <= now' + Tolerance
      BY <2>4, EpochAssumption DEF RecordInv, FiledInv
    <3>5. world.offline
      BY <2>4, <2>6
    <3> QED
      BY <1>1, <2>3, <2>4, <3>1, <3>2, <3>3, <3>4, <3>5 DEF RecordInv
  <2> QED
    BY <2>5, <2>6
<1>6. ASSUME NEW p \in queue, NEW kept \in BOOLEAN, Flush(p, kept)
      PROVE  RecordInv'
  <2>1. PICK r : r = Filed(p, now + 1)
    OBVIOUS
  <2>2. /\ rows' = rows \cup {r} /\ now' = now + 1 /\ world' = world /\ session' = session
        /\ queue' \subseteq queue
    BY <1>6, <2>1 DEF Flush
  <2>3. Told(p) /\ p.truth <= now + 1
    BY DEF RecordInv, FiledInv
  <2>4. Told(r) /\ r.at \in Int /\ r.at <= now + 1 + Tolerance
    BY <1>2, <2>1, <2>3, FiledTold
  <2>5. ~r.manual
    BY <2>1 DEF Filed
  <2>6. world.offline
    BY DEF RecordInv
  <2>7. \A o \in queue' : Told(o)
    BY <2>2 DEF RecordInv
  <2> QED
    BY <1>1, <2>2, <2>4, <2>5, <2>6, <2>7, RecordOne
<1>7. ASSUME NEW word \in {"wiped", "failed"}, RecordManually(word)
      PROVE  RecordInv'
  <2>1. PICK r : r = [id |-> Cardinality(rows) + 1, created |-> now + 1, manual |-> TRUE,
                      status |-> word, method |-> 1, at |-> 0, drive |-> Unknown,
                      profile |-> {}, drv |-> 0, truth |-> now + 1]
    OBVIOUS
  <2>2. /\ rows' = rows \cup {r} /\ now' = now + 1 /\ queue' = queue
        /\ world' = world /\ session' = session /\ world.manual
    BY <1>7, <2>1 DEF RecordManually
  <2>3. r.manual /\ r.at = 0 /\ r.drv = 0 /\ r.truth = r.created
    BY <2>1
  <2>4. r.at \in Int /\ r.at <= now + 1 + Tolerance
    BY <1>2, <2>3
  <2>5. (\A o \in queue' : Told(o)) /\ (~world.offline => queue' = {})
    BY <2>2 DEF RecordInv
  <2> QED
    BY <1>1, <2>2, <2>3, <2>4, <2>5, RecordOne
<1>8. CASE UNCHANGED vars
  BY <1>3, <1>8 DEF vars, RecordInv, SessionOK
<1> QED
  BY <1>4, <1>5, <1>6, <1>7, <1>8 DEF Next

-----------------------------------------------------------------------------
(* The latest of some records *)

LEMMA MaxInt ==
  ASSUME NEW T, T \subseteq Int, T # {}, NEW b \in Int, \A x \in T : x <= b
  PROVE  \E x \in T : \A y \in T : y <= x
<1> DEFINE U == {b - x : x \in T}
<1>1. U \subseteq Nat /\ U # {}
  <2>1. \A x \in T : b - x \in Nat
    OBVIOUS
  <2> QED
    BY <2>1
<1>2. PICK u \in U : \A v \in U : u <= v
  BY <1>1, LeastNat
<1>3. PICK x \in T : u = b - x
  BY <1>2
<1>4. \A y \in T : b - x <= b - y
  BY <1>2, <1>3
<1> QED
  BY <1>4

(* Some record is the latest of any there are: no two were received at once. *)
LEMMA LatestIs ==
  ASSUME RecordInv, NEW c \in Clocks, NEW S, S \subseteq rows, S # {}
  PROVE  /\ LatestOf(c, S) \in S
         /\ \A s \in S \ {LatestOf(c, S)} : Later(c, LatestOf(c, S), s)
<1> DEFINE B == now + Tolerance
<1>1. \A r \in S : r.created \in Nat /\ r.created <= B /\ Station(r) \in Int /\ Station(r) <= B
  BY EpochAssumption DEF RecordInv, FiledInv, Station
<1>2. \A r, s \in S : r.created = s.created => r = s
  BY DEF RecordInv, FiledInv
<1>3. B \in Int
  BY EpochAssumption DEF RecordInv, FiledInv
<1> HIDE DEF B
<1> SUFFICES \E r \in S : \A s \in S \ {r} : Later(c, r, s)
  BY DEF LatestOf
<1>4. CASE c = "received"
  <2>1. PICK x \in {r.created : r \in S} : \A y \in {r.created : r \in S} : y <= x
    <3> DEFINE T == {r.created : r \in S}
    <3>1. T \subseteq Int /\ T # {} /\ \A y \in T : y <= B
      BY <1>1
    <3> HIDE DEF T
    <3>2. \E x \in T : \A y \in T : y <= x
      BY <1>3, <3>1, MaxInt
    <3> QED
      BY <3>2 DEF T
  <2>2. PICK r \in S : x = r.created
    BY <2>1
  <2>3. ASSUME NEW s \in S \ {r} PROVE Later(c, r, s)
    <3>1. s.created <= r.created /\ s.created # r.created
      BY <1>2, <2>1, <2>2
    <3> QED
      BY <1>1, <1>4, <3>1 DEF Later, LexGreater, ClockOf, Received
  <2> QED
    BY <2>3
<1>5. CASE c = "station"
  <2> DEFINE T == {Station(r) : r \in S}
  <2>1. PICK x \in T : \A y \in T : y <= x
    <3>1. T \subseteq Int /\ T # {} /\ \A y \in T : y <= B
      BY <1>1
    <3> HIDE DEF T
    <3> QED
      BY <1>3, <3>1, MaxInt
  <2> DEFINE First == {r \in S : Station(r) = x}
             R == {r.created : r \in First}
  <2>2. First # {}
    BY <2>1
  <2>3. PICK z \in R : \A y \in R : y <= z
    <3>1. R \subseteq Int /\ R # {} /\ \A y \in R : y <= B
      BY <1>1, <2>2
    <3> HIDE DEF R
    <3> QED
      BY <1>3, <3>1, MaxInt
  <2>4. PICK r \in First : z = r.created
    BY <2>3
  <2>5. ASSUME NEW s \in S \ {r} PROVE Later(c, r, s)
    <3>1. Station(s) <= Station(r)
      BY <2>1, <2>4
    <3>2. Station(s) = Station(r) => s.created < r.created
      BY <1>1, <1>2, <2>3, <2>4
    <3>3. Station(s) \in Int /\ Station(r) \in Int
      BY <1>1, <2>4
    <3>4. CASE Station(s) < Station(r)
      BY <1>5, <3>3, <3>4 DEF Later, LexGreater, ClockOf
    <3>5. CASE Station(s) = Station(r)
      BY <1>1, <1>5, <3>2, <3>5 DEF Later, LexGreater, ClockOf, Received
    <3> QED
      BY <3>1, <3>3, <3>4, <3>5
  <2> QED
    BY <2>4, <2>5
<1> QED
  BY <1>4, <1>5 DEF Clocks

-----------------------------------------------------------------------------
(* Machines whose drives name themselves *)

(* Every drive reports a serial of its own, on a stick that passes it on. *)
Named ==
  /\ world.sticks = {"new"}
  /\ \A d \in DOMAIN world.drives : world.drives[d].serial # 0
  /\ \A d, e \in DOMAIN world.drives : world.drives[d].serial = world.drives[e].serial => d = e

(* One of the two clocks is right. *)
Timed == ~world.offline \/ world.skews = {0}

RowsOf(d) == {r \in rows : r.drv = d}

(* A clock that is right tells when each drive was wiped. *)
LEMMA RightClock ==
  ASSUME RecordInv, Named, Timed
  PROVE  \E c \in Clocks : \A r \in rows : ~r.manual => ClockOf(c, r) = r.truth
<1>1. CASE ~world.offline
  <2>1. \A r \in rows : ClockOf("received", r) = r.truth
    BY <1>1 DEF RecordInv, ClockOf, Received
  <2> QED
    BY <2>1 DEF Clocks
<1>2. CASE world.skews = {0}
  <2>1. \A r \in rows : ~r.manual => r.at = r.truth /\ r.truth # 0
    BY <1>2 DEF RecordInv, Named, Told
  <2>2. \A r \in rows : ~r.manual => ClockOf("station", r) = r.truth
    BY <2>1 DEF ClockOf, Station
  <2> QED
    BY <2>2 DEF Clocks
<1> QED
  BY <1>1, <1>2 DEF Timed

(* On that clock, the latest of a drive's records is of its last wipe. *)
LEMMA LatestIsLast ==
  ASSUME RecordInv, Named, NEW c \in Clocks, \A r \in rows : ~r.manual => ClockOf(c, r) = r.truth,
         NEW S, S \subseteq rows, S # {}, \A r \in S : ~r.manual
  PROVE  LatestOf(c, S) \in S /\ \A s \in S : s.truth <= LatestOf(c, S).truth
<1> DEFINE l == LatestOf(c, S)
<1>1. l \in S /\ \A s \in S \ {l} : Later(c, l, s)
  BY LatestIs
<1> HIDE DEF l
<1>2. \A s \in S : ClockOf(c, s) = s.truth /\ s.truth \in Nat
  BY DEF RecordInv, FiledInv
<1>3. \A s \in S \ {l} : s.truth <= l.truth
  BY <1>1, <1>2, LaterClock
<1> QED
  BY <1>1, <1>2, <1>3 DEF l

(* What a row of such a machine says. *)
LEMMA NamedRows ==
  ASSUME RecordInv, Named, NEW r \in rows
  PROVE  /\ Identified(r) <=> ~r.manual
         /\ ~r.manual => /\ r.drv \in DOMAIN world.drives
                         /\ r.drive.serial = world.drives[r.drv].serial
                         /\ r.drive.model = world.drives[r.drv].model
                         /\ r.drive.gb = world.drives[r.drv].gb
                         /\ r.drive.wwn = world.drives[r.drv].wwn
                         /\ r.drive.path \in Nat \ {0}
                         /\ r.profile \subseteq {Listing(e) : e \in DOMAIN world.drives}
         /\ r.manual => r.drv = 0
<1>1. ~r.manual => Told(r)
  BY DEF RecordInv
<1>2. r.manual => r.drv = 0
  BY DEF RecordInv
<1> QED
  BY <1>1, <1>2 DEF Named, Told, Identified

(* The rows with a drive's serial are the rows of the drive, in one cluster. *)
LEMMA SerialRows ==
  ASSUME RecordInv, Named, NEW d \in DOMAIN world.drives
  PROVE  /\ {r \in {s \in rows : Identified(s)} : r.drive.serial = world.drives[d].serial} = RowsOf(d)
         /\ \A r \in RowsOf(d) : ~r.manual /\ r.drive.serial = world.drives[d].serial
         /\ \A r, s \in RowsOf(d) : ClusterId(r, RowsOf(d)) = ClusterId(s, RowsOf(d))
<1>1. d # 0
  BY WorldsAssumption DEF RecordInv
<1>2. \A r \in RowsOf(d) : ~r.manual
  BY <1>1, NamedRows DEF RowsOf
<1>3. \A r \in RowsOf(d) : /\ r \in rows /\ Identified(r) /\ r.drive.serial = world.drives[d].serial
                           /\ r.drive.model = world.drives[d].model
                           /\ r.drive.gb = world.drives[d].gb
                           /\ r.drive.wwn = world.drives[d].wwn
  BY <1>2, NamedRows DEF RowsOf
<1>4. \A r \in rows : Identified(r) /\ r.drive.serial = world.drives[d].serial => r.drv = d
  BY NamedRows DEF Named
<1>5. {r \in {s \in rows : Identified(s)} : r.drive.serial = world.drives[d].serial} = RowsOf(d)
  BY <1>3, <1>4 DEF RowsOf
<1>6. \A r, s \in RowsOf(d) : ClusterId(r, RowsOf(d)) = ClusterId(s, RowsOf(d))
  BY <1>3 DEF ClusterId
<1> QED
  BY <1>2, <1>3, <1>5, <1>6

-----------------------------------------------------------------------------
(* The outcome of a drive *)

LEMMA OutcomeErases ==
  ASSUME NEW S
  PROVE  /\ OutcomeFor(S).status \in {"wiped", "failed"}
         /\ OutcomeFor(S).status = "wiped" <=> \A c \in Clocks : IsErase(LatestOf(c, S))
BY DEF OutcomeFor

(* If several drives may be meant, none of the paths may have failed. *)
LEMMA PathsErase ==
  ASSUME NEW S, \A r \in S : r.drive.path \in Nat, PerPathOutcome(S).status # "failed",
         NEW r \in S
  PROVE  OutcomeFor({s \in S : s.drive.path = r.drive.path}).status = "wiped"
<1> DEFINE paths == {s.drive.path : s \in S}
           at(p) == OutcomeFor({s \in S : s.drive.path = p})
           failed == {p \in paths : at(p).status = "failed"}
<1>1. failed = {}
  <2> SUFFICES ASSUME failed # {} PROVE FALSE
    OBVIOUS
  <2>1. failed \subseteq Nat
    OBVIOUS
  <2>2. \E p \in failed : \A q \in failed : p <= q
    <3> HIDE DEF failed
    <3> QED
      BY <2>1, LeastNat
  <2>3. (CHOOSE p \in failed : \A q \in failed : p <= q) \in failed
    <3> HIDE DEF failed
    <3> QED
      BY <2>2
  <2>4. PerPathOutcome(S) = at(CHOOSE p \in failed : \A q \in failed : p <= q)
    BY DEF PerPathOutcome
  <2> QED
    BY <2>3, <2>4
<1>2. r.drive.path \in paths /\ at(r.drive.path).status # "failed"
  BY <1>1
<1> QED
  BY <1>2, OutcomeErases

(* A drive whose cluster did not fail was erased by its last wipe. *)
LEMMA ClusterErased ==
  ASSUME RecordInv, Named, Timed, NEW d \in DOMAIN world.drives, NEW r \in RowsOf(d), NEW listed,
         ClusterOutcome(ClusterId(r, RowsOf(d)), RowsOf(d), listed).status # "failed"
  PROVE  Erased(d)
<1> DEFINE mine == RowsOf(d)
           id == ClusterId(r, mine)
<1>1. PICK c \in Clocks : \A s \in rows : ~s.manual => ClockOf(c, s) = s.truth
  BY RightClock
<1>2. mine \subseteq rows /\ mine # {} /\ \A s \in mine : ~s.manual
  BY SerialRows DEF RowsOf
<1>3. {s \in mine : ClusterId(s, mine) = id} = mine
  BY SerialRows
<1>4. \A S \in SUBSET mine : S # {} => LatestOf(c, S) \in S /\ \A s \in S : s.truth <= LatestOf(c, S).truth
  BY <1>1, <1>2, LatestIsLast
<1>5. ASSUME NEW l \in mine, IsErase(l), \A s \in mine : s.truth <= l.truth PROVE Erased(d)
  BY <1>5 DEF Erased, RowsOf
<1>6. CASE KnownOne(id, listed)
  <2>1. OutcomeFor(mine).status # "failed"
    BY <1>3, <1>6 DEF ClusterOutcome
  <2>2. IsErase(LatestOf(c, mine))
    BY <2>1, OutcomeErases
  <2> QED
    BY <1>2, <1>4, <1>5, <2>2
<1>7. CASE ~KnownOne(id, listed)
  <2>1. PerPathOutcome(mine).status # "failed"
    BY <1>3, <1>7 DEF ClusterOutcome
  <2>2. \A s \in mine : s.drive.path \in Nat
    BY <1>2, NamedRows
  <2>3. PICK l : l = LatestOf(c, mine)
    OBVIOUS
  <2>4. l \in mine /\ \A s \in mine : s.truth <= l.truth
    BY <1>2, <1>4, <2>3
  <2>5. PICK S : S = {s \in mine : s.drive.path = l.drive.path}
    OBVIOUS
  <2>6. S \in SUBSET mine /\ l \in S
    BY <2>4, <2>5
  <2>7. IsErase(LatestOf(c, S))
    <3>1. OutcomeFor({s \in mine : s.drive.path = l.drive.path}).status = "wiped"
      <4> HIDE DEF mine
      <4> QED
        BY <2>1, <2>2, <2>4, PathsErase
    <3> QED
      BY <2>5, <3>1, OutcomeErases
  <2>8. LatestOf(c, S) \in mine /\ l.truth <= LatestOf(c, S).truth
    BY <1>4, <2>6
  <2>9. \A s \in mine : s.truth \in Nat
    BY <1>2 DEF RecordInv, FiledInv
  <2>10. \A s \in mine : s.truth <= LatestOf(c, S).truth
    BY <2>4, <2>8, <2>9
  <2> QED
    BY <1>5, <2>7, <2>8, <2>10
<1> QED
  BY <1>6, <1>7

-----------------------------------------------------------------------------
(* The drives a machine is expected to have *)

Lists(e) == {r \in rows : Identified(r) /\ r.profile # {} /\ e \in r.profile}

(* A list has a drive of a serial at most once. *)
LEMMA OfOneType ==
  ASSUME RecordInv, Named, NEW d \in DOMAIN world.drives, NEW r \in rows, Identified(r)
  PROVE  OfType(ExpectedType(Listing(d)), r) = IF Listing(d) \in r.profile THEN {Listing(d)} ELSE {}
<1>1. r.profile \subseteq {Listing(e) : e \in DOMAIN world.drives}
  BY NamedRows
<1>2. InternalDrives(r.profile) = r.profile
  BY <1>1 DEF InternalDrives, Listing
<1>3. \A e \in DOMAIN world.drives : ExpectedType(Listing(e)) = <<"serial", world.drives[e].serial, 0>>
  BY DEF ExpectedType, Listing, Named
<1>4. \A e \in DOMAIN world.drives : ExpectedType(Listing(e)) = ExpectedType(Listing(d)) <=> e = d
  BY <1>3 DEF Named
<1> QED
  BY <1>1, <1>2, <1>4 DEF OfType

(* The drives a machine is expected to have are the drives some record lists. *)
LEMMA Expected ==
  ASSUME RecordInv, Named
  PROVE  /\ ExpectedDrives(rows) \subseteq {Listing(e) : e \in DOMAIN world.drives}
         /\ \A d \in DOMAIN world.drives :
              Listing(d) \in ExpectedDrives(rows) <=> Lists(Listing(d)) # {}
<1> DEFINE listing == {r \in rows : Identified(r) /\ r.profile # {}}
           types == {ExpectedType(e) : e \in UNION {InternalDrives(r.profile) : r \in listing}}
           most(t) == {r \in listing : \A s \in listing :
                         Cardinality(OfType(t, s)) <= Cardinality(OfType(t, r))}
<1>1. ExpectedDrives(rows) = UNION {OfType(t, LatestOf("station", most(t))) : t \in types}
  BY DEF ExpectedDrives
<1>2. \A r \in listing : /\ r \in rows /\ Identified(r)
                         /\ InternalDrives(r.profile) = r.profile
                         /\ r.profile \subseteq {Listing(e) : e \in DOMAIN world.drives}
  BY NamedRows DEF InternalDrives, Listing
<1>3. \A t \in types : \E d \in DOMAIN world.drives : t = ExpectedType(Listing(d)) /\ Lists(Listing(d)) # {}
  BY <1>2 DEF Lists
<1>4. ASSUME NEW d \in DOMAIN world.drives, Lists(Listing(d)) # {}
      PROVE  /\ ExpectedType(Listing(d)) \in types
             /\ OfType(ExpectedType(Listing(d)), LatestOf("station", most(ExpectedType(Listing(d)))))
                  = {Listing(d)}
  <2> DEFINE e == Listing(d)
             t == ExpectedType(e)
  <2>1. PICK r \in listing : e \in r.profile
    BY <1>4 DEF Lists
  <2>2. t \in types
    BY <1>2, <2>1
  <2>3. \A s \in listing : OfType(t, s) = IF e \in s.profile THEN {e} ELSE {}
    BY <1>2, OfOneType
  <2>4. Cardinality({e}) = 1 /\ Cardinality({}) = 0
    BY FS_Singleton, FS_EmptySet
  <2> HIDE DEF e, t
  <2>5. \A s \in listing : Cardinality(OfType(t, s)) = IF e \in s.profile THEN 1 ELSE 0
    BY <2>3, <2>4
  <2>6. r \in most(t)
    BY <2>1, <2>5
  <2>7. LatestOf("station", most(t)) \in most(t)
    <3>1. most(t) \subseteq rows /\ most(t) # {}
      BY <2>6
    <3> HIDE DEF most
    <3> QED
      BY <3>1, LatestIs DEF Clocks
  <2>8. \A s \in most(t) : e \in s.profile
    BY <2>1, <2>5
  <2>9. OfType(t, LatestOf("station", most(t))) = {e}
    BY <2>3, <2>7, <2>8
  <2> QED
    BY <2>2, <2>9 DEF e, t
<1>5. ExpectedDrives(rows) = {Listing(d) : d \in {e \in DOMAIN world.drives : Lists(Listing(e)) # {}}}
  <2> HIDE DEF types, most
  <2> QED
    BY <1>1, <1>3, <1>4
<1>6. \A d, e \in DOMAIN world.drives : Listing(d) = Listing(e) => d = e
  BY DEF Listing
<1> QED
  BY <1>5, <1>6

(* So a serial is expected once, or not at all. *)
LEMMA ListedOf ==
  ASSUME RecordInv, Named, NEW d \in DOMAIN world.drives
  PROVE  {e \in ExpectedDrives(rows) : e.serial = world.drives[d].serial}
           = IF Lists(Listing(d)) # {} THEN {Listing(d)} ELSE {}
<1>1. \A e \in DOMAIN world.drives : Listing(e).serial = world.drives[e].serial
  BY DEF Listing
<1>2. \A e \in DOMAIN world.drives : Listing(e).serial = world.drives[d].serial <=> e = d
  BY <1>1 DEF Named
<1> QED
  BY <1>2, Expected

-----------------------------------------------------------------------------
(* The match of the listed drives with the records *)

LEMMA SeqsOfNone == SetToSeqs({}) = {<< >>}
<1>1. Cardinality({}) = 0
  BY FS_EmptySet
<1>2. << >> \in [1..0 -> {}] /\ \A f \in [1..0 -> {}] : f = << >>
  OBVIOUS
<1>3. SetToSeqs({}) = {f \in [1..0 -> {}] : \A i, j \in 1..0 : i # j => f[i] # f[j]}
  BY <1>1 DEF SetToSeqs
<1>4. \A i \in 1..0 : FALSE
  OBVIOUS
<1> QED
  BY <1>2, <1>3, <1>4

LEMMA SeqsOfOne ==
  ASSUME NEW e
  PROVE  SetToSeqs({e}) = {<<e>>}
<1>1. Cardinality({e}) = 1
  BY FS_Singleton
<1>2. <<e>> \in [1..1 -> {e}] /\ \A f \in [1..1 -> {e}] : f = <<e>>
  OBVIOUS
<1>3. SetToSeqs({e}) = {f \in [1..1 -> {e}] : \A i, j \in 1..1 : i # j => f[i] # f[j]}
  BY <1>1 DEF SetToSeqs
<1>4. \A i, j \in 1..1 : i = j
  OBVIOUS
<1> QED
  BY <1>2, <1>3, <1>4

(* With no drive listed none is missing. *)
LEMMA NoneListed ==
  ASSUME NEW C
  PROVE  MissingDrives(C, {}) = {}
<1> DEFINE base == [used |-> {}, missing |-> {}]
           order == CHOOSE o \in SetToSeqs({}) : \A i, j \in DOMAIN o : i < j =>
              LexGreater(<<ExpectedType(o[j])[2], ExpectedType(o[j])[3], o[j].slot>>,
                         <<ExpectedType(o[i])[2], ExpectedType(o[i])[3], o[i].slot>>)
           fits(e, id) == (e.serial # 0 /\ Cardinality({}) = 1) \/ Fits(e, id)
           before(i, j) == LexGreater(<<j.model, j.gb, j.wwn>>, <<i.model, i.gb, i.wwn>>)
           match(acc, e) ==
             LET free == {id \in C \ acc.used : fits(e, id)}
             IN  IF free = {}
                   THEN [acc EXCEPT !.missing = @ \cup {e}]
                   ELSE [acc EXCEPT !.used = @ \cup
                           {CHOOSE id \in free : \A j \in free \ {id} : before(id, j)}]
           I(f) == f = [s \in SUBSET {} |-> IF s = {} THEN base ELSE match(f[s \ {Max(s)}], order[Max(s)])]
<1>1. order = << >>
  BY SeqsOfNone
<1>2. MissingDrives(C, {}) = FoldLeft(match, base, order).missing
  BY DEF MissingDrives
<1> HIDE DEF order, match
<1>3. DOMAIN order = {}
  BY <1>1
<1>4. PICK f : f = (CHOOSE g : I(g))
  OBVIOUS
<1>5. FoldLeft(match, base, order) = f[{}]
  BY <1>3, <1>4 DEF FoldLeft, MapThenFoldSet
<1>6. I([s \in SUBSET {} |-> base])
  OBVIOUS
<1>7. I(f)
  BY <1>4, <1>6
<1>8. f[{}] = base
  BY <1>7
<1> QED
  BY <1>2, <1>5, <1>8

(* A drive listed alone is missing when there is no record at all; by its serial, any
   record of that serial will do. *)
LEMMA OneListed ==
  ASSUME NEW C, NEW e
  PROVE  /\ C = {} => MissingDrives(C, {e}) = {e}
         /\ C # {} /\ e.serial # 0 => MissingDrives(C, {e}) = {}
<1> DEFINE base == [used |-> {}, missing |-> {}]
           order == CHOOSE o \in SetToSeqs({e}) : \A i, j \in DOMAIN o : i < j =>
              LexGreater(<<ExpectedType(o[j])[2], ExpectedType(o[j])[3], o[j].slot>>,
                         <<ExpectedType(o[i])[2], ExpectedType(o[i])[3], o[i].slot>>)
           fits(d, id) == (d.serial # 0 /\ Cardinality({e}) = 1) \/ Fits(d, id)
           before(i, j) == LexGreater(<<j.model, j.gb, j.wwn>>, <<i.model, i.gb, i.wwn>>)
           match(acc, d) ==
             LET free == {id \in C \ acc.used : fits(d, id)}
             IN  IF free = {}
                   THEN [acc EXCEPT !.missing = @ \cup {d}]
                   ELSE [acc EXCEPT !.used = @ \cup
                           {CHOOSE id \in free : \A j \in free \ {id} : before(id, j)}]
           I(f) == f = [s \in SUBSET {1} |-> IF s = {} THEN base ELSE match(f[s \ {Max(s)}], order[Max(s)])]
<1>1. order = <<e>>
  <2>1. order = CHOOSE o \in {<<e>>} : \A i, j \in DOMAIN o : i < j =>
              LexGreater(<<ExpectedType(o[j])[2], ExpectedType(o[j])[3], o[j].slot>>,
                         <<ExpectedType(o[i])[2], ExpectedType(o[i])[3], o[i].slot>>)
    BY SeqsOfOne
  <2>2. \A i, j \in DOMAIN <<e>> : ~(i < j)
    OBVIOUS
  <2> QED
    BY <2>1, <2>2
<1>2. MissingDrives(C, {e}) = FoldLeft(match, base, order).missing
  BY DEF MissingDrives
<1>3. match(base, e).missing = IF {id \in C : fits(e, id)} = {} THEN {e} ELSE {}
  OBVIOUS
<1>4. C # {} /\ e.serial # 0 => {id \in C : fits(e, id)} # {}
  BY FS_Singleton
<1> HIDE DEF order, match, fits
<1>5. DOMAIN order = {1} /\ order[1] = e
  BY <1>1
<1>6. PICK f : f = (CHOOSE g : I(g))
  OBVIOUS
<1>7. FoldLeft(match, base, order) = f[{1}]
  BY <1>5, <1>6 DEF FoldLeft, MapThenFoldSet
<1>8. Max({1}) = 1
  BY DEF Max
<1>9. I([s \in SUBSET {1} |-> IF s = {} THEN base ELSE match(base, e)])
  <2> DEFINE g == [s \in SUBSET {1} |-> IF s = {} THEN base ELSE match(base, e)]
  <2>1. \A s \in SUBSET {1} : s = {} \/ s = {1}
    OBVIOUS
  <2>2. {1} \ {1} = {} /\ g[{}] = base
    OBVIOUS
  <2>3. \A s \in SUBSET {1} : g[s] = IF s = {} THEN base ELSE match(g[s \ {Max(s)}], order[Max(s)])
    <3> TAKE s \in SUBSET {1}
    <3>1. CASE s = {}
      BY <3>1
    <3>2. CASE s = {1}
      <4>1. s \ {Max(s)} = {} /\ order[Max(s)] = e
        BY <1>5, <1>8, <3>2
      <4>2. g[s] = match(base, e)
        BY <3>2
      <4> QED
        BY <2>2, <3>2, <4>1, <4>2
    <3> QED
      BY <2>1, <3>1, <3>2
  <2> HIDE DEF base
  <2> QED
    BY <2>3
<1>10. I(f)
  BY <1>6, <1>9
<1>11. f[{1}] = match(base, e)
  <2>1. {1} # {} /\ {1} \in SUBSET {1} /\ {} \in SUBSET {1} /\ {1} \ {1} = {}
    OBVIOUS
  <2>2. f[{}] = base
    BY <1>10, <2>1
  <2>3. f[{1}] = match(f[{1} \ {Max({1})}], order[Max({1})])
    BY <1>10, <2>1
  <2> QED
    BY <1>5, <1>8, <2>1, <2>2, <2>3
<1> QED
  BY <1>2, <1>3, <1>4, <1>7, <1>11

-----------------------------------------------------------------------------
(* The verdict *)

SerialOf(d) == world.drives[d].serial

ExpectedOf(d) == {e \in ExpectedDrives(rows) : e.serial = SerialOf(d)}

OutcomesOf(d) ==
  {ClusterOutcome(id, RowsOf(d), ExpectedOf(d)) : id \in Clusters(RowsOf(d))}
    \cup {[status |-> "missing", drive |-> e] : e \in MissingDrives(Clusters(RowsOf(d)), ExpectedOf(d))}

(* The outcomes of a machine are those of its drives on record, one by one. *)
LEMMA OneByOne ==
  ASSUME RecordInv, Named
  PROVE  PerDrive({r \in rows : Identified(r)}, ExpectedDrives(rows))
           = UNION {OutcomesOf(d) : d \in {e \in DOMAIN world.drives : RowsOf(e) # {} \/ ExpectedOf(e) # {}}}
<1> DEFINE identified == {r \in rows : Identified(r)}
           expected == ExpectedDrives(rows)
           rowsOf(s) == {r \in identified : r.drive.serial = s}
           listedOf(s) == {e \in expected : e.serial = s}
           serials == {r.drive.serial : r \in identified} \cup {e.serial : e \in expected}
           of(s) == {ClusterOutcome(id, rowsOf(s), listedOf(s)) : id \in Clusters(rowsOf(s))}
                      \cup {[status |-> "missing", drive |-> e] :
                              e \in MissingDrives(Clusters(rowsOf(s)), listedOf(s))}
           known == {e \in DOMAIN world.drives : RowsOf(e) # {} \/ ExpectedOf(e) # {}}
<1>1. PerDrive(identified, expected) = UNION {of(s) : s \in serials}
  BY DEF PerDrive
<1>2. \A d \in DOMAIN world.drives :
        rowsOf(SerialOf(d)) = RowsOf(d) /\ listedOf(SerialOf(d)) = ExpectedOf(d)
  BY SerialRows DEF SerialOf, ExpectedOf
<1>3. \A d \in DOMAIN world.drives : of(SerialOf(d)) = OutcomesOf(d)
  <2> TAKE d \in DOMAIN world.drives
  <2> HIDE DEF rowsOf, listedOf
  <2> QED
    BY <1>2 DEF OutcomesOf
<1>4. serials = {SerialOf(d) : d \in known}
  <2>1. ASSUME NEW d \in known PROVE SerialOf(d) \in serials
    <3>1. rowsOf(SerialOf(d)) # {} \/ listedOf(SerialOf(d)) # {}
      BY <1>2
    <3> QED
      BY <3>1
  <2>2. ASSUME NEW r \in identified PROVE \E d \in known : r.drive.serial = SerialOf(d)
    BY NamedRows DEF RowsOf, SerialOf
  <2>3. ASSUME NEW e \in expected PROVE \E d \in known : e.serial = SerialOf(d)
    <3>1. PICK d \in DOMAIN world.drives : e = Listing(d)
      BY Expected
    <3>2. e.serial = SerialOf(d)
      BY <3>1 DEF Listing, SerialOf
    <3>3. e \in ExpectedOf(d)
      BY <3>2 DEF ExpectedOf
    <3> QED
      BY <3>2, <3>3
  <2> HIDE DEF known, identified, expected
  <2> QED
    BY <2>1, <2>2, <2>3
<1> HIDE DEF of, serials, known
<1>5. UNION {of(s) : s \in serials} = UNION {OutcomesOf(d) : d \in known}
  <2>1. \A d \in known : d \in DOMAIN world.drives
    BY DEF known
  <2> QED
    BY <1>3, <1>4, <2>1
<1> QED
  BY <1>1, <1>5 DEF known

LEMMA WorstWiped ==
  ASSUME NEW D
  PROVE  Worst(D).verdict = "wiped" <=> \A d \in D : d.status # "failed" /\ d.status # "missing"
BY DEF Worst, Result

(* A machine certified by its drives: none failed, none is missing, some record
   listed them. *)
LEMMA DriveVerdict ==
  ASSUME NEW rws, RollupWipe(rws).verdict = "wiped", RollupWipe(rws).basis = "drives"
  PROVE  /\ ExpectationKnown(rws, ExpectedDrives(rws))
         /\ \A d \in PerDrive({r \in rws : Identified(r)}, ExpectedDrives(rws)) :
              d.status # "failed" /\ d.status # "missing"
<1>1. RollupWipe(rws) = DriveRollup(rws)
  <2>1. LegacyRollup(rws).basis = "legacy"
    BY DEF LegacyRollup, Result
  <2>2. \A a, b, c : DriveResult(a, b, "manual", c).basis = "manual"
    BY DEF DriveResult, Result
  <2>3. rws # {}
    BY DEF RollupWipe, Result
  <2> QED
    BY <2>1, <2>2, <2>3 DEF RollupWipe
<1> DEFINE perDrive == PerDrive({r \in rws : Identified(r)}, ExpectedDrives(rws))
           late == LateLegacy(rws)
           drives == perDrive \cup (IF late = {} THEN {} ELSE {OutcomeFor(late)})
           expected == ExpectedDrives(rws)
<1>2. DriveRollup(rws) =
        IF ~ExpectationKnown(rws, expected) /\ Worst(drives).verdict = "wiped"
          THEN Result("incomplete", "unverifiable", "drives", Worst(drives).sources)
          ELSE Worst(drives)
  BY DEF DriveRollup
<1>3. ExpectationKnown(rws, expected) /\ Worst(drives).verdict = "wiped"
  <2> HIDE DEF drives, expected
  <2> QED
    BY <1>1, <1>2 DEF Result
<1>4. \A d \in drives : d.status # "failed" /\ d.status # "missing"
  BY <1>3, WorstWiped
<1> QED
  BY <1>3, <1>4

(* The truth of a certified machine: a drive with records was last erased, since its
   cluster did not fail; one that is only listed would be missing. *)
LEMMA RecordsCertify ==
  ASSUME RecordInv, Named, Timed
  PROVE  CertifiedDrivesErased
<1> SUFFICES ASSUME RollupWipe(rows).verdict = "wiped", RollupWipe(rows).basis = "drives"
             PROVE  /\ \E r \in rows : Identified(r) /\ r.profile # {}
                    /\ \A d \in Seen : Erased(d)
  BY DEF CertifiedDrivesErased
<1> DEFINE known == {e \in DOMAIN world.drives : RowsOf(e) # {} \/ ExpectedOf(e) # {}}
<1>1. ExpectationKnown(rows, ExpectedDrives(rows))
  BY DriveVerdict
<1>2. \A d \in known : \A o \in OutcomesOf(d) : o.status # "failed" /\ o.status # "missing"
  BY DriveVerdict, OneByOne
<1>3. \E r \in rows : Identified(r) /\ r.profile # {}
  <2>1. CASE ExpectedDrives(rows) # {}
    BY <2>1, Expected DEF Lists
  <2> QED
    BY <1>1, <2>1 DEF ExpectationKnown
<1>4. ASSUME NEW d \in DOMAIN world.drives, RowsOf(d) # {} PROVE Erased(d)
  <2>1. PICK r \in RowsOf(d) : TRUE
    BY <1>4
  <2>2. ClusterOutcome(ClusterId(r, RowsOf(d)), RowsOf(d), ExpectedOf(d)) \in OutcomesOf(d)
    BY <2>1 DEF OutcomesOf, Clusters
  <2>3. ClusterOutcome(ClusterId(r, RowsOf(d)), RowsOf(d), ExpectedOf(d)).status # "failed"
    BY <1>2, <1>4, <2>2
  <2> QED
    BY <2>1, <2>3, ClusterErased
<1>5. ASSUME NEW d \in DOMAIN world.drives, Lists(Listing(d)) # {} PROVE RowsOf(d) # {}
  <2> SUFFICES ASSUME RowsOf(d) = {} PROVE FALSE
    OBVIOUS
  <2>1. ExpectedOf(d) = {Listing(d)}
    BY <1>5, ListedOf DEF ExpectedOf, SerialOf
  <2>2. Clusters(RowsOf(d)) = {}
    BY DEF Clusters
  <2>3. MissingDrives(Clusters(RowsOf(d)), ExpectedOf(d)) = {Listing(d)}
    BY <2>1, <2>2, OneListed
  <2>4. [status |-> "missing", drive |-> Listing(d)] \in OutcomesOf(d)
    BY <2>3 DEF OutcomesOf
  <2>5. d \in known
    BY <2>1
  <2>6. [status |-> "missing", drive |-> Listing(d)].status = "missing"
    OBVIOUS
  <2> QED
    BY <1>2, <2>4, <2>5, <2>6
<1>6. ASSUME NEW r \in rows, Identified(r) PROVE Erased(r.drv)
  <2>1. r.drv \in DOMAIN world.drives /\ RowsOf(r.drv) # {}
    BY <1>6, NamedRows DEF RowsOf
  <2> QED
    BY <1>4, <2>1
<1>7. ASSUME NEW r \in rows, Identified(r), NEW e \in r.profile PROVE Erased(e.slot)
  <2>1. PICK d \in DOMAIN world.drives : e = Listing(d)
    BY <1>7, NamedRows
  <2>2. e.slot = d /\ Lists(Listing(d)) # {}
    BY <1>7, <2>1 DEF Listing, Lists
  <2> QED
    BY <1>4, <1>5, <2>2
<1>8. \A d \in Seen : Erased(d)
  BY <1>6, <1>7 DEF Seen
<1> QED
  BY <1>3, <1>8

(* Without a queue and by right clocks, the latest record on both is the last wipe. *)
LEMMA LastOutcome ==
  ASSUME RecordInv, Named, Plain, NEW d \in DOMAIN world.drives, RowsOf(d) # {}, Erased(d)
  PROVE  OutcomeFor(RowsOf(d)).status = "wiped"
<1>1. RowsOf(d) \subseteq rows /\ \A r \in RowsOf(d) : ~r.manual
  BY SerialRows DEF RowsOf
<1>2. \A r \in rows : r.truth = r.created /\ r.created \in Nat
  BY DEF RecordInv, FiledInv, Plain
<1>3. \A r \in rows : ~r.manual => ClockOf("received", r) = r.truth /\ ClockOf("station", r) = r.truth
  <2>1. \A r \in rows : ~r.manual => r.at = r.truth /\ r.truth # 0
    BY DEF RecordInv, Named, Told, Plain
  <2> QED
    BY <1>2, <2>1 DEF ClockOf, Station, Received
<1>4. PICK e \in rows : e.drv = d /\ IsErase(e) /\ \A s \in rows : s.drv = d => s.truth <= e.truth
  BY DEF Erased
<1>5. ASSUME NEW c \in Clocks PROVE IsErase(LatestOf(c, RowsOf(d)))
  <2>1. \A r \in rows : ~r.manual => ClockOf(c, r) = r.truth
    BY <1>3 DEF Clocks
  <2>2. PICK l : l = LatestOf(c, RowsOf(d))
    OBVIOUS
  <2>3. l \in RowsOf(d) /\ \A s \in RowsOf(d) : s.truth <= l.truth
    BY <1>1, <2>1, <2>2, LatestIsLast
  <2>4. l \in rows /\ l.truth <= e.truth /\ e.truth <= l.truth
    BY <1>4, <2>3 DEF RowsOf
  <2>5. l.created = e.created
    BY <1>2, <1>4, <2>4
  <2>6. l = e
    BY <1>4, <2>4, <2>5 DEF RecordInv, FiledInv
  <2> QED
    BY <1>4, <2>2, <2>6
<1> QED
  BY <1>5, OutcomeErases

(* Nothing is withheld: every drive is one cluster, known to be one drive, and whose
   latest record erased it; and it takes the place it has in the list. *)
LEMMA PlainCertifies ==
  ASSUME RecordInv, Named
  PROVE  EveryErasureCounts
<1> SUFFICES ASSUME Plain, Seen # {}, \A d \in Seen : Erased(d),
                    \E r \in rows : Identified(r) /\ r.profile # {}
             PROVE  RollupWipe(rows).verdict = "wiped"
  BY DEF EveryErasureCounts, Certified
<1> DEFINE identified == {r \in rows : Identified(r)}
           expected == ExpectedDrives(rows)
           known == {e \in DOMAIN world.drives : RowsOf(e) # {} \/ ExpectedOf(e) # {}}
<1>1. \A r \in rows : ~r.manual /\ Identified(r)
  BY NamedRows DEF RecordInv, Plain
<1>2. RollupWipe(rows) = DriveRollup(rows)
  <2>1. rows # {} /\ identified # {}
    OBVIOUS
  <2>2. ~ManualSpeaks(rows)
    BY <1>1 DEF ManualSpeaks
  <2> QED
    BY <2>1, <2>2 DEF RollupWipe
<1>3. LateLegacy(rows) = {}
  BY <1>1 DEF LateLegacy
<1>4. \A r \in rows : r.drv \in Seen /\ \A e \in r.profile : e.slot \in Seen
  BY <1>1 DEF Seen
<1>5. ASSUME NEW d \in known, NEW o \in OutcomesOf(d) PROVE o.status = "wiped"
  <2>1. d \in DOMAIN world.drives
    OBVIOUS
  <2>2. ExpectedOf(d) = {} \/ (ExpectedOf(d) = {Listing(d)} /\ Lists(Listing(d)) # {})
    BY <2>1, ListedOf DEF ExpectedOf, SerialOf
  <2>3. Lists(Listing(d)) # {} => d \in Seen
    BY <1>4 DEF Lists, Listing
  <2>4. RowsOf(d) # {}
    <3>1. ASSUME ExpectedOf(d) # {} PROVE RowsOf(d) # {}
      BY <2>2, <2>3, <3>1 DEF Erased, RowsOf
    <3> QED
      BY <3>1
  <2>5. Erased(d)
    BY <1>4, <2>4 DEF RowsOf
  <2>6. OutcomeFor(RowsOf(d)).status = "wiped"
    BY <2>1, <2>4, <2>5, LastOutcome
  <2>7. MissingDrives(Clusters(RowsOf(d)), ExpectedOf(d)) = {}
    <3>1. Clusters(RowsOf(d)) # {}
      BY <2>4 DEF Clusters
    <3>2. Listing(d).serial # 0
      BY <2>1 DEF Listing, Named
    <3> QED
      BY <2>2, <3>1, <3>2, NoneListed, OneListed
  <2>8. ASSUME NEW id \in Clusters(RowsOf(d))
        PROVE  ClusterOutcome(id, RowsOf(d), ExpectedOf(d)) = OutcomeFor(RowsOf(d))
    <3>1. PICK r \in RowsOf(d) : id = ClusterId(r, RowsOf(d))
      BY DEF Clusters
    <3>2. {s \in RowsOf(d) : ClusterId(s, RowsOf(d)) = id} = RowsOf(d)
      BY <2>1, <3>1, SerialRows
    <3>3. id.serial # 0
      BY <2>1, <3>1, SerialRows DEF ClusterId, Named
    <3>4. Cardinality(ExpectedOf(d)) <= 1
      <4>1. Cardinality({Listing(d)}) = 1 /\ Cardinality({}) = 0
        BY FS_Singleton, FS_EmptySet
      <4> QED
        BY <2>2, <4>1
    <3>5. KnownOne(id, ExpectedOf(d))
      BY <3>3, <3>4 DEF KnownOne
    <3> QED
      BY <3>2, <3>5 DEF ClusterOutcome
  <2> QED
    BY <2>6, <2>7, <2>8 DEF OutcomesOf
<1>6. \A o \in PerDrive(identified, expected) : o.status = "wiped"
  BY <1>5, OneByOne
<1>7. Worst(PerDrive(identified, expected)).verdict = "wiped"
  <2>1. \A o \in PerDrive(identified, expected) : o.status # "failed" /\ o.status # "missing"
    BY <1>6
  <2> QED
    BY <2>1, WorstWiped
<1>8. ExpectationKnown(rows, expected)
  BY DEF ExpectationKnown
<1>9. DriveRollup(rows) = Worst(PerDrive(identified, expected))
  <2>1. PerDrive(identified, expected) \cup {} = PerDrive(identified, expected)
    OBVIOUS
  <2> HIDE DEF identified, expected
  <2> QED
    BY <1>3, <1>8, <2>1 DEF DriveRollup, identified, expected
<1> QED
  BY <1>2, <1>7, <1>9
-----------------------------------------------------------------------------
(* Theorems *)

LEMMA RecordInvariant == Spec => []RecordInv
<1>1. Init => RecordInv
  BY InitRecord
<1>2. RecordInv /\ [Next]_vars => RecordInv'
  BY NextRecord
<1> QED
  BY <1>1, <1>2, PTL DEF Spec

(* Of a machine whose every drive reports a serial of its own, whatever the stations'
   clocks if no record is late, and however late, often or out of order the records if
   the clocks are right: rollupWipe calls it wiped by its drives only if some record
   listed them, and every drive a record names or lists was erased by its last wipe. *)
THEOREM CertifiedIsErased == Spec => [](Named /\ Timed => CertifiedDrivesErased)
<1>1. RecordInv => (Named /\ Timed => CertifiedDrivesErased)
  BY RecordsCertify
<1> QED
  BY <1>1, RecordInvariant, PTL

(* Such a machine, in plain circumstances, is called wiped when its drives were erased,
   whatever failed before, dropped off the bus or changed its path (rollupWipe). *)
THEOREM ErasureCounts == Spec => [](Named => EveryErasureCounts)
<1>1. RecordInv => (Named => EveryErasureCounts)
  BY PlainCertifies
<1> QED
  BY <1>1, RecordInvariant, PTL
=============================================================================
