----------------------------- MODULE WipeRollup -----------------------------
(***************************************************************************)
(* "Is this MACHINE erased?"  The pure roll-up of devices/wipe-rollup.ts   *)
(* and the interim rule of assets/certificate-eligibility.ts it falls back *)
(* on.  The input is the set of wipe records of one asset.                 *)
(*                                                                         *)
(* A record is                                                             *)
(*   id       the row's identity                                           *)
(*   status   "wiped" or "failed"      (dataWipeStatus; other rows never   *)
(*            reach the roll-up)                                           *)
(*   method   the recorded method, ordered like its name                   *)
(*   manual   typed into the web application                               *)
(*   at       the station's own time of the wipe, 0 when not recorded      *)
(*   created  the time the server received the row                         *)
(*   drive    what the drive reports of itself: serial, model, gb, wwn,    *)
(*            and the device path it had in that session                   *)
(*   profile  the drives listed by the hardware profile snapshot; {} when  *)
(*            there is no profile or its storage list was dropped          *)
(*                                                                         *)
(* Every attribute is a natural number and 0 stands for "not reported".    *)
(* A listed drive is [slot, serial, model, gb, internal]: its place in the *)
(* list, what the list says of it, and whether it counts (USB, removable   *)
(* and sub-gigabyte entries do not).                                       *)
(***************************************************************************)
EXTENDS Integers, FiniteSets, SequencesExt

CONSTANTS Window,     \* MIXED_RESULT_WINDOW_MS, in the unit of the clocks
          Discards    \* the methods isNotAnErase recognises

ASSUME WindowAssumption == Window \in Nat

-----------------------------------------------------------------------------
(* Clocks and orders *)

Station(r) == IF r.at = 0 THEN r.created ELSE r.at

Received(r) == r.created

Clocks == {"station", "received"}

ClockOf(c, r) == IF c = "station" THEN Station(r) ELSE Received(r)

\* a is greater than b in the lexicographic order of two tuples.
LexGreater(a, b) ==
  \E i \in DOMAIN a : a[i] > b[i] /\ \A j \in 1..(i - 1) : a[j] = b[j]

\* The total order of `compare`: this clock, the other one, a failure after a
\* wipe, then fields that do not depend on the order the rows came in.
Later(c, a, b) ==
  LET key(r) == << ClockOf(c, r),
                   IF c = "station" THEN Received(r) ELSE Station(r),
                   IF r.status = "failed" THEN 1 ELSE 0, r.method, r.id >>
  IN  LexGreater(key(a), key(b))

LatestOf(c, rows) == CHOOSE r \in rows : \A s \in rows \ {r} : Later(c, r, s)

IsDiscard(r) == r.status = "wiped" /\ r.method \in Discards

IsErase(r) == r.status = "wiped" /\ r.method \notin Discards

\* Does the row name its drive at all (a serial, or a device path)?
Identified(r) == ~r.manual /\ (r.drive.serial # 0 \/ r.drive.path # 0)

-----------------------------------------------------------------------------
(* The interim rule D11 for rows with no drive identity *)

LatestWipeOn(c, rows) ==
  LET wiped == {r \in rows : r.status = "wiped"}
  IN  CHOOSE r \in wiped : \A s \in wiped \ {r} :
        LexGreater(<<ClockOf(c, r), Received(r), r.id>>,
                   <<ClockOf(c, s), Received(s), s.id>>)

FailedNearWipe(w, rows) ==
  \E c \in Clocks, r \in rows :
    r.status = "failed" /\ ClockOf(c, r) >= ClockOf(c, w) - Window

CertificateBlock(rows) ==
  CASE \A r \in rows : r.status # "wiped" -> "none"
    [] \E c \in Clocks, r \in rows :
         r.status = "wiped" /\ LatestWipeOn(c, rows).method \in Discards -> "discard"
    [] OTHER -> IF FailedNearWipe(LatestWipeOn("station", rows), rows)
                  THEN "mixed" ELSE "clear"

-----------------------------------------------------------------------------
(* The drives a machine is expected to have *)

\* expectedDrivesOf: external, removable and pseudo entries are not drives.
InternalDrives(profile) == {e \in profile : e.internal}

\* As far as a record can tell, two listed drives are the same kind of drive.
ExpectedType(e) ==
  IF e.serial # 0 THEN <<"serial", e.serial, 0>> ELSE <<"noserial", e.model, e.gb>>

OfType(t, row) == {e \in InternalDrives(row.profile) : ExpectedType(e) = t}

\* For every type, the list that has it most often; the newest on a tie.
ExpectedDrives(rows) ==
  LET listing  == {r \in rows : Identified(r) /\ r.profile # {}}
      types    == {ExpectedType(e) : e \in UNION {InternalDrives(r.profile) : r \in listing}}
      most(t)  == {r \in listing : \A s \in listing :
                     Cardinality(OfType(t, s)) <= Cardinality(OfType(t, r))}
  IN  UNION {OfType(t, LatestOf("station", most(t))) : t \in types}

\* Mutant: no drive list is taken for a list with no drives.
ExpectationKnown_Assumed(rows, expected) == TRUE

\* An empty expectation is knowledge only if some list was read.
ExpectationKnown(rows, expected) ==
  expected # {} \/ \E r \in rows : Identified(r) /\ r.profile # {}

-----------------------------------------------------------------------------
(* Which records belong to which drive *)

\* Could this listed drive be the one these records name?
Fits(e, id) ==
  /\ e.serial = id.serial
  /\ e.model = 0 \/ id.model = 0 \/ e.model = id.model
  /\ e.gb = 0 \/ id.gb = 0 \/ e.gb = id.gb

\* Mutant: the server's clock alone orders the records.
OutcomeFor_ReceiptOnly(rows) ==
  [status  |-> IF IsErase(LatestOf("received", rows)) THEN "wiped" ELSE "failed",
   discard |-> IsDiscard(LatestOf("received", rows)),
   row     |-> LatestOf("received", rows).id]

\* Mutant: the station's clock alone orders the records.
OutcomeFor_StationOnly(rows) ==
  [status  |-> IF IsErase(LatestOf("station", rows)) THEN "wiped" ELSE "failed",
   discard |-> IsDiscard(LatestOf("station", rows)),
   row     |-> LatestOf("station", rows).id]

\* Mutant: a failure on record stands for ever.
OutcomeFor_FailureStands(rows) ==
  [status  |-> IF \A r \in rows : IsErase(r) THEN "wiped" ELSE "failed",
   discard |-> \E r \in rows : IsDiscard(r),
   row     |-> LatestOf("station", rows).id]

\* A drive's outcome from its records: erased only if the latest record on
\* both clocks is an erase.
OutcomeFor(rows) ==
  LET last == {LatestOf(c, rows) : c \in Clocks}
  IN  [status  |-> IF \A r \in last : IsErase(r) THEN "wiped" ELSE "failed",
       discard |-> \E r \in last : IsDiscard(r),
       row     |-> LatestOf("station", rows).id]

\* Several drives may be behind these records: the latest record of every
\* path counts, the worst one decides.
PerPathOutcome(rows) ==
  LET paths   == {r.drive.path : r \in rows}
      at(p)   == OutcomeFor({r \in rows : r.drive.path = p})
      failed  == {p \in paths : at(p).status = "failed"}
      last    == LatestOf("station", {r \in rows : \E p \in paths : at(p).row = r.id})
  IN  at(IF failed # {} THEN CHOOSE p \in failed : \A q \in failed : p <= q
                        ELSE last.drive.path)

\* Mutant: the WWN is not looked at.
ClusterId_NoWwn(r, rows) ==
  LET every(f) == \A s \in rows : s.drive[f] # 0
  IN  [serial |-> r.drive.serial,
       model  |-> IF every("model") THEN r.drive.model ELSE 0,
       gb     |-> IF r.drive.serial = 0 /\ every("gb") THEN r.drive.gb ELSE 0,
       wwn    |-> 0]

\* The records that carry the drive's own description, told apart by each
\* attribute every one of them reports.
ClusterId(r, rows) ==
  LET every(f) == \A s \in rows : s.drive[f] # 0
  IN  [serial |-> r.drive.serial,
       model  |-> IF every("model") THEN r.drive.model ELSE 0,
       gb     |-> IF r.drive.serial = 0 /\ every("gb") THEN r.drive.gb ELSE 0,
       wwn    |-> IF every("wwn") THEN r.drive.wwn ELSE 0]

Clusters(rows) == {ClusterId(r, rows) : r \in rows}

\* Is the cluster known to be one drive?
KnownOne(id, listed) ==
  \/ id.wwn # 0
  \/ IF id.serial = 0 THEN Cardinality({e \in listed : Fits(e, id)}) = 1
                      ELSE Cardinality(listed) <= 1

ClusterOutcome(id, rows, listed) ==
  LET mine == {r \in rows : ClusterId(r, rows) = id}
  IN  IF KnownOne(id, listed) THEN OutcomeFor(mine) ELSE PerPathOutcome(mine)

\* Mutant: one cluster covers every listed drive that fits it.
MissingDrives_SharedCluster(clusters, listed) ==
  {e \in listed : \A id \in clusters : ~Fits(e, id)}

\* Each listed drive, in list order, takes the first unused cluster it fits; a
\* serial listed once is matched by the serial alone.  The rest is missing.
MissingDrives(clusters, listed) ==
  LET after(a, b) == LexGreater(<<ExpectedType(a)[2], ExpectedType(a)[3], a.slot>>,
                                <<ExpectedType(b)[2], ExpectedType(b)[3], b.slot>>)
      order == CHOOSE o \in SetToSeqs(listed) : \A i, j \in DOMAIN o : i < j => after(o[j], o[i])
      fits(e, id) == (e.serial # 0 /\ Cardinality(listed) = 1) \/ Fits(e, id)
      before(i, j) == LexGreater(<<j.model, j.gb, j.wwn>>, <<i.model, i.gb, i.wwn>>)
      match(acc, e) ==
        LET free == {id \in clusters \ acc.used : fits(e, id)}
        IN  IF free = {}
              THEN [acc EXCEPT !.missing = @ \cup {e}]
              ELSE [acc EXCEPT !.used = @ \cup
                      {CHOOSE id \in free : \A j \in free \ {id} : before(id, j)}]
  IN  FoldLeft(match, [used |-> {}, missing |-> {}], order).missing

\* perDrive: the outcomes of the clusters, and the listed drives with no record.
PerDrive(identified, expected) ==
  LET rowsOf(s)   == {r \in identified : r.drive.serial = s}
      listedOf(s) == {e \in expected : e.serial = s}
      serials     == {r.drive.serial : r \in identified} \cup {e.serial : e \in expected}
  IN  UNION { LET rows     == rowsOf(s)
                  listed   == listedOf(s)
                  clusters == Clusters(rows)
              IN  {ClusterOutcome(id, rows, listed) : id \in clusters}
                    \cup {[status |-> "missing", drive |-> e] : e \in MissingDrives(clusters, listed)}
            : s \in serials }

-----------------------------------------------------------------------------
(* The roll-up *)

Result(verdict, reason, basis, sources) ==
  [verdict |-> verdict, reason |-> reason, basis |-> basis, sources |-> sources]

DriveResult(status, discard, basis, row) ==
  IF status = "wiped"
    THEN Result("wiped", "clear", basis, {row})
    ELSE Result("failed", IF discard THEN "discard" ELSE "failed", basis, {row})

\* worst: one failed drive fails the machine, one missing drive leaves it
\* incomplete.  The sources are the rows that decided the drives.
Worst(drives) ==
  LET failed  == {d \in drives : d.status = "failed"}
      sources == {d.row : d \in {e \in drives : e.status # "missing"}}
  IN  IF failed # {}
        THEN Result("failed", IF \A d \in failed : d.discard THEN "discard" ELSE "failed",
                    "drives", sources)
        ELSE IF \E d \in drives : d.status = "missing"
          THEN Result("incomplete", "incomplete", "drives", sources)
          ELSE Result("wiped", "clear", "drives", sources)

\* Mutant: newer by the station's clock alone.
ManualSpeaks_StationOnly(rows) ==
  LET manual == {r \in rows : r.manual}
  IN  /\ manual # {}
      /\ \A s \in rows \ manual : Later("station", LatestOf("station", manual), s)

\* A manual row newer than every station row, on both clocks.
ManualSpeaks(rows) ==
  LET manual == {r \in rows : r.manual}
  IN  /\ manual # {}
      /\ \A c \in Clocks, s \in rows \ manual : Later(c, LatestOf("station", manual), s)

LegacyRollup(rows) ==
  LET block == CertificateBlock(rows)
  IN  CASE block = "clear" -> Result("wiped", "clear", "legacy", {LatestWipeOn("station", rows).id})
        [] block = "none"  -> Result("failed", "failed", "legacy", {LatestOf("station", rows).id})
        [] OTHER           -> Result("failed", block, "legacy", {LatestWipeOn("station", rows).id})

\* Rows with no drive identity filed since per-drive records began are one more
\* "drive"; older ones are history.
LateLegacy(rows) ==
  LET identified == {r \in rows : Identified(r)}
  IN  {r \in rows : /\ ~r.manual /\ ~Identified(r)
                    /\ \E c, d \in Clocks, s \in identified :
                         ClockOf(c, r) >= ClockOf(d, s)}

\* Mutant: a late record with no drive identity speaks for the machine.
DriveRollup_LegacySpeaks(rows) ==
  LET late == LateLegacy(rows)
  IN  Worst(IF late # {} THEN {OutcomeFor(late)}
            ELSE PerDrive({r \in rows : Identified(r)}, ExpectedDrives(rows)))

DriveRollup(rows) ==
  LET identified == {r \in rows : Identified(r)}
      expected   == ExpectedDrives(rows)
      late       == LateLegacy(rows)
      rolled     == Worst(PerDrive(identified, expected)
                          \cup (IF late = {} THEN {} ELSE {OutcomeFor(late)}))
  IN  IF ~ExpectationKnown(rows, expected) /\ rolled.verdict = "wiped"
        THEN Result("incomplete", "unverifiable", "drives", rolled.sources)
        ELSE rolled

RollupWipe(rows) ==
  LET identified == {r \in rows : Identified(r)}
      m          == LatestOf("station", {r \in rows : r.manual})
  IN  CASE rows = {} -> Result("none", "none", "none", {})
        [] rows # {} /\ identified = {} -> LegacyRollup(rows)
        [] identified # {} /\ ManualSpeaks(rows) ->
             DriveResult(OutcomeFor({m}).status, OutcomeFor({m}).discard, "manual", m.id)
        [] OTHER -> DriveRollup(rows)
=============================================================================
