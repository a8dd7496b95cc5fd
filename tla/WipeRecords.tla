---------------------------- MODULE WipeRecords ----------------------------
(***************************************************************************)
(* One machine, the station that wipes its drives, and the wipe records    *)
(* that reach the server.  What the drives really hold is known here and   *)
(* nowhere in the program, so that the verdict of WipeRollup can be        *)
(* compared with the truth.                                                *)
(*                                                                         *)
(* A session is one boot of the station on the machine: which drives are   *)
(* on the bus, the device path each gets, what the hardware profile lists, *)
(* how far the station's clock is off, and whether the stick is an old one *)
(* that names no drive in its records.  A record is filed by one request;  *)
(* when the request fails, or its answer is lost, the station keeps the    *)
(* record in its queue and sends it again later, unchanged.                *)
(***************************************************************************)
EXTENDS WipeRollup

CONSTANTS Worlds,       \* the circumstances to look at, each of them
                        \*   drives     what each drive says of itself: serial, model, gb, wwn
                        \*   flaky      the drives that may drop off the bus
                        \*   reorders   may a boot hand out the device paths in another order?
                        \*   listings   may the enumeration of the drives fail: {TRUE, FALSE}
                        \*   outcomes   how a wipe may end: "erased", "trimmed", "failed"
                        \*   skews      how far a station's clock may be off
                        \*   sticks     the kinds of stick in use: "new", "old"
                        \*   offline    may a request fail, or its answer be lost?
                        \*   manual     do people type wipes into the web application?
                        \*   wipes, rows   bounds on the wipes, and on the rows the server files
          Epoch,        \* the time it starts at, later than any clock is behind
          Tolerance,    \* FUTURE_TOLERANCE_MS: a later time is not accepted
          MaxSessions   \* bound on the boots of the station

ASSUME EpochAssumption == Epoch \in Nat /\ Tolerance \in Nat /\ MaxSessions \in Nat

\* Drives are numbered, and say of themselves what can be compared.
ASSUME WorldsAssumption ==
  \A w \in Worlds :
    /\ IsFiniteSet(DOMAIN w.drives) /\ DOMAIN w.drives \subseteq Nat \ {0}
    /\ \A d \in DOMAIN w.drives :
         w.drives[d] \in [serial : Nat, model : Nat, gb : Nat, wwn : Nat]
    /\ w.skews \subseteq Int

VARIABLES world,    \* the circumstances, which do not change
          now,      \* true time, one step per event
          session,  \* the running boot of the station
          queue,    \* records waiting on the stick
          rows,     \* rows on the server
          wipes     \* number of wipes so far

vars == <<world, now, session, queue, rows, wipes>>

Unknown == [serial |-> 0, model |-> 0, gb |-> 0, wwn |-> 0, path |-> 0]

\* The drives that answer on the bus, each with the path it got in probe order.
Paths(present) ==
  {f \in [present -> 1..Cardinality(present)] :
     \A d, e \in present : IF world.reorders THEN f[d] = f[e] => d = e ELSE d < e => f[d] < f[e]}

\* A boot of the station.  listed: the enumeration of the drives worked.
Sessions(n) ==
  LET drives  == DOMAIN world.drives
      present == {P \in SUBSET drives : P # {} /\ drives \ world.flaky \subseteq P}
  IN  [n : {n}, path : UNION {Paths(P) : P \in present},
       listed : world.listings, skew : world.skews, stick : world.sticks]

Listing(d) ==
  [slot |-> d, serial |-> world.drives[d].serial, model |-> world.drives[d].model,
   gb |-> world.drives[d].gb, internal |-> TRUE]

TrimMethod == CHOOSE m \in Discards : TRUE

\* wipe_record_fields: what the engine reported and the station saw, by its own
\* clock.  An engine of an old stick calls a block discard a wipe, and names no
\* drive and no time.  drv and truth say which drive it really was, and when; no
\* code reads them.
Payload(d, outcome) ==
  [status  |-> IF outcome = "failed" THEN "failed" ELSE "wiped",
   method  |-> IF outcome = "trimmed" THEN TrimMethod ELSE 1,
   at      |-> IF session.stick = "new" THEN now + 1 + session.skew ELSE 0,
   drive   |-> IF session.stick = "new"
                 THEN [serial |-> world.drives[d].serial, model |-> world.drives[d].model,
                       gb |-> world.drives[d].gb, wwn |-> world.drives[d].wwn,
                       path |-> session.path[d]]
                 ELSE Unknown,
   profile |-> IF session.listed THEN {Listing(e) : e \in DOMAIN session.path} ELSE {},
   drv     |-> d,
   truth   |-> now + 1]

\* The row the ingest files: a discard that calls itself a wipe is a failure
\* (downgradeDiscardClaim), a time in the future is not recorded
\* (normaliseWipeDetail).
Filed(p, t) ==
  [id      |-> Cardinality(rows) + 1,
   created |-> t,
   manual  |-> FALSE,
   status  |-> IF p.method \in Discards THEN "failed" ELSE p.status,
   method  |-> p.method,
   at      |-> IF p.at > t + Tolerance THEN 0 ELSE p.at,
   drive   |-> p.drive,
   profile |-> p.profile,
   drv     |-> p.drv,
   truth   |-> p.truth]

Init ==
  /\ world \in Worlds
  /\ now = Epoch
  /\ session \in Sessions(1)
  /\ queue = {}
  /\ rows = {}
  /\ wipes = 0

Boot ==
  /\ session.n < MaxSessions
  /\ session' \in Sessions(session.n + 1)
  /\ UNCHANGED <<world, now, queue, rows, wipes>>

\* record_wipe and upload_audit: the record is posted at once, and queued when
\* the request fails - which it may have done after the row was filed.
Wipe(d, outcome, filed, kept) ==
  /\ wipes < world.wipes
  /\ IF world.offline THEN filed \/ kept ELSE filed /\ ~kept
  /\ filed => Cardinality(rows) < world.rows
  /\ now' = now + 1
  /\ wipes' = wipes + 1
  /\ rows' = rows \cup (IF filed THEN {Filed(Payload(d, outcome), now + 1)} ELSE {})
  /\ queue' = queue \cup (IF kept THEN {Payload(d, outcome)} ELSE {})
  /\ UNCHANGED <<world, session>>

\* _queue_flush: a queued record is sent unchanged, and stays queued when the
\* answer is lost.
Flush(p, kept) ==
  /\ Cardinality(rows) < world.rows
  /\ now' = now + 1
  /\ rows' = rows \cup {Filed(p, now + 1)}
  /\ queue' = IF kept THEN queue ELSE queue \ {p}
  /\ UNCHANGED <<world, session, wipes>>

\* createAudit: a person records a wipe of the whole machine.
RecordManually(status) ==
  /\ world.manual
  /\ wipes < world.wipes
  /\ Cardinality(rows) < world.rows
  /\ now' = now + 1
  /\ wipes' = wipes + 1
  /\ rows' = rows \cup {[id |-> Cardinality(rows) + 1, created |-> now + 1, manual |-> TRUE,
                         status |-> status, method |-> 1, at |-> 0, drive |-> Unknown,
                         profile |-> {}, drv |-> 0, truth |-> now + 1]}
  /\ UNCHANGED <<world, session, queue>>

Next ==
  \/ Boot
  \/ \E d \in DOMAIN session.path, outcome \in world.outcomes, filed, kept \in BOOLEAN :
       Wipe(d, outcome, filed, kept)
  \/ \E p \in queue, kept \in BOOLEAN : Flush(p, kept)
  \/ \E status \in {"wiped", "failed"} : RecordManually(status)

Spec == Init /\ [][Next]_vars

-----------------------------------------------------------------------------
(* What is true of the machine, as far as the server's records go *)

\* The drives some per-drive record names or lists.
Seen ==
  UNION {{r.drv} \cup {e.slot : e \in r.profile} : r \in {s \in rows : Identified(s)}}

\* The last wipe on record of this drive, in the order they really happened,
\* erased it.
Erased(d) ==
  \E r \in rows : /\ r.drv = d /\ IsErase(r)
                  /\ \A s \in rows : s.drv = d => s.truth <= r.truth

Certified(verdict) == verdict.verdict = "wiped"

-----------------------------------------------------------------------------
(* Properties *)

\* A machine the station's records call wiped is one whose every drive - every
\* drive any of those records names or lists - was erased by its last recorded
\* wipe, and some record did list the drives.  Records may arrive late, twice or
\* out of order, and device paths change from boot to boot.
CertifiedDrivesErased ==
  LET verdict == RollupWipe(rows)
  IN  verdict.verdict = "wiped" /\ verdict.basis = "drives"
        => /\ \E r \in rows : Identified(r) /\ r.profile # {}
           /\ \A d \in Seen : Erased(d)

\* A record typed by a person speaks for the whole machine only while every
\* station record, by the order of the events themselves, is older.
ManualSpeaksLast ==
  LET verdict == RollupWipe(rows)
  IN  verdict.verdict = "wiped" /\ verdict.basis = "manual"
        => \E m \in rows : m.manual /\ m.status = "wiped" /\ \A r \in rows : r.truth <= m.truth

\* The circumstances in which nothing may be withheld: records arrive as they are
\* made, by a right clock, and every drive says who it is.
Plain ==
  /\ ~world.offline /\ ~world.manual /\ world.skews = {0} /\ world.sticks = {"new"}
  /\ \A d \in DOMAIN world.drives : world.drives[d].serial # 0 \/ world.drives[d].wwn # 0

\* Nothing is withheld for ever: a machine whose drives were all erased by their
\* last wipe is called wiped, whatever failed before and wherever the drives sat.
EveryErasureCounts ==
  /\ Plain
  /\ Seen # {}
  /\ \A d \in Seen : Erased(d)
  /\ \E r \in rows : Identified(r) /\ r.profile # {}
  => Certified(RollupWipe(rows))
=============================================================================
