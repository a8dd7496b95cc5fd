------------------------- MODULE CertificateLedger -------------------------
(***************************************************************************)
(* certificates/certificate-ledger.ts: issuing signed erasure certificates.*)
(*                                                                         *)
(* Several requests (a station's ingest, a wipe typed by hand, a download) *)
(* call `ensure` at once, on any API instance.  A call reads the asset's   *)
(* wipe records without a lock, answers if its latest certificate is for   *)
(* exactly these, and otherwise takes the transaction's advisory lock,     *)
(* reads again and issues.  Records are filed all the while.               *)
(*                                                                         *)
(* pc[c] is where the call of c stands:                                    *)
(*   "idle"     no call                                                    *)
(*   "fast"     it has read the records, without the lock                  *)
(*   "waiting"  it waits for the lock                                      *)
(*   "locked"   it holds the lock                                          *)
(*   "reread"   it has read the records again                              *)
(*   "insert"   it has read the head of the chain and chosen the number    *)
(***************************************************************************)
EXTENDS WipeRollup

CONSTANTS Assets,    \* the assets
          Callers,   \* the requests that may run at once
          Nobody,    \* the owner of a free lock
          Wipes,     \* for every asset, the wipes that are made of it
          Day,       \* the length of a day, in the unit of the clocks
          MaxRows    \* bound on the rows filed for each asset

ASSUME CallersAssumption == Nobody \notin Callers

ASSUME DayAssumption == Day \in Nat \ {0} /\ MaxRows \in [Assets -> Nat]

VARIABLES rows,    \* for every asset, its wipe records
          certs,   \* the table erasure_certificates, in seq order
          lock,    \* who holds pg_advisory_xact_lock(NAMESPACE, CERT_CHAIN)
          pc, asset, sources, draft   \* the calls: what each is doing, and has read

vars == <<rows, certs, lock, pc, asset, sources, draft>>

calls == <<pc, asset, sources, draft>>

NoDraft == [asset |-> Nobody, sources |-> {}, number |-> <<Nobody, 0, 0>>, prev |-> 0]

-----------------------------------------------------------------------------
(* What is read *)

\* certificateNumber counts in days; so does the key of a row with no time.
DayOf(r) == r.created \div Day

\* Mutant: every row is an erasure of its own.
WipeKey_RowId(r) ==
  <<r.drive, r.status, r.method,
    IF r.at # 0 THEN <<"at", r.at>> ELSE <<"day", DayOf(r)>>, r.id>>

\* What makes two records the same erasure: the drive as the record names it, the
\* outcome and method, and when the station says it wiped.  Never the row's id.
WipeKey(r) ==
  <<r.drive, r.status, r.method,
    IF r.at # 0 THEN <<"at", r.at>> ELSE <<"day", DayOf(r)>> >>

Certifiable(a) == RollupWipe(rows[a]).verdict = "wiped"

SourcesOf(a) ==
  {WipeKey(CHOOSE r \in rows[a] : r.id = id) : id \in RollupWipe(rows[a]).sources}

\* The day in the certificate's number: that of the latest wipe's receipt.
IssueDay(a) == DayOf(LatestWipeOn("station", rows[a]))

LatestIndex(a) ==
  IF \E i \in DOMAIN certs : certs[i].asset = a
    THEN CHOOSE i \in DOMAIN certs :
           certs[i].asset = a /\ \A j \in DOMAIN certs : certs[j].asset = a => j <= i
    ELSE 0

\* sameSources: the latest certificate is for exactly these wipes.
Covered(a, srcs) == LatestIndex(a) # 0 /\ certs[LatestIndex(a)].sources = srcs

Taken(number) == \E i \in DOMAIN certs : certs[i].number = number

\* base, base-2, base-3 ...: the first that is free, which is among the first
\* Len(certs) + 1.
FreeNumber(a, day) ==
  LET free(n) == ~Taken(<<a, day, n>>)
  IN  <<a, day, CHOOSE n \in 1..(Len(certs) + 1) : free(n) /\ \A m \in 1..(n - 1) : ~free(m)>>

-----------------------------------------------------------------------------
(* The environment files records *)

\* A wipe is filed; the same one may be filed again, when its answer was lost.
File(a, w) ==
  LET n == Cardinality(rows[a]) + 1
  IN  /\ n <= MaxRows[a]
      /\ rows' = [rows EXCEPT ![a] = @ \cup
           {[id |-> n, created |-> n, status |-> w.status, method |-> w.method,
             manual |-> w.manual, at |-> w.at, drive |-> w.drive, profile |-> w.profile]}]
      /\ UNCHANGED <<certs, lock, calls>>

-----------------------------------------------------------------------------
(* ensure *)

\* The fast path reads the records; a machine that is not certifiable answers
\* null at once.
FastRead(c, a) ==
  /\ pc[c] = "idle"
  /\ Certifiable(a)
  /\ pc' = [pc EXCEPT ![c] = "fast"]
  /\ asset' = [asset EXCEPT ![c] = a]
  /\ sources' = [sources EXCEPT ![c] = SourcesOf(a)]
  /\ UNCHANGED <<rows, certs, lock, draft>>

\* Already issued for exactly these records: answer; otherwise ask for the lock.
FastAnswer(c) ==
  /\ pc[c] = "fast"
  /\ pc' = [pc EXCEPT ![c] = IF Covered(asset[c], sources[c]) THEN "idle" ELSE "waiting"]
  /\ UNCHANGED <<rows, certs, lock, asset, sources, draft>>

\* Mutant: nothing makes a call wait.
Lock_NoWait(c) ==
  /\ pc[c] = "waiting"
  /\ lock' = c
  /\ pc' = [pc EXCEPT ![c] = "locked"]
  /\ UNCHANGED <<rows, certs, asset, sources, draft>>

Lock(c) ==
  /\ pc[c] = "waiting"
  /\ lock = Nobody
  /\ lock' = c
  /\ pc' = [pc EXCEPT ![c] = "locked"]
  /\ UNCHANGED <<rows, certs, asset, sources, draft>>

\* Mutant: what was read before the lock is relied on.
Reread_Before(c) ==
  /\ pc[c] = "locked"
  /\ pc' = [pc EXCEPT ![c] = "reread"]
  /\ draft' = [draft EXCEPT ![c].number = <<asset[c], IssueDay(asset[c]), 0>>]
  /\ UNCHANGED <<rows, certs, lock, asset, sources>>

\* Again under the lock: a drive may have failed since.  The day the number will
\* carry is among what is read.
Reread(c) ==
  /\ pc[c] = "locked"
  /\ IF Certifiable(asset[c])
       THEN /\ pc' = [pc EXCEPT ![c] = "reread"]
            /\ sources' = [sources EXCEPT ![c] = SourcesOf(asset[c])]
            /\ draft' = [draft EXCEPT ![c].number = <<asset[c], IssueDay(asset[c]), 0>>]
            /\ lock' = lock
       ELSE /\ pc' = [pc EXCEPT ![c] = "idle"]
            /\ lock' = Nobody
            /\ UNCHANGED <<sources, draft>>
  /\ UNCHANGED <<rows, certs, asset>>

\* Mutant: the certificates issued meanwhile are not looked at.
Draft_Unchecked(c) ==
  /\ pc[c] = "reread"
  /\ pc' = [pc EXCEPT ![c] = "insert"]
  /\ draft' = [draft EXCEPT ![c] =
       [asset |-> asset[c], sources |-> sources[c],
        number |-> FreeNumber(asset[c], draft[c].number[2]), prev |-> Len(certs)]]
  /\ UNCHANGED <<rows, certs, asset, sources, lock>>

\* Another request may have issued it meanwhile; otherwise the head of the chain
\* and a free number are read.
Draft(c) ==
  LET a == asset[c]
  IN  /\ pc[c] = "reread"
      /\ IF Covered(a, sources[c])
           THEN /\ pc' = [pc EXCEPT ![c] = "idle"]
                /\ lock' = Nobody
                /\ draft' = draft
           ELSE /\ pc' = [pc EXCEPT ![c] = "insert"]
                /\ lock' = lock
                /\ draft' = [draft EXCEPT ![c] =
                     [asset |-> a, sources |-> sources[c],
                      number |-> FreeNumber(a, draft[c].number[2]), prev |-> Len(certs)]]
      /\ UNCHANGED <<rows, certs, asset, sources>>

\* The unique indexes of the table on number and prev_sha256.
Conflicts(cert) == \E i \in DOMAIN certs : certs[i].number = cert.number \/ certs[i].prev = cert.prev

\* The row is inserted, and the commit releases the lock.  A row the unique
\* indexes refuse is an error, and the transaction rolls back.
Insert(c) ==
  /\ pc[c] = "insert"
  /\ certs' = IF Conflicts(draft[c]) THEN certs ELSE Append(certs, draft[c])
  /\ pc' = [pc EXCEPT ![c] = "idle"]
  /\ lock' = Nobody
  /\ UNCHANGED <<rows, asset, sources, draft>>

\* The API instance dies, or the database connection drops: the transaction is
\* rolled back and its lock released.
Crash(c) ==
  /\ pc[c] # "idle"
  /\ pc' = [pc EXCEPT ![c] = "idle"]
  /\ lock' = IF lock = c THEN Nobody ELSE lock
  /\ UNCHANGED <<rows, certs, asset, sources, draft>>

-----------------------------------------------------------------------------
Init ==
  /\ rows = [a \in Assets |-> {}]
  /\ certs = <<>>
  /\ lock = Nobody
  /\ pc = [c \in Callers |-> "idle"]
  /\ asset = [c \in Callers |-> Nobody]
  /\ sources = [c \in Callers |-> {}]
  /\ draft = [c \in Callers |-> NoDraft]

Call(c) == FastAnswer(c) \/ Lock(c) \/ Reread(c) \/ Draft(c) \/ Insert(c)

Next ==
  \/ \E a \in Assets : \E w \in Wipes[a] : File(a, w)
  \/ \E c \in Callers, a \in Assets : FastRead(c, a)
  \/ \E c \in Callers : Call(c) \/ Crash(c)

Spec == Init /\ [][Next]_vars

-----------------------------------------------------------------------------
(* Properties *)

InTransaction(c) == pc[c] \in {"locked", "reread", "insert"}

\* The types: a call works on an asset, and the number of a certificate is that
\* asset's, with no suffix 0.
TypeOK ==
  /\ pc \in [Callers -> {"idle", "fast", "waiting", "locked", "reread", "insert"}]
  /\ lock \in Callers \cup {Nobody}
  /\ asset \in [Callers -> Assets \cup {Nobody}]
  /\ DOMAIN sources = Callers /\ DOMAIN draft = Callers
  /\ certs \in Seq(Range(certs))
  /\ \A i \in DOMAIN certs : /\ certs[i].asset \in Assets
                             /\ certs[i].number[1] = certs[i].asset
                             /\ certs[i].number[3] \in 1..i

\* The advisory lock serialises the critical section whatever a call returns by,
\* and whoever dies in it: it is held by exactly the call that is inside.
LockHeld == \A c \in Callers : InTransaction(c) <=> lock = c

\* A call about to insert still has it right: the head it read is the head, its
\* number is free, and nobody has certified these erasures meanwhile.  So the
\* unique indexes never turn two simultaneous calls into an error.
DraftIsCurrent ==
  \A c \in Callers : pc[c] = "insert" =>
    /\ draft[c].prev = Len(certs)
    /\ ~Taken(draft[c].number)
    /\ ~Covered(draft[c].asset, draft[c].sources)

\* A row about to be inserted is a certificate of the asset the call is for.
DraftIsComplete ==
  \A c \in Callers :
    /\ pc[c] # "idle" => asset[c] \in Assets
    /\ pc[c] = "insert" =>
         /\ draft[c] = [asset |-> asset[c], sources |-> sources[c],
                        number |-> draft[c].number, prev |-> draft[c].prev]
         /\ draft[c].number[1] = asset[c]
         /\ draft[c].number[3] \in 1..(Len(certs) + 1)

\* prev_sha256 is the hash of the certificate before it: nothing is forked, nothing
\* is missing.  And a printed number names one certificate.
ChainLinked == \A i \in DOMAIN certs : certs[i].prev = i - 1

NumbersUnique == \A i, j \in DOMAIN certs : certs[i].number = certs[j].number => i = j

\* The inductive invariant: one chain of uniquely numbered certificates, which the
\* only call inside the critical section is about to extend.
LedgerInv ==
  TypeOK /\ LockHeld /\ DraftIsComplete /\ DraftIsCurrent /\ ChainLinked /\ NumbersUnique

\* What makes a record tell its wipe from every other: all of an asset's records come
\* from stations, and the drive, which has a serial or a WWN, and the time say which
\* wipe it was; or all are typed by hand, of one drive and method, and the day says it.
NameOf(drive) == IF drive.serial # 0 THEN <<"serial", drive.serial>> ELSE <<"wwn", drive.wwn>>

ByStationAlone(a) ==
  \A v, w \in Wipes[a] :
    /\ ~w.manual /\ w.at \in Nat \ {0}
    /\ w.drive \in [serial : Nat, model : Nat, gb : Nat, wwn : Nat, path : Nat]
    /\ w.drive.serial # 0 \/ (w.drive.wwn # 0 /\ w.drive.path # 0)
    /\ NameOf(v.drive) = NameOf(w.drive) =>
         /\ [v.drive EXCEPT !.path = 0] = [w.drive EXCEPT !.path = 0]
         /\ v.at = w.at => v.drive = w.drive /\ v.method = w.method

ByHandAlone(a) ==
  \A v, w \in Wipes[a] : w.manual /\ w.at = 0 /\ v.drive = w.drive /\ v.method = w.method

WipesAreNamed == \A a \in Assets : ByStationAlone(a) \/ ByHandAlone(a)

\* One erasure has one certificate: however often its record is sent, and
\* whatever happened in between, no two certificates of an asset are for the same
\* wipes, and a later one never certifies an earlier wipe of a drive.
OneCertificatePerErasure ==
  \A i, j \in DOMAIN certs : i < j /\ certs[i].asset = certs[j].asset =>
    /\ {<<k[1], k[4]>> : k \in certs[i].sources} # {<<k[1], k[4]>> : k \in certs[j].sources}
    /\ \A k \in certs[i].sources, l \in certs[j].sources :
         k[1] = l[1] /\ k[4][1] = l[4][1] => k[4][2] <= l[4][2]

\* The ledger keeps the promise of CertificateBook.
Book == INSTANCE CertificateBook WITH Assets <- Assets, certs <- certs

BookSpec == Book!Spec
=============================================================================
