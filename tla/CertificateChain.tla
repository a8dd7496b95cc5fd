-------------------------- MODULE CertificateChain --------------------------
(***************************************************************************)
(* certificates/certificate-ledger.ts: checking a certificate, with every  *)
(* certificate before it, in one API process.                              *)
(*                                                                         *)
(* A check reads its certificate, verifies it, and answers from what the   *)
(* last walk along the chain proved.  Checks share one walk at a time,     *)
(* which reads the table batch by batch while other instances go on        *)
(* issuing, and which fails when the database does.                        *)
(*                                                                         *)
(* A row of the table is [seq, prev, good]: its place, the place of the    *)
(* row whose hash it carries, and whether its own hash and signature       *)
(* verify.  stage[c] is where check c stands:                              *)
(*   "idle"     no check, or an answered one                               *)
(*   "looking"  it looks whether the proved chain reaches its certificate  *)
(*   "waiting"  it waits for the walk that is running                      *)
(***************************************************************************)
EXTENDS Integers, FiniteSets

CONSTANTS Checks,      \* the checks that may be made at once
          Batch,       \* WALK_BATCH
          MaxIssued,   \* bound on the certificates issued
          MaxTampers,  \* bound on the rows edited behind the trigger
          MaxTroubles  \* bound on the restarts and the failures of the database

ASSUME ChainAssumption == Batch \in Nat \ {0}

VARIABLES table,    \* erasure_certificates
          issued,   \* the highest seq given out
          tampers,  \* how often a row was edited or deleted
          troubles, \* restarts and database failures so far
          chain,    \* ChainState: what the walks proved
          expired,  \* CHAIN_RECHECK_MS have passed since chain's last full walk began
          walk,     \* the walk running
          seen,     \* the first bad row when the last full walk in chain began, or 0
          stage, target, attempt, answer   \* the checks

chainVars == <<table, issued, tampers, troubles, chain, expired, walk, seen, stage, target, attempt, answer>>

checks == <<stage, target, attempt, answer>>

world == <<table, issued, tampers, troubles>>

Unknown == [known |-> FALSE, through |-> 0, broken |-> 0]

NoWalk == [phase |-> "none", full |-> FALSE, through |-> 0, broken |-> 0, bad |-> 0]

-----------------------------------------------------------------------------
(* The chain *)

Least(S) == CHOOSE x \in S : \A y \in S : x <= y

Greatest(S) == CHOOSE x \in S : \A y \in S : x >= y

\* The row just before place n, on a walk that goes on from row t.
Before(n, t) == Greatest({t} \cup {r.seq : r \in {s \in table : t < s.seq /\ s.seq < n}})

\* The row verifies, and names the row before it.
Follows(r, t) == r.good /\ r.prev = Before(r.seq, t)

FirstBad ==
  LET bad == {r.seq : r \in {s \in table : ~Follows(s, 0)}}
  IN  IF bad = {} THEN 0 ELSE Least(bad)

\* The next rows after row t.
BatchAfter(t) ==
  {r \in table : r.seq > t /\ Cardinality({s \in table : t < s.seq /\ s.seq <= r.seq}) <= Batch}

-----------------------------------------------------------------------------
(* The world around the process *)

\* Another certificate: it carries the hash of the last row.
Issue ==
  /\ issued < MaxIssued
  /\ issued' = issued + 1
  /\ table' = table \cup {[seq  |-> issued + 1, good |-> TRUE,
                           prev |-> Greatest({0} \cup {r.seq : r \in table})]}
  /\ UNCHANGED <<tampers, troubles, chain, expired, walk, seen, checks>>

\* Somebody disables the trigger and edits a row, or deletes one of those that
\* others were issued after.
Tamper(r) ==
  /\ tampers < MaxTampers
  /\ tampers' = tampers + 1
  /\ \/ table' = (table \ {r}) \cup {[r EXCEPT !.good = FALSE]}
     \/ (\E s \in table : s.seq > r.seq) /\ table' = table \ {r}
  /\ UNCHANGED <<issued, troubles, chain, expired, walk, seen, checks>>

Expire ==
  /\ chain.known /\ ~expired
  /\ expired' = TRUE
  /\ UNCHANGED <<world, chain, walk, seen, checks>>

\* The process restarts: the chain is walked from scratch.
Restart ==
  /\ troubles < MaxTroubles
  /\ troubles' = troubles + 1
  /\ chain' = Unknown /\ expired' = FALSE /\ walk' = NoWalk /\ seen' = 0
  /\ stage' = [c \in Checks |-> "idle"]
  /\ target' = [c \in Checks |-> 0]
  /\ attempt' = [c \in Checks |-> 0]
  /\ answer' = [c \in Checks |-> "none"]
  /\ UNCHANGED <<table, issued, tampers>>

-----------------------------------------------------------------------------
(* The walk *)

\* What walkChain begins with: the first certificate, or the checkpoint.  Nothing
\* after a break can verify, so going on from one returns at once.
NewWalk(full) ==
  [phase   |-> IF ~full /\ chain.broken # 0 THEN "ended" ELSE "walking",
   full    |-> full,
   through |-> IF full THEN 0 ELSE chain.through,
   broken  |-> 0,
   bad     |-> IF full THEN FirstBad ELSE seen]

\* A batch is read and verified, up to the first row that does not follow.
WalkBatch ==
  LET t     == walk.through
      batch == BatchAfter(t)
      bad   == {r.seq : r \in {s \in batch : ~Follows(s, t)}}
      good  == {r.seq : r \in {s \in batch : \A n \in bad : s.seq < n}}
  IN  /\ walk.phase = "walking"
      /\ walk' = [walk EXCEPT
           !.through = Greatest({t} \cup good),
           !.broken  = IF bad = {} THEN 0 ELSE Least(bad),
           !.phase   = IF bad # {} \/ Cardinality(batch) < Batch THEN "walked" ELSE "walking"]
      /\ UNCHANGED <<world, chain, expired, seen, checks>>

\* The process keeps what the walk proved.
WalkKept ==
  /\ walk.phase = "walked"
  /\ chain' = [known |-> TRUE, through |-> walk.through, broken |-> walk.broken]
  /\ expired' = (expired /\ ~walk.full)
  /\ seen' = walk.bad
  /\ walk' = [walk EXCEPT !.phase = "ended"]
  /\ UNCHANGED <<world, checks>>

\* walking is null again, and the checks that waited look again.
WalkOver ==
  /\ walk.phase = "ended"
  /\ walk' = NoWalk
  /\ stage' = [c \in Checks |-> IF stage[c] = "waiting" THEN "looking" ELSE stage[c]]
  /\ attempt' = [c \in Checks |-> IF stage[c] = "waiting" THEN attempt[c] + 1 ELSE attempt[c]]
  /\ UNCHANGED <<world, chain, expired, seen, target, answer>>

\* Mutant: the checks that joined the walk are not told.
WalkFails_Silent ==
  /\ walk.phase = "walking"
  /\ troubles < MaxTroubles
  /\ troubles' = troubles + 1
  /\ walk' = NoWalk
  /\ UNCHANGED <<table, issued, tampers, chain, expired, seen, checks>>

\* The database fails: what was proved before stays, and the checks that waited
\* fail.
WalkFails ==
  /\ walk.phase = "walking"
  /\ troubles < MaxTroubles
  /\ troubles' = troubles + 1
  /\ walk' = NoWalk
  /\ stage' = [c \in Checks |-> IF stage[c] = "waiting" THEN "idle" ELSE stage[c]]
  /\ target' = [c \in Checks |-> IF stage[c] = "waiting" THEN 0 ELSE target[c]]
  /\ attempt' = [c \in Checks |-> IF stage[c] = "waiting" THEN 0 ELSE attempt[c]]
  /\ answer' = [c \in Checks |-> IF stage[c] = "waiting" THEN "failed" ELSE answer[c]]
  /\ UNCHANGED <<table, issued, tampers, chain, expired, seen>>

-----------------------------------------------------------------------------
(* The checks *)

\* The certificate is read and verified on its own.
Check(c, r) ==
  /\ stage[c] = "idle"
  /\ target' = [target EXCEPT ![c] = IF r.good THEN r.seq ELSE 0]
  /\ stage' = [stage EXCEPT ![c] = IF r.good THEN "looking" ELSE "idle"]
  /\ answer' = [answer EXCEPT ![c] = IF r.good THEN "none" ELSE "invalid"]
  /\ UNCHANGED <<world, chain, expired, walk, seen, attempt>>

Covers(n) == chain.known /\ (chain.through >= n \/ (chain.broken # 0 /\ chain.broken <= n))

\* Mutant: the checkpoint is not looked at, only the break.
Verdict_BreakOnly(n) == IF chain.broken = n THEN "invalid" ELSE "valid"

Verdict(n) ==
  IF (chain.broken # 0 /\ n >= chain.broken) \/ n > chain.through THEN "invalid" ELSE "valid"

\* Mutant: one walk is enough.
GivesUp_AtOnce(c) == chain.known /\ attempt[c] >= 1

\* A certificate is missing from a walk only if it was issued while that walk ran,
\* and the next one reaches it.
GivesUp(c) == chain.known /\ attempt[c] >= 3

\* Mutant: only a check that has to walk looks at the time.
Answer_NoRecheck(c) ==
  /\ stage[c] = "looking"
  /\ Covers(target[c]) \/ GivesUp(c)
  /\ answer' = [answer EXCEPT ![c] = Verdict(target[c])]
  /\ stage' = [stage EXCEPT ![c] = "idle"]
  /\ target' = [target EXCEPT ![c] = 0]
  /\ attempt' = [attempt EXCEPT ![c] = 0]
  /\ UNCHANGED <<world, chain, expired, walk, seen>>

\* The check answers from what was proved; if that is old, a walk from the first
\* certificate starts behind it.
Answer(c) ==
  /\ stage[c] = "looking"
  /\ Covers(target[c]) \/ GivesUp(c)
  /\ answer' = [answer EXCEPT ![c] = Verdict(target[c])]
  /\ stage' = [stage EXCEPT ![c] = "idle"]
  /\ walk' = IF Covers(target[c]) /\ expired /\ walk.phase = "none" THEN NewWalk(TRUE) ELSE walk
  /\ target' = [target EXCEPT ![c] = 0]
  /\ attempt' = [attempt EXCEPT ![c] = 0]
  /\ UNCHANGED <<world, chain, expired, seen>>

\* The check joins the walk that is running, or starts one.
Join(c) ==
  /\ stage[c] = "looking"
  /\ ~Covers(target[c]) /\ ~GivesUp(c)
  /\ walk' = IF walk.phase = "none" THEN NewWalk(~chain.known \/ expired) ELSE walk
  /\ stage' = [stage EXCEPT ![c] = "waiting"]
  /\ UNCHANGED <<world, chain, expired, seen, target, attempt, answer>>

-----------------------------------------------------------------------------
ChainInit ==
  /\ table = {} /\ issued = 0 /\ tampers = 0 /\ troubles = 0
  /\ chain = Unknown /\ expired = FALSE /\ walk = NoWalk /\ seen = 0
  /\ stage = [c \in Checks |-> "idle"]
  /\ target = [c \in Checks |-> 0]
  /\ attempt = [c \in Checks |-> 0]
  /\ answer = [c \in Checks |-> "none"]

Walk == WalkBatch \/ WalkKept \/ WalkOver

ChainNext ==
  \/ Issue \/ Expire \/ Restart
  \/ \E r \in table : Tamper(r)
  \/ Walk \/ WalkFails
  \/ \E c \in Checks : Answer(c) \/ Join(c) \/ \E r \in table : Check(c, r)

ChainSpec == ChainInit /\ [][ChainNext]_chainVars

\* The process goes on; time passes; and every certificate is checked again and
\* again.
ChainFairSpec ==
  /\ ChainSpec
  /\ WF_chainVars(Walk) /\ WF_chainVars(Expire)
  /\ \A c \in Checks : WF_chainVars(Answer(c) \/ Join(c))
  /\ \A n \in 1..MaxIssued : SF_chainVars(\E c \in Checks, r \in table : r.seq = n /\ Check(c, r))

-----------------------------------------------------------------------------
(* Properties *)

ChainTypeOK ==
  /\ issued \in Nat /\ tampers \in Nat /\ troubles \in Nat /\ seen \in Nat
  /\ expired \in BOOLEAN
  /\ table \in SUBSET [seq : 1..issued, prev : 0..issued, good : BOOLEAN]
  /\ chain \in [known : BOOLEAN, through : Nat, broken : Nat]
  /\ walk \in [phase : {"none", "walking", "walked", "ended"}, full : BOOLEAN,
               through : Nat, broken : Nat, bad : Nat]
  /\ stage \in [Checks -> {"idle", "looking", "waiting"}]
  /\ target \in [Checks -> Nat]
  /\ attempt \in [Checks -> Nat]
  /\ answer \in [Checks -> {"none", "valid", "invalid", "failed"}]

\* No false alarm: as long as nobody edits the table, no check of a certificate
\* in it answers that the certificate, or one before it, is not genuine -
\* whatever is issued while a walk runs, and whichever walk the check joins.
NoFalseAlarm == tampers = 0 => \A c \in Checks : answer[c] # "invalid"

\* Rows are issued one after another, and only rows with a later one are deleted.
TableFacts ==
  /\ IsFiniteSet(table)
  /\ \A r \in table : r.prev = r.seq - 1
  /\ \A r, s \in table : r.seq = s.seq => r = s
  /\ issued # 0 => \E r \in table : r.seq = issued
  /\ tampers = 0 => \A n \in 1..issued : \E r \in table : r.seq = n /\ r.good

\* No row at place n will ever follow on a walk that has come to row t.
StaysBad(n, t) ==
  /\ t < n /\ n <= issued
  /\ \A r \in table : r.seq = n /\ r.good => n - 1 # t /\ \A s \in table : s.seq # n - 1

\* What the walks proved stops before the first row that was bad, and is whole
\* when nobody edited the table.
ChainFacts ==
  /\ ~chain.known => seen = 0
  /\ seen # 0 => chain.broken # 0 /\ chain.through < seen
  /\ tampers = 0 => chain.broken = 0 /\ seen = 0 /\ chain.through <= issued

WalkFacts ==
  /\ walk.phase \in {"walking", "walked"} =>
       /\ ~walk.full => chain.broken = 0 /\ walk.bad = seen
       /\ walk.bad # 0 => StaysBad(walk.bad, walk.through)
  /\ walk.phase = "walked" /\ walk.bad # 0 => walk.broken # 0
  /\ tampers = 0 =>
       /\ walk.broken = 0 /\ walk.bad = 0 /\ walk.through <= issued
       /\ walk.phase = "ended" => chain.known /\ chain.through >= walk.through

\* The walk a check begins after it read its certificate reaches it; so after two
\* walks at most the chain does.
CheckFacts ==
  tampers = 0 => \A c \in Checks :
    /\ stage[c] = "idle" => attempt[c] = 0
    /\ target[c] <= issued
    /\ attempt[c] >= 1 /\ walk.phase \in {"walked", "ended"} => walk.through >= target[c]
    /\ attempt[c] >= 2 => chain.known /\ chain.through >= target[c]

\* The inductive invariant.
ChainInv == ChainTypeOK /\ TableFacts /\ ChainFacts /\ WalkFacts /\ CheckFacts /\ NoFalseAlarm

\* No check vouches for a certificate at or after a row that was already bad when
\* the last walk from the first certificate began.
VouchedFor ==
  [][\A c \in Checks : answer'[c] = "valid" /\ answer[c] # "valid" =>
       seen = 0 \/ target[c] < seen]_chainVars

\* Nobody waits for ever: a check is answered, or fails with the database.
ChecksAnswered == \A c \in Checks : stage[c] # "idle" ~> stage[c] = "idle"

\* A row edited behind the walk's back is found, although checks go on answering
\* from what was proved before.
TamperingFound ==
  FirstBad # 0 ~> chain.broken # 0 \/ \A r \in table : ~r.good
=============================================================================
