-------------------------- MODULE StationDeskProofs --------------------------
(***************************************************************************)
(* The people, the locks and the jobs of a station, for any number of      *)
(* operators, records, machines, jobs and events.  A record goes under     *)
(* nobody else's account, and nobody's session is ended by another's       *)
(* refusal: SessionInv is inductive, and gives OwnAccount and              *)
(* SessionStands.  A check that files PASS on a lock could not see it in   *)
(* one of the ways of Gap, a disk called empty is empty, and a lock that   *)
(* could be read is LOCKED on every audit.  JobsInv says what a drive's    *)
(* queue has, and who stands first in it has the drive: TurnsAreTaken.     *)
(***************************************************************************)
EXTENDS OperatorSession, DeviceLocks, WipeJobs, SequenceTheorems, TLAPS

-----------------------------------------------------------------------------
(* Sessions *)

Tokens == [who: Accounts, expired: BOOLEAN, ended: BOOLEAN]

Steps == {"idle", "ensure", "login", "take", "renew", "post", "200", "401", "403"}

Phases == {"none", "gated", "running", "waiting", "sent"}

\* Made: who wiped is settled.
Made == {"waiting", "sent"}

Calls == [step: Steps, rec: Records \cup {Nobody}, whose: Accounts \cup {Nobody},
          on: BOOLEAN, tok: Nat, again: BOOLEAN]

Types ==
  /\ flag \in BOOLEAN /\ online \in BOOLEAN
  /\ session \in [who: Operators \cup {Nobody}, tok: Nat, due: BOOLEAN]
  /\ cached \in Nat /\ lock \in Callers \cup {Nobody} /\ signing \subseteq Nat
  /\ call \in [Callers -> Calls]
  /\ record \in [Records -> [phase: Phases, tag: Accounts \cup {Nobody}]]
  /\ tokens \in Seq(Tokens) /\ barred \subseteq Accounts
  /\ filed \subseteq [rec: Records, as: Accounts, asked: Accounts \cup {Nobody}]
  /\ events \in Nat

\* t is a token of u's.
Owns(u, t) == t \in DOMAIN tokens /\ tokens[t].who = u

\* What has been made keeps its tag, and what is filed has been made.
RecordFacts ==
  /\ \A r \in Records : record[r].phase \in Made => record[r].tag \in Accounts
  /\ \A f \in filed : record[f.rec].phase \in Made

\* Every token the station holds is the one of whom it holds it for.
SessionFacts ==
  /\ SignedIn => Owns(session.who, session.tok)
  /\ cached # 0 => Owns(Shared, cached)
  /\ \A t \in signing : t \in DOMAIN tokens /\ tokens[t].who \in Operators

\* An upload asks for the account of its record's tag, or, for a record without one,
\* for whoever is there.
UploadFacts ==
  LET u == call["upload"] IN
  u.step # "idle" =>
    /\ u.rec \in Records /\ record[u.rec].phase \in Made
    /\ u.whose = record[u.rec].tag \/ (u.whose = Nobody /\ record[u.rec].tag = Shared)

\* What request c holds: the lock for a renewal of a session that is still the
\* one it was asked for, or a token of whom it was asked for.
CallFacts(c) ==
  /\ call[c].step \in {"ensure", "login"} => call[c].whose \in {Shared, Nobody}
  /\ call[c].step = "renew" => lock = c /\ Theirs(c)
  /\ call[c].step \in {"post", "200", "401", "403"} =>
       /\ call[c].tok \in DOMAIN tokens
       /\ call[c].whose # Nobody => tokens[call[c].tok].who = call[c].whose
  /\ call[c].step = "403" => Refused(tokens[call[c].tok].who, call[c].tok)

SessionInv ==
  /\ Types /\ RecordFacts /\ SessionFacts /\ UploadFacts
  /\ \A c \in Callers : CallFacts(c)
  /\ OwnAccount

-----------------------------------------------------------------------------
(* Tokens are only added; they keep their account, and stay ended *)

Grown ==
  /\ tokens' \in Seq(Tokens) /\ barred \subseteq barred'
  /\ \A t \in DOMAIN tokens : t \in DOMAIN tokens' /\ tokens'[t].who = tokens[t].who /\ (tokens[t].ended => tokens'[t].ended)

(* A new token is the last one. *)
LEMMA IssueEffect ==
  ASSUME Types, NEW u \in Accounts, Issue(u), barred' = barred
  PROVE  Grown /\ Len(tokens) + 1 \in DOMAIN tokens' /\ tokens'[Len(tokens) + 1].who = u
<1>1. tokens' = Append(tokens, [who |-> u, expired |-> FALSE, ended |-> FALSE])
  BY DEF Issue
<1>2. [who |-> u, expired |-> FALSE, ended |-> FALSE] \in Tokens
  BY DEF Tokens
<1>3. tokens \in Seq(Tokens)
  BY DEF Types
<1> QED BY <1>1, <1>2, <1>3, AppendProperties DEF Grown

(* A token that runs out. *)
LEMMA ExpireEffect ==
  ASSUME Types, NEW t \in DOMAIN tokens, Expire(t)
  PROVE  Grown
<1>1. tokens' = [tokens EXCEPT ![t].expired = TRUE] /\ barred' = barred
  BY DEF Expire, Event
<1>0. tokens \in Seq(Tokens) /\ t \in 1..Len(tokens) /\ tokens[t] \in Tokens
  BY DEF Types
<1>2. [tokens[t] EXCEPT !.expired = TRUE] \in Tokens
  BY <1>0 DEF Tokens
<1>3. tokens' \in Seq(Tokens)
  BY <1>0, <1>1, <1>2, ExceptSeq
<1> QED BY <1>0, <1>1, <1>3 DEF Grown, Tokens

(* A new password ends the sessions of its account. *)
LEMMA PasswordEffect ==
  ASSUME Types, NEW u \in Accounts, NewPassword(u)
  PROVE  Grown
<1>1. tokens' = [t \in DOMAIN tokens |-> [tokens[t] EXCEPT !.ended = @ \/ tokens[t].who = u]] /\ barred' = barred
  BY DEF NewPassword, Event
<1>2. /\ tokens \in Seq(Tokens) /\ DOMAIN tokens = 1..Len(tokens) /\ Len(tokens) \in Nat
      /\ \A t \in DOMAIN tokens : tokens[t] \in Tokens
  BY DEF Types
<1>3. \A t \in DOMAIN tokens : [tokens[t] EXCEPT !.ended = @ \/ tokens[t].who = u] \in Tokens
  BY <1>2 DEF Tokens
<1>4. tokens' \in [1..Len(tokens) -> Tokens]
  BY <1>1, <1>2, <1>3
<1>5. tokens' \in Seq(Tokens)
  BY <1>2, <1>4, SeqDef
<1> QED BY <1>1, <1>2, <1>5 DEF Grown, Tokens

(* Nothing else touches the tokens. *)
LEMMA SameTokens ==
  ASSUME Types, tokens' = tokens, barred \subseteq barred'
  PROVE  Grown
BY DEF Types, Grown

-----------------------------------------------------------------------------
(* What a step leaves alone *)

\* What has been made stays so, with its tag.
Settled ==
  \A r \in Records : record[r].phase \in Made => record'[r].phase \in Made /\ record'[r].tag = record[r].tag

\* Nobody but the one who holds the lock changes whose session it is.
Guarded(d) == lock = d => lock' = d /\ session'.who = session.who

(* A request that does not move keeps its facts. *)
LEMMA CallStays ==
  ASSUME Types, Grown, NEW d \in Callers, CallFacts(d), call'[d] = call[d], Guarded(d)
  PROVE  CallFacts(d)'
BY DEF Types, Grown, CallFacts, Guarded, Theirs, SignedIn, Refused, Calls

(* An upload that does not move keeps its facts. *)
LEMMA UploadStays ==
  ASSUME UploadFacts, Settled, call'["upload"] = call["upload"]
  PROVE  UploadFacts'
BY DEF UploadFacts, Settled

(* A step that files nothing, and moves nothing that is made. *)
LEMMA RecordsStay ==
  ASSUME SessionInv, record' = record, filed' = filed
  PROVE  RecordFacts' /\ OwnAccount' /\ Settled
BY DEF SessionInv, RecordFacts, OwnAccount, Settled

(* A step of request c that neither files nor moves a record. *)
LEMMA CallStep ==
  ASSUME SessionInv, Types', Grown, NEW c \in Callers,
         record' = record, filed' = filed,
         \A d \in Callers \ {c} : call'[d] = call[d] /\ Guarded(d),
         SessionFacts', CallFacts(c)', c = "upload" => UploadFacts'
  PROVE  SessionInv'
<1>1. \A d \in Callers \ {c} : CallFacts(d)'
  BY CallStays DEF SessionInv
<1>2. UploadFacts'
  <2>1. CASE c = "upload"
    BY <2>1
  <2>2. CASE c # "upload"
    BY <2>2, UploadStays, RecordsStay DEF SessionInv, Callers
  <2> QED BY <2>1, <2>2
<1> QED BY <1>1, <1>2, RecordsStay DEF SessionInv

(* A step that moves no request and no record. *)
LEMMA EventStep ==
  ASSUME SessionInv, Types', Grown, call' = call, record' = record, filed' = filed,
         SessionFacts', \A d \in Callers : Guarded(d)
  PROVE  SessionInv'
<1>1. \A d \in Callers : CallFacts(d)'
  BY CallStays DEF SessionInv
<1> QED BY <1>1, RecordsStay, UploadStays DEF SessionInv

(* The facts of the session survive a step that leaves it alone. *)
LEMMA SessionStays ==
  ASSUME SessionInv, Grown, session'.who = session.who, session'.tok = session.tok,
         cached' = cached, signing' \subseteq signing
  PROVE  SessionFacts'
BY DEF SessionInv, SessionFacts, Grown, SignedIn, Owns

-----------------------------------------------------------------------------
(* The wipe of a record, and the start of a request *)

(* A wipe tags its record before it is made. *)
LEMMA WipingInv ==
  ASSUME SessionInv, NEW r \in Records, Wiping(r)
  PROVE  SessionInv'
<1>1. PICK phase \in Phases, tag \in Accounts \cup {Nobody} :
         /\ Moves(r, phase, tag) /\ record[r].phase \notin Made
         /\ phase \in Made => tag \in Accounts
  <2>1. Stamp \in Accounts
    BY DEF Stamp, SignedIn, SessionInv, Types, Accounts
  <2>2. record[r].tag \in Accounts \cup {Nobody}
    BY DEF SessionInv, Types
  <2>3. CASE Gate(r)
    BY <2>3 DEF Gate, Phases, Made
  <2>4. CASE WipeStart(r)
    BY <2>1, <2>4 DEF WipeStart, Phases, Made
  <2>5. CASE WipeEnds(r)
    BY <2>1, <2>2, <2>5 DEF WipeEnds, Phases, Made
  <2> QED BY <2>3, <2>4, <2>5 DEF Wiping
<1>2. /\ record' = [record EXCEPT ![r] = [phase |-> phase, tag |-> tag]]
      /\ UNCHANGED <<flag, session, cached, lock, signing, call, tokens, barred, filed, online, events>>
  BY <1>1 DEF Moves
<1>3. Types' /\ Grown
  BY <1>2 DEF SessionInv, Types, Grown
<1>4. Settled
  BY <1>1, <1>2 DEF Settled, SessionInv, Types
<1>5. RecordFacts' /\ OwnAccount'
  BY <1>1, <1>2 DEF SessionInv, Types, RecordFacts, OwnAccount, Made
<1>6. \A d \in Callers : CallFacts(d)'
  BY <1>2, <1>3, CallStays DEF SessionInv, Guarded
<1>7. SessionFacts' /\ UploadFacts'
  BY <1>2, <1>3, <1>4, SessionStays, UploadStays DEF SessionInv
<1> QED BY <1>3, <1>5, <1>6, <1>7 DEF SessionInv

(* A request that begins asks for the account of its record. *)
LEMMA BeginsInv ==
  ASSUME SessionInv, NEW c \in Callers, NEW r \in Records \cup {Nobody}, NEW whose \in Accounts \cup {Nobody},
         Begins(c, r, whose), ~flag => whose \in {Shared, Nobody},
         c = "upload" => r \in Records /\ record[r].phase \in Made /\ whose = record[r].tag
  PROVE  SessionInv'
<1>1. /\ call' = [call EXCEPT ![c] = [step |-> IF flag THEN "take" ELSE "ensure", rec |-> r, whose |-> whose,
                                       on |-> flag, tok |-> 0, again |-> FALSE]]
      /\ UNCHANGED <<people, session, cached, lock, tokens, barred, filed>>
  BY DEF Begins
<1>2. Types' /\ Grown
  BY <1>1 DEF SessionInv, Types, Grown, Calls, Steps, people
<1>3. SessionFacts'
  BY <1>1, <1>2, SessionStays DEF people
<1>4. call'[c] = [step |-> IF flag THEN "take" ELSE "ensure", rec |-> r, whose |-> whose,
                  on |-> flag, tok |-> 0, again |-> FALSE]
  BY <1>1 DEF SessionInv, Types
<1>5. CallFacts(c)'
  BY <1>4 DEF CallFacts
<1>6. c = "upload" => UploadFacts'
  BY <1>1, <1>4 DEF UploadFacts, people
<1>7. \A d \in Callers \ {c} : call'[d] = call[d] /\ Guarded(d)
  BY <1>1 DEF SessionInv, Types, Guarded
<1> QED BY <1>1, <1>2, <1>3, <1>5, <1>6, <1>7, CallStep DEF people

LEMMA UploadInv ==
  ASSUME SessionInv, NEW r \in Records, Upload(r)
  PROVE  SessionInv'
<1>1. record[r].phase \in Made /\ record[r].tag \in Accounts
  BY DEF Upload, SessionInv, RecordFacts, Made
<1>2. ~flag => record[r].tag = Shared
  BY DEF Upload, Held
<1> QED BY <1>1, <1>2, BeginsInv DEF Upload, Callers

LEMMA ListsInv ==
  ASSUME SessionInv, Lists
  PROVE  SessionInv'
BY BeginsInv DEF Lists, Callers

-----------------------------------------------------------------------------
(* The steps of a request *)

(* What an action that names c says of the requests. *)
LEMMA GoesEffect ==
  ASSUME SessionInv, NEW c \in Callers, NEW onto \in Steps, NEW tok \in Nat, Goes(c, onto, tok)
  PROVE  /\ call' \in [Callers -> Calls] /\ \A d \in Callers \ {c} : call'[d] = call[d]
         /\ call'[c].step = onto /\ call'[c].tok = tok /\ call'[c].rec = call[c].rec
         /\ call'[c].whose = call[c].whose /\ call'[c].on = call[c].on
BY DEF Goes, SessionInv, Types, Calls

LEMMA StopsEffect ==
  ASSUME SessionInv, NEW c \in Callers, Stops(c)
  PROVE  /\ call' \in [Callers -> Calls] /\ \A d \in Callers \ {c} : call'[d] = call[d]
         /\ call'[c] = Idle
BY DEF Stops, SessionInv, Types, Calls, Idle, Steps

(* A request that is over has nothing to answer for. *)
LEMMA StoppedCall ==
  ASSUME NEW c \in Callers, call'[c] = Idle
  PROVE  CallFacts(c)' /\ (c = "upload" => UploadFacts')
BY DEF Idle, CallFacts, UploadFacts

(* An upload that goes on asks for the same. *)
LEMMA UploadGoes ==
  ASSUME SessionInv, NEW c \in Callers, call[c].step # "idle", record' = record,
         call'[c].rec = call[c].rec, call'[c].whose = call[c].whose
  PROVE  c = "upload" => UploadFacts'
BY DEF SessionInv, UploadFacts

LEMMA EnsureInv ==
  ASSUME SessionInv, NEW c \in Callers, Ensure(c)
  PROVE  SessionInv'
<1>1. /\ record' = record /\ filed' = filed /\ session' = session /\ lock' = lock /\ tokens' = tokens
      /\ barred' = barred /\ cached' = cached /\ signing' = signing /\ flag' = flag /\ online' = online /\ events' = events
  BY DEF Ensure, people
<1>2. call[c].whose \in {Shared, Nobody}
  BY DEF Ensure, SessionInv, CallFacts
<1>3. SessionFacts /\ Types /\ UploadFacts /\ RecordFacts
  BY DEF SessionInv
<1>4. Grown
  BY <1>1, <1>3, SameTokens
<1>5. CASE flag
  <2>1. call' = [call EXCEPT ![c] = [call[c] EXCEPT !.step = "take", !.whose = Nobody]]
    BY <1>5 DEF Ensure
  <2>2. call'[c] = [call[c] EXCEPT !.step = "take", !.whose = Nobody] /\ call[c] \in Calls
    BY <1>3, <2>1 DEF Types
  <2>3. call'[c] \in Calls
    BY <2>2 DEF Calls, Steps
  <2>4. Types'
    BY <1>1, <1>3, <2>1, <2>2, <2>3 DEF Types
  <2>5. CallFacts(c)'
    BY <2>2 DEF CallFacts, Calls
  <2>6. c = "upload" => UploadFacts'
    BY <1>1, <1>2, <1>3, <2>2, SessionAssumption DEF UploadFacts, RecordFacts, Accounts, Ensure, Calls
  <2>7. \A d \in Callers \ {c} : call'[d] = call[d] /\ Guarded(d)
    BY <1>1, <1>3, <2>1 DEF Types, Guarded
  <2> QED BY <1>1, <1>4, <2>4, <2>5, <2>6, <2>7, SessionStays, CallStep
<1>6. CASE ~flag
  <2>1. Goes(c, IF cached # 0 THEN "post" ELSE "login", cached)
    BY <1>6 DEF Ensure, Goes
  <2>2. (IF cached # 0 THEN "post" ELSE "login") \in Steps /\ cached \in Nat
    BY <1>3 DEF Steps, Types
  <2>3. Types'
    BY <1>1, <1>3, <2>1, <2>2, GoesEffect DEF Types
  <2>4. CallFacts(c)'
    BY <1>1, <1>2, <1>3, <2>1, <2>2, GoesEffect DEF CallFacts, SessionFacts, Owns
  <2>5. c = "upload" => UploadFacts'
    BY <1>1, <2>1, <2>2, GoesEffect, UploadGoes DEF Ensure
  <2>6. \A d \in Callers \ {c} : call'[d] = call[d] /\ Guarded(d)
    BY <1>1, <2>1, <2>2, GoesEffect DEF Guarded
  <2> QED BY <1>1, <1>4, <2>3, <2>4, <2>5, <2>6, SessionStays, CallStep
<1> QED BY <1>5, <1>6

LEMMA LoginInv ==
  ASSUME SessionInv, NEW c \in Callers, Login(c)
  PROVE  SessionInv'
<1>1. /\ record' = record /\ filed' = filed /\ session' = session /\ lock' = lock
      /\ barred' = barred /\ signing' = signing /\ flag' = flag /\ online' = online /\ events' = events
  BY DEF Login, people
<1>2. SessionFacts /\ Types
  BY DEF SessionInv
<1>3. CASE Stops(c) /\ UNCHANGED <<cached, tokens>>
  <2>1. Grown
    BY <1>1, <1>2, <1>3, SameTokens
  <2>2. Types'
    BY <1>1, <1>2, <1>3, StopsEffect DEF Types
  <2>3. \A d \in Callers \ {c} : call'[d] = call[d] /\ Guarded(d)
    BY <1>1, <1>3, StopsEffect DEF Guarded
  <2> QED BY <1>1, <1>3, <2>1, <2>2, <2>3, StopsEffect, StoppedCall, SessionStays, CallStep
<1>4. CASE Issue(Shared) /\ cached' = Len(tokens) + 1 /\ Goes(c, "post", Len(tokens) + 1)
  <2>1. Grown /\ Len(tokens) + 1 \in DOMAIN tokens' /\ tokens'[Len(tokens) + 1].who = Shared
    BY <1>1, <1>2, <1>4, IssueEffect DEF Accounts
  <2>2. Len(tokens) + 1 \in Nat /\ "post" \in Steps
    BY <1>2 DEF Types, Steps
  <2>3. Types'
    BY <1>1, <1>2, <1>4, <2>1, <2>2, GoesEffect DEF Types, Grown
  <2>4. call[c].whose \in {Shared, Nobody} /\ call[c].step # "idle"
    BY DEF Login, SessionInv, CallFacts
  <2>5. CallFacts(c)'
    BY <1>4, <2>1, <2>2, <2>4, GoesEffect DEF CallFacts
  <2>6. c = "upload" => UploadFacts'
    BY <1>1, <1>4, <2>2, <2>4, GoesEffect, UploadGoes
  <2>7. SessionFacts'
    BY <1>1, <1>2, <1>4, <2>1 DEF SessionFacts, SignedIn, Owns, Grown
  <2>8. \A d \in Callers \ {c} : call'[d] = call[d] /\ Guarded(d)
    BY <1>1, <1>4, <2>2, GoesEffect DEF Guarded
  <2> QED BY <1>1, <2>1, <2>3, <2>5, <2>6, <2>7, <2>8, CallStep
<1> QED BY <1>3, <1>4 DEF Login

(* Whose session it is and its token are read under one hold of the lock. *)
LEMMA TakeInv ==
  ASSUME SessionInv, NEW c \in Callers, Take(c)
  PROVE  SessionInv'
<1>1. /\ record' = record /\ filed' = filed /\ tokens' = tokens /\ cached' = cached
      /\ barred' = barred /\ signing' = signing /\ flag' = flag /\ online' = online /\ events' = events
      /\ lock = Nobody /\ call[c].step # "idle"
  BY DEF Take, people
<1>2. SessionFacts /\ Types
  BY DEF SessionInv
<1>3. Grown
  BY <1>1, <1>2, SameTokens
<1>4. \A d \in Callers : Guarded(d)
  BY <1>1, SessionAssumption DEF Guarded
<1>5. CASE Stops(c) /\ UNCHANGED <<session, lock>>
  <2>1. Types'
    BY <1>1, <1>2, <1>3, <1>5, StopsEffect DEF Types
  <2>2. \A d \in Callers \ {c} : call'[d] = call[d]
    BY <1>5, StopsEffect
  <2> QED BY <1>1, <1>3, <1>4, <1>5, <2>1, <2>2, StopsEffect, StoppedCall, SessionStays, CallStep
<1>6. CASE Theirs(c) /\ session.due
  <2>1. session' = [session EXCEPT !.due = TRUE] /\ lock' = c /\ Goes(c, "renew", 0)
    BY <1>6 DEF Take, Token
  <2>2. session'.who = session.who /\ session'.tok = session.tok
        /\ session' \in [who: Operators \cup {Nobody}, tok: Nat, due: BOOLEAN]
    BY <1>2, <2>1 DEF Types
  <2>3. "renew" \in Steps /\ 0 \in Nat
    BY DEF Steps
  <2>4. Types'
    BY <1>1, <1>2, <1>3, <2>1, <2>2, <2>3, GoesEffect DEF Types
  <2>5. CallFacts(c)'
    BY <1>6, <2>1, <2>2, <2>3, GoesEffect DEF CallFacts, Theirs, SignedIn
  <2>6. c = "upload" => UploadFacts'
    BY <1>1, <2>1, <2>3, GoesEffect, UploadGoes
  <2>7. \A d \in Callers \ {c} : call'[d] = call[d]
    BY <2>1, <2>3, GoesEffect
  <2> QED BY <1>1, <1>3, <1>4, <2>2, <2>4, <2>5, <2>6, <2>7, SessionStays, CallStep
<1>7. CASE Theirs(c) /\ ~session.due
  <2>1. Goes(c, "post", session.tok) /\ UNCHANGED <<session, lock>>
    BY <1>7 DEF Take, Token
  <2>2. "post" \in Steps /\ session.tok \in Nat
    BY <1>2 DEF Steps, Types
  <2>3. Types'
    BY <1>1, <1>2, <1>3, <2>1, <2>2, GoesEffect DEF Types
  <2>4. CallFacts(c)'
    BY <1>1, <1>2, <1>7, <2>1, <2>2, GoesEffect DEF CallFacts, Theirs, SessionFacts, Owns
  <2>5. c = "upload" => UploadFacts'
    BY <1>1, <2>1, <2>2, GoesEffect, UploadGoes
  <2>6. \A d \in Callers \ {c} : call'[d] = call[d]
    BY <2>1, <2>2, GoesEffect
  <2> QED BY <1>1, <1>3, <1>4, <2>1, <2>3, <2>4, <2>5, <2>6, SessionStays, CallStep
<1> QED BY <1>5, <1>6, <1>7 DEF Take

(* A renewal ends with the lock free, and the session still its operator's. *)
LEMMA RenewInv ==
  ASSUME SessionInv, NEW c \in Callers, Renew(c)
  PROVE  SessionInv'
<1>1. /\ record' = record /\ filed' = filed /\ lock' = Nobody /\ cached' = cached
      /\ barred' = barred /\ signing' = signing /\ flag' = flag /\ online' = online /\ events' = events
      /\ call[c].step = "renew"
  BY DEF Renew, people
<1>2. SessionFacts /\ Types /\ lock = c /\ Theirs(c)
  BY <1>1 DEF SessionInv, CallFacts
<1>3. \A d \in Callers \ {c} : Guarded(d)
  BY <1>2 DEF Guarded
<1>4. CASE Stops(c) /\ UNCHANGED tokens /\ session' \in {session, NoSession}
  <2>1. Grown
    BY <1>1, <1>2, <1>4, SameTokens
  <2>2. Types'
    <3>1. NoSession \in [who: Operators \cup {Nobody}, tok: Nat, due: BOOLEAN]
      BY DEF NoSession
    <3> QED BY <1>1, <1>2, <1>4, <2>1, <3>1, StopsEffect DEF Types
  <2>3. SessionFacts'
    BY <1>1, <1>2, <1>4, <2>1 DEF SessionFacts, SignedIn, NoSession, Owns, Grown
  <2> QED BY <1>1, <1>3, <1>4, <2>1, <2>2, <2>3, StopsEffect, StoppedCall, CallStep
<1>5. CASE /\ Issue(session.who)
           /\ session' = [session EXCEPT !.tok = Len(tokens) + 1, !.due = FALSE]
           /\ Goes(c, "post", Len(tokens) + 1)
  <2>1. session.who \in Accounts
    BY <1>2 DEF Types, Theirs, SignedIn, Accounts
  <2>2. Grown /\ Len(tokens) + 1 \in DOMAIN tokens' /\ tokens'[Len(tokens) + 1].who = session.who
    BY <1>1, <1>2, <1>5, <2>1, IssueEffect
  <2>3. Len(tokens) + 1 \in Nat /\ "post" \in Steps
    BY <1>2 DEF Types, Steps
  <2>4. session'.who = session.who /\ session'.tok = Len(tokens) + 1
        /\ session' \in [who: Operators \cup {Nobody}, tok: Nat, due: BOOLEAN]
    BY <1>2, <1>5, <2>3 DEF Types
  <2>5. Types'
    BY <1>1, <1>2, <1>5, <2>2, <2>3, <2>4, GoesEffect DEF Types, Grown
  <2>6. CallFacts(c)'
    BY <1>2, <1>5, <2>2, <2>3, GoesEffect DEF CallFacts, Theirs
  <2>7. c = "upload" => UploadFacts'
    BY <1>1, <1>5, <2>3, GoesEffect, UploadGoes
  <2>8. SessionFacts'
    BY <1>1, <1>2, <2>2, <2>4 DEF SessionFacts, SignedIn, Owns, Grown
  <2>9. \A d \in Callers \ {c} : call'[d] = call[d]
    BY <1>5, <2>3, GoesEffect
  <2> QED BY <1>1, <1>3, <2>2, <2>5, <2>6, <2>7, <2>8, <2>9, CallStep
<1> QED BY <1>4, <1>5 DEF Renew

(* What is filed came under the token it was sent with. *)
LEMMA SendInv ==
  ASSUME SessionInv, NEW c \in Callers, Send(c)
  PROVE  SessionInv'
<1> DEFINE answer == Answer(call[c].tok)
           entry == [rec |-> call[c].rec, as |-> tokens[call[c].tok].who, asked |-> call[c].whose]
<1>1. /\ record' = record /\ session' = session /\ lock' = lock /\ cached' = cached /\ tokens' = tokens
      /\ barred' = barred /\ signing' = signing /\ flag' = flag /\ online' = online /\ events' = events
      /\ call[c].step = "post"
  BY DEF Send, people
<1>2. SessionFacts /\ Types /\ CallFacts(c) /\ RecordFacts /\ UploadFacts /\ OwnAccount
  BY DEF SessionInv
<1>3. Grown
  BY <1>1, <1>2, SameTokens
<1>4. CASE Stops(c) /\ UNCHANGED filed
  <2>1. Types'
    BY <1>1, <1>2, <1>3, <1>4, StopsEffect DEF Types
  <2>2. \A d \in Callers \ {c} : call'[d] = call[d] /\ Guarded(d)
    BY <1>1, <1>4, StopsEffect DEF Guarded
  <2> QED BY <1>1, <1>3, <1>4, <2>1, <2>2, StopsEffect, StoppedCall, SessionStays, CallStep
<1>5. CASE Goes(c, answer, call[c].tok) /\ filed' \in {filed, filed \cup {entry}}
           /\ (c # "upload" => filed' = filed)
  <2>1. /\ answer \in Steps /\ call[c].tok \in Nat /\ answer \in {"200", "401", "403"}
        /\ answer = "403" => Refused(tokens[call[c].tok].who, call[c].tok)
    BY <1>2 DEF Steps, Types, Calls, Answer
  <2> HIDE DEF answer
  <2>2. /\ call[c].tok \in DOMAIN tokens
        /\ call[c].whose # Nobody => tokens[call[c].tok].who = call[c].whose
    BY <1>1, <1>2 DEF CallFacts
  <2>3. tokens[call[c].tok].who \in Accounts
    <3>1. tokens[call[c].tok] \in Tokens
      BY <1>2, <2>2 DEF Types
    <3> QED BY <3>1 DEF Tokens
  <2>4. c = "upload" => /\ entry \in [rec: Records, as: Accounts, asked: Accounts \cup {Nobody}]
                        /\ record[entry.rec].phase \in Made
                        /\ entry.as = record[entry.rec].tag \/ (entry.asked = Nobody /\ record[entry.rec].tag = Shared)
    <3>1. /\ entry.rec = call[c].rec /\ entry.as = tokens[call[c].tok].who /\ entry.asked = call[c].whose
          /\ call[c].whose \in Accounts \cup {Nobody}
      BY <1>2 DEF Types, Calls
    <3>2. c = "upload" => /\ call[c].rec \in Records /\ record[call[c].rec].phase \in Made
                          /\ call[c].whose = record[call[c].rec].tag
                               \/ (call[c].whose = Nobody /\ record[call[c].rec].tag = Shared)
      BY <1>1, <1>2 DEF UploadFacts
    <3>3. c = "upload" => entry \in [rec: Records, as: Accounts, asked: Accounts \cup {Nobody}]
      BY <2>3, <3>1, <3>2
    <3>4. c = "upload" => entry.as = record[entry.rec].tag \/ (entry.asked = Nobody /\ record[entry.rec].tag = Shared)
      <4>1. CASE call[c].whose = Nobody
        BY <3>1, <3>2, <4>1, <1>2, SessionAssumption DEF RecordFacts, Accounts
      <4>2. CASE call[c].whose # Nobody
        BY <2>2, <3>1, <3>2, <4>2
      <4> QED BY <4>1, <4>2
    <3> QED BY <3>1, <3>2, <3>3, <3>4
  <2> HIDE DEF entry
  <2>5. Types'
    BY <1>1, <1>2, <1>3, <1>5, <2>1, <2>4, GoesEffect DEF Types
  <2>6. RecordFacts' /\ OwnAccount'
    BY <1>1, <1>2, <1>5, <2>4 DEF RecordFacts, OwnAccount
  <2>7. CallFacts(c)'
    BY <1>1, <1>5, <2>1, <2>2, GoesEffect DEF CallFacts, Refused
  <2>8. UploadFacts'
    <3>1. Settled
      BY <1>1 DEF Settled
    <3> QED BY <1>1, <1>2, <1>5, <2>1, <3>1, GoesEffect, UploadGoes, UploadStays DEF Callers
  <2>9. \A d \in Callers \ {c} : CallFacts(d)'
    <3>1. \A d \in Callers \ {c} : call'[d] = call[d] /\ Guarded(d)
      BY <1>1, <1>5, <2>1, GoesEffect DEF Guarded
    <3> QED BY <1>2, <1>3, <3>1, CallStays DEF SessionInv
  <2>10. SessionFacts'
    BY <1>1, <1>3, SessionStays
  <2> QED BY <2>5, <2>6, <2>7, <2>8, <2>9, <2>10 DEF SessionInv
<1> QED BY <1>4, <1>5 DEF Send

(* The record leaves the queue with its tag. *)
LEMMA TakenInv ==
  ASSUME SessionInv, NEW c \in Callers, Taken(c)
  PROVE  SessionInv'
<1>1. /\ Stops(c) /\ call[c].step # "idle"
      /\ UNCHANGED <<flag, session, cached, lock, signing, tokens, barred, filed, online, events>>
  BY DEF Taken
<1>2. SessionFacts /\ Types /\ RecordFacts /\ UploadFacts /\ OwnAccount
  BY DEF SessionInv
<1>3. Grown
  BY <1>1, <1>2, SameTokens
<1>4. /\ record' \in [Records -> [phase: Phases, tag: Accounts \cup {Nobody}]]
      /\ \A r \in Records : record'[r].tag = record[r].tag
      /\ \A r \in Records : record'[r].phase \in Made <=> record[r].phase \in Made
  <2>1. CASE c = "upload"
    <3>1. call[c].rec \in Records /\ record[call[c].rec].phase \in Made
      BY <1>1, <1>2, <2>1 DEF UploadFacts
    <3>2. record' = [record EXCEPT ![call[c].rec] = [record[call[c].rec] EXCEPT !.phase = "sent"]]
      BY <2>1 DEF Taken
    <3> QED BY <1>2, <3>1, <3>2 DEF Types, Phases, Made
  <2>2. CASE c # "upload"
    BY <1>2, <2>2 DEF Taken, Types
  <2> QED BY <2>1, <2>2
<1>5. Types'
  BY <1>1, <1>2, <1>3, <1>4, StopsEffect DEF Types
<1>6. RecordFacts' /\ OwnAccount' /\ Settled
  <2>1. \A f \in filed : f.rec \in Records
    BY <1>2 DEF Types
  <2> QED BY <1>1, <1>2, <1>4, <2>1 DEF RecordFacts, OwnAccount, Settled
<1>7. \A d \in Callers : CallFacts(d)'
  BY <1>1, <1>2, <1>3, StopsEffect, StoppedCall, CallStays DEF SessionInv, Guarded
<1>8. UploadFacts'
  BY <1>1, <1>2, <1>6, StopsEffect, StoppedCall, UploadStays DEF Callers
<1>9. SessionFacts'
  BY <1>1, <1>3, SessionStays
<1> QED BY <1>5, <1>6, <1>7, <1>8, <1>9 DEF SessionInv

LEMMA LostInv ==
  ASSUME SessionInv, NEW c \in Callers, Lost(c)
  PROVE  SessionInv'
<1>1. Stops(c) /\ UNCHANGED <<flag, signing, record, online, events, session, cached, lock, tokens, barred, filed>>
  BY DEF Lost, people
<1>2. Types /\ Grown
  BY <1>1, SameTokens DEF SessionInv
<1>3. Types'
  BY <1>1, <1>2, StopsEffect DEF Types
<1>4. \A d \in Callers \ {c} : call'[d] = call[d] /\ Guarded(d)
  BY <1>1, StopsEffect DEF Guarded
<1> QED BY <1>1, <1>2, <1>3, <1>4, StopsEffect, StoppedCall, SessionStays, CallStep

(* A refusal ends the session it was given to, and no other. *)
LEMMA EndedInv ==
  ASSUME SessionInv, NEW c \in Callers, Ended(c)
  PROVE  SessionInv'
<1>1. /\ Stops(c) /\ lock = Nobody
      /\ UNCHANGED <<flag, signing, record, online, events, lock, tokens, barred, filed>>
      /\ session' \in {session, NoSession} /\ cached' \in {cached, 0}
  BY DEF Ended, people
<1>2. Types /\ SessionFacts /\ Grown
  BY <1>1, SameTokens DEF SessionInv
<1>3. NoSession \in [who: Operators \cup {Nobody}, tok: Nat, due: BOOLEAN]
  BY DEF NoSession
<1>4. Types'
  BY <1>1, <1>2, <1>3, StopsEffect DEF Types
<1>5. \A d \in Callers \ {c} : call'[d] = call[d] /\ Guarded(d)
  BY <1>1, StopsEffect, SessionAssumption DEF Guarded
<1>6. SessionFacts'
  BY <1>1, <1>2 DEF SessionFacts, SignedIn, NoSession, Owns
<1> QED BY <1>1, <1>2, <1>4, <1>5, <1>6, StopsEffect, StoppedCall, CallStep

(* A retry takes the token of the account it asked for. *)
LEMMA UnauthorisedInv ==
  ASSUME SessionInv, NEW c \in Callers, Unauthorised(c)
  PROVE  SessionInv'
<1>1. /\ UNCHANGED <<flag, signing, record, online, events, cached, tokens, barred, filed>>
      /\ lock = Nobody /\ call[c].step # "idle"
  BY DEF Unauthorised, people
<1>2. Types /\ SessionFacts /\ Grown
  BY <1>1, SameTokens DEF SessionInv
<1>3. \A d \in Callers : Guarded(d)
  BY <1>1, SessionAssumption DEF Guarded
<1>4. CASE Stops(c) /\ UNCHANGED <<session, lock>>
  <2>1. Types'
    BY <1>1, <1>2, <1>4, StopsEffect DEF Types
  <2>2. \A d \in Callers \ {c} : call'[d] = call[d]
    BY <1>4, StopsEffect
  <2> QED BY <1>1, <1>2, <1>3, <1>4, <2>1, <2>2, StopsEffect, StoppedCall, SessionStays, CallStep
<1>5. ASSUME NEW due \in BOOLEAN, Theirs(c),
             session' = [session EXCEPT !.due = due], lock' = IF due THEN c ELSE Nobody,
             call' = [call EXCEPT ![c].step = IF due THEN "renew" ELSE "post",
                                  ![c].tok = IF due THEN 0 ELSE session.tok, ![c].again = TRUE]
      PROVE  SessionInv'
  <2>1. session'.who = session.who /\ session'.tok = session.tok
        /\ session' \in [who: Operators \cup {Nobody}, tok: Nat, due: BOOLEAN]
    BY <1>2, <1>5 DEF Types
  <2>2. /\ call' \in [Callers -> Calls] /\ \A d \in Callers \ {c} : call'[d] = call[d]
        /\ call'[c].step = (IF due THEN "renew" ELSE "post") /\ call'[c].tok = (IF due THEN 0 ELSE session.tok)
        /\ call'[c].rec = call[c].rec /\ call'[c].whose = call[c].whose
    <3> DEFINE onto == IF due THEN "renew" ELSE "post"
               tok == IF due THEN 0 ELSE session.tok
    <3>1. onto \in Steps /\ tok \in Nat
      BY <1>2 DEF Types, Steps
    <3>2. call' = [call EXCEPT ![c].step = onto, ![c].tok = tok, ![c].again = TRUE]
      BY <1>5
    <3> HIDE DEF onto, tok
    <3>3. /\ call' \in [Callers -> Calls] /\ \A d \in Callers \ {c} : call'[d] = call[d]
          /\ call'[c].step = onto /\ call'[c].tok = tok
          /\ call'[c].rec = call[c].rec /\ call'[c].whose = call[c].whose
      <4> DEFINE next == [call[c] EXCEPT !.step = onto, !.tok = tok, !.again = TRUE]
      <4>1. call \in [Callers -> Calls] /\ call[c] \in Calls
        BY <1>2 DEF Types
      <4>2. /\ next \in Calls /\ next.step = onto /\ next.tok = tok
            /\ next.rec = call[c].rec /\ next.whose = call[c].whose
        BY <3>1, <4>1 DEF Calls
      <4>3. call' = [call EXCEPT ![c] = next]
        BY <3>2
      <4> QED BY <4>1, <4>2, <4>3
    <3> QED BY <3>3 DEF onto, tok
  <2>3. Types'
    BY <1>1, <1>2, <1>5, <2>1, <2>2 DEF Types
  <2>4. CallFacts(c)'
    BY <1>1, <1>2, <1>5, <2>1, <2>2 DEF CallFacts, Theirs, SignedIn, SessionFacts, Owns
  <2>5. c = "upload" => UploadFacts'
    BY <1>1, <2>2, UploadGoes
  <2> QED BY <1>1, <1>2, <1>3, <2>1, <2>2, <2>3, <2>4, <2>5, SessionStays, CallStep
<1>6. CASE ~GivesUp(c)
  <2>1. Theirs(c)
    BY <1>6 DEF GivesUp
  <2>2. (session.due \/ session.tok = call[c].tok) \in BOOLEAN
    BY <1>2 DEF Types
  <2> QED BY <1>5, <1>6, <2>1, <2>2, Zenon DEF Unauthorised
<1> QED BY <1>4, <1>6 DEF Unauthorised

-----------------------------------------------------------------------------
(* People, the clock, the server and the network *)

(* What leaves the session, the tokens in hand and the requests alone. *)
LEMMA QuietEvent ==
  ASSUME SessionInv, Event, Grown, flag' \in BOOLEAN, online' \in BOOLEAN, barred' \subseteq Accounts,
         session'.who = session.who, session'.tok = session.tok,
         session' \in [who: Operators \cup {Nobody}, tok: Nat, due: BOOLEAN],
         cached' = cached, signing' = signing
  PROVE  SessionInv'
<1>1. UNCHANGED <<call, record, filed, lock>> /\ events' = events + 1
  BY DEF Event
<1>2. Types'
  BY <1>1 DEF SessionInv, Types, Grown
<1>3. \A d \in Callers : Guarded(d)
  BY <1>1 DEF Guarded
<1> QED BY <1>1, <1>2, <1>3, SessionStays, EventStep

LEMMA SignInInv ==
  ASSUME SessionInv, NEW u \in Operators, SignIn(u)
  PROVE  SessionInv'
<1>1. /\ Issue(u) /\ signing' = signing \cup {Len(tokens) + 1}
      /\ UNCHANGED <<flag, session, cached, barred, online, call, record, filed, lock>> /\ events' = events + 1
  BY DEF SignIn, Event
<1>2. Types /\ SessionFacts
  BY DEF SessionInv
<1>3. Grown /\ Len(tokens) + 1 \in DOMAIN tokens' /\ tokens'[Len(tokens) + 1].who = u
  BY <1>1, <1>2, IssueEffect DEF Accounts
<1>4. Len(tokens) + 1 \in Nat
  BY <1>2 DEF Types
<1>5. Types'
  <2>1. signing' \subseteq Nat
    BY <1>1, <1>2, <1>4 DEF Types
  <2>2. tokens' \in Seq(Tokens) /\ events' \in Nat
    BY <1>1, <1>2, <1>3 DEF Types, Grown
  <2> QED BY <1>1, <1>2, <2>1, <2>2 DEF Types
<1>6. SessionFacts'
  <2>1. \A t \in signing' : t \in DOMAIN tokens' /\ tokens'[t].who \in Operators
    BY <1>1, <1>2, <1>3 DEF SessionFacts, Grown
  <2>2. SignedIn' => Owns(session.who, session.tok)'
    BY <1>1, <1>2, <1>3 DEF SessionFacts, SignedIn, Owns, Grown
  <2>3. cached' # 0 => Owns(Shared, cached)'
    BY <1>1, <1>2, <1>3 DEF SessionFacts, Owns, Grown
  <2> QED BY <2>1, <2>2, <2>3 DEF SessionFacts
<1>7. \A d \in Callers : Guarded(d)
  BY <1>1 DEF Guarded
<1> QED BY <1>1, <1>3, <1>5, <1>6, <1>7, EventStep

(* Whoever the session is given to, no renewal is under way. *)
LEMMA AdoptInv ==
  ASSUME SessionInv, NEW t \in signing, Adopt(t)
  PROVE  SessionInv'
<1>1. /\ session' = [who |-> tokens[t].who, tok |-> t, due |-> FALSE] /\ signing' \subseteq signing /\ lock = Nobody
      /\ UNCHANGED <<flag, cached, lock, call, record, tokens, barred, filed, online, events>>
  BY DEF Adopt
<1>2. Types /\ SessionFacts /\ Grown
  BY <1>1, SameTokens DEF SessionInv
<1>3. t \in DOMAIN tokens /\ tokens[t].who \in Operators /\ t \in Nat
  BY <1>2 DEF SessionFacts, Types
<1>4. Types'
  BY <1>1, <1>2, <1>3 DEF Types
<1>5. SessionFacts'
  BY <1>1, <1>2, <1>3 DEF SessionFacts, SignedIn, Owns
<1>6. \A d \in Callers : Guarded(d)
  BY <1>1, SessionAssumption DEF Guarded
<1> QED BY <1>1, <1>2, <1>4, <1>5, <1>6, EventStep

LEMMA SignOutInv ==
  ASSUME SessionInv, SignOut
  PROVE  SessionInv'
<1>1. /\ session' = NoSession /\ lock = Nobody /\ events' = events + 1
      /\ UNCHANGED <<flag, cached, signing, lock, call, record, tokens, barred, filed, online>>
  BY DEF SignOut, Event
<1>2. Types /\ SessionFacts /\ Grown
  BY <1>1, SameTokens DEF SessionInv
<1>3. NoSession \in [who: Operators \cup {Nobody}, tok: Nat, due: BOOLEAN]
  BY DEF NoSession
<1>4. Types'
  BY <1>1, <1>2, <1>3 DEF Types
<1>5. SessionFacts'
  BY <1>1, <1>2 DEF SessionFacts, SignedIn, Owns, NoSession
<1>6. \A d \in Callers : Guarded(d)
  BY <1>1, SessionAssumption DEF Guarded
<1> QED BY <1>1, <1>2, <1>4, <1>5, <1>6, EventStep

(* The events that take nobody's session. *)
LEMMA OtherEvents ==
  ASSUME SessionInv,
         \/ Rescan \/ Near \/ Network
         \/ \E u \in Accounts : Disable(u) \/ NewPassword(u)
         \/ \E t \in DOMAIN tokens : Expire(t)
  PROVE  SessionInv'
<1>1. Types
  BY DEF SessionInv
<1>2. CASE Rescan
  <2>1. tokens' = tokens /\ barred' = barred /\ flag' \in BOOLEAN
    BY <1>2 DEF Rescan
  <2> QED BY <1>1, <1>2, <2>1, SameTokens, QuietEvent DEF Rescan, Types
<1>3. CASE Network
  <2>1. tokens' = tokens /\ barred' = barred /\ online' \in BOOLEAN
    BY <1>3 DEF Network
  <2> QED BY <1>1, <1>3, <2>1, SameTokens, QuietEvent DEF Network, Types
<1>4. CASE Near
  <2>1. tokens' = tokens /\ barred' = barred /\ session' = [session EXCEPT !.due = TRUE]
    BY <1>4 DEF Near
  <2>2. session'.who = session.who /\ session'.tok = session.tok
        /\ session' \in [who: Operators \cup {Nobody}, tok: Nat, due: BOOLEAN]
    BY <1>1, <2>1 DEF Types
  <2> QED BY <1>1, <1>4, <2>1, <2>2, SameTokens, QuietEvent DEF Near, Types
<1>5. ASSUME NEW u \in Accounts, Disable(u)
      PROVE  SessionInv'
  <2>1. tokens' = tokens /\ barred' = barred \cup {u} /\ barred' \subseteq Accounts
    BY <1>1, <1>5 DEF Disable, Types
  <2> QED BY <1>1, <1>5, <2>1, SameTokens, QuietEvent DEF Disable, Types
<1>6. ASSUME NEW u \in Accounts, NewPassword(u)
      PROVE  SessionInv'
  BY <1>1, <1>6, PasswordEffect, QuietEvent DEF NewPassword, Types
<1>7. ASSUME NEW t \in DOMAIN tokens, Expire(t)
      PROVE  SessionInv'
  BY <1>1, <1>7, ExpireEffect, QuietEvent DEF Expire, Types
<1> QED BY <1>2, <1>3, <1>4, <1>5, <1>6, <1>7

(* A restart forgets every request; what is made keeps its tag. *)
LEMMA RestartInv ==
  ASSUME SessionInv, Restart
  PROVE  SessionInv'
<1>1. /\ session' = NoSession /\ cached' = 0 /\ lock' = Nobody /\ signing' = {} /\ events' = events + 1
      /\ call' = [c \in Callers |-> Idle]
      /\ UNCHANGED <<flag, tokens, barred, filed, online>>
  BY DEF Restart
<1>2. Types /\ RecordFacts /\ OwnAccount /\ Grown
  BY <1>1, SameTokens DEF SessionInv
<1>3. /\ record' \in [Records -> [phase: Phases, tag: Accounts \cup {Nobody}]]
      /\ \A r \in Records : record[r].phase \in Made => record'[r] = record[r]
      /\ \A r \in Records : record'[r].phase \in Made => record'[r].tag \in Accounts
  <2>1. \A r \in Records :
          record'[r] = CASE record[r].phase = "gated" -> [phase |-> "none", tag |-> Nobody]
                         [] record[r].phase = "running" ->
                              [phase |-> "waiting", tag |-> IF record[r].tag = Nobody THEN Shared ELSE record[r].tag]
                         [] OTHER -> record[r]
    BY DEF Restart
  <2>2. record' = [r \in Records |-> record'[r]]
    BY DEF Restart
  <2>3. \A r \in Records : record[r] \in [phase: Phases, tag: Accounts \cup {Nobody}]
    BY <1>2 DEF Types
  <2>4. ASSUME NEW r \in Records
        PROVE  /\ record'[r] \in [phase: Phases, tag: Accounts \cup {Nobody}]
               /\ record[r].phase \in Made => record'[r] = record[r]
               /\ record'[r].phase \in Made => record'[r].tag \in Accounts
    <3>0. record[r].tag \in Accounts \cup {Nobody} /\ record[r].phase \in Phases /\ Shared \in Accounts
      BY <2>3 DEF Accounts
    <3>1. CASE record[r].phase = "gated"
      <4>1. record'[r] = [phase |-> "none", tag |-> Nobody]
        BY <2>1, <3>1
      <4> QED BY <3>1, <4>1 DEF Phases, Made
    <3>2. CASE record[r].phase = "running"
      <4> DEFINE tag == IF record[r].tag = Nobody THEN Shared ELSE record[r].tag
      <4>1. record'[r] = [phase |-> "waiting", tag |-> tag]
        BY <2>1, <3>2
      <4>2. tag \in Accounts
        BY <3>0
      <4> HIDE DEF tag
      <4> QED BY <3>2, <4>1, <4>2 DEF Phases, Made
    <3>3. CASE record[r].phase \notin {"gated", "running"}
      BY <1>2, <2>1, <2>3, <3>3 DEF RecordFacts
    <3> QED BY <3>1, <3>2, <3>3
  <2> QED BY <2>2, <2>4
<1>4. Idle \in Calls /\ NoSession \in [who: Operators \cup {Nobody}, tok: Nat, due: BOOLEAN]
  BY DEF Idle, Calls, Steps, NoSession
<1>5. Types'
  BY <1>1, <1>2, <1>3, <1>4 DEF Types, Grown
<1>6. RecordFacts' /\ OwnAccount'
  BY <1>1, <1>2, <1>3 DEF RecordFacts, OwnAccount, Types
<1>7. SessionFacts'
  BY <1>1 DEF SessionFacts, SignedIn, NoSession
<1>8. \A d \in Callers : call'[d] = Idle
  BY <1>1
<1>9. UploadFacts' /\ \A d \in Callers : CallFacts(d)'
  BY <1>8, StoppedCall DEF Callers
<1> QED BY <1>5, <1>6, <1>7, <1>9 DEF SessionInv

-----------------------------------------------------------------------------
(* The invariant *)

LEMMA InitInv == Init => SessionInv
<1> SUFFICES ASSUME Init PROVE SessionInv
  OBVIOUS
<1>1. Idle \in Calls /\ NoSession \in [who: Operators \cup {Nobody}, tok: Nat, due: BOOLEAN]
  BY DEF Idle, Calls, Steps, NoSession
<1>2. tokens \in Seq(Tokens)
  BY DEF Init
<1>3. Types
  BY <1>1, <1>2, SessionAssumption DEF Init, Types, Phases
<1>4. \A d \in Callers : call[d].step = "idle"
  BY DEF Init, Idle
<1>5. UploadFacts /\ \A d \in Callers : CallFacts(d)
  BY <1>4 DEF UploadFacts, CallFacts, Callers
<1>6. RecordFacts /\ SessionFacts /\ OwnAccount
  BY DEF Init, RecordFacts, SessionFacts, OwnAccount, SignedIn, NoSession, Made
<1> QED BY <1>3, <1>5, <1>6 DEF SessionInv

LEMMA WorksInv ==
  ASSUME SessionInv, NEW c \in Callers, Works(c)
  PROVE  SessionInv'
BY EnsureInv, LoginInv, TakeInv, RenewInv, SendInv, TakenInv, LostInv, EndedInv, UnauthorisedInv DEF Works

LEMMA NextInv == SessionInv /\ [Next]_vars => SessionInv'
<1> SUFFICES ASSUME SessionInv, [Next]_vars PROVE SessionInv'
  OBVIOUS
<1>1. CASE UNCHANGED vars
  <2>1. Types /\ Grown /\ Types'
    BY <1>1, SameTokens DEF vars, SessionInv, Types
  <2> QED BY <1>1, <2>1, SessionStays, EventStep DEF vars, Guarded
<1>2. CASE Happens
  BY <1>2, SignOutInv, SignInInv, OtherEvents, RestartInv DEF Happens
<1>3. ASSUME NEW t \in DOMAIN tokens, Adopt(t) PROVE SessionInv'
  BY <1>3, AdoptInv DEF Adopt
<1>4. CASE \E r \in Records : Wiping(r) \/ Upload(r)
  BY <1>4, WipingInv, UploadInv
<1>5. CASE Lists \/ \E c \in Callers : Works(c)
  BY <1>5, ListsInv, WorksInv
<1> QED BY <1>1, <1>2, <1>3, <1>4, <1>5 DEF Next

(* Whoever signs in or out, whatever the setting and the server do meanwhile: each
   token in hand is of the account it was asked for. *)
THEOREM SessionInvariant == Spec => []SessionInv
BY InitInv, NextInv, PTL DEF Spec

(* "It is never re-attributed": a record is filed under the account of its tag. *)
THEOREM RecordsStayTheirs == Spec => []OwnAccount
<1>1. SessionInv => OwnAccount
  BY DEF SessionInv
<1> QED BY <1>1, SessionInvariant, PTL

-----------------------------------------------------------------------------
(* Whose refusal ends a session *)

LEMMA NextStands ==
  ASSUME SessionInv, [Next]_vars, SignedIn, session'.who # session.who
  PROVE  Refused(session.who, session.tok) \/ SignOut \/ Restart \/ \E t \in signing : Adopt(t)
<1>1. Next /\ session' # session
  BY DEF vars
<1>2. ASSUME NEW c \in Callers, Works(c) PROVE Refused(session.who, session.tok)
  <2>1. CASE Ended(c)
    <3>1. call[c].step = "403" /\ session.tok = call[c].tok
      BY <1>1, <2>1 DEF Ended
    <3> QED BY <3>1 DEF SessionInv, CallFacts, SessionFacts, Owns
  <2>2. CASE Renew(c)
    BY <2>2, session'.who # session.who DEF Renew, SessionInv, Types
  <2>3. CASE Take(c)
    BY <2>3, session'.who # session.who DEF Take, Token, SessionInv, Types
  <2>4. CASE Unauthorised(c)
    BY <2>4, session'.who # session.who DEF Unauthorised, SessionInv, Types
  <2>5. CASE Ensure(c) \/ Login(c) \/ Send(c) \/ Taken(c) \/ Lost(c)
    BY <1>1, <2>5 DEF Ensure, Login, Send, Taken, Lost
  <2> QED BY <1>2, <2>1, <2>2, <2>3, <2>4, <2>5 DEF Works
<1>3. CASE Happens
  <2>1. session'.who = session.who \/ SignOut \/ Restart
    BY <1>3 DEF Happens, Rescan, Near, Network, SignIn, Disable, NewPassword, Expire, SessionInv, Types
  <2> QED BY <2>1
<1>4. ASSUME NEW t \in DOMAIN tokens, Adopt(t) PROVE \E s \in signing : Adopt(s)
  BY <1>4 DEF Adopt
<1>5. ASSUME NEW r \in Records, Wiping(r) \/ Upload(r) PROVE FALSE
  BY <1>1, <1>5 DEF Wiping, Gate, WipeStart, WipeEnds, Moves, Upload, Begins
<1>6. CASE Lists
  BY <1>1, <1>6 DEF Lists, Begins
<1> QED BY <1>1, <1>2, <1>3, <1>4, <1>5, <1>6 DEF Next

(* "The new session is not theirs to end": only its own refusal, its own sign-out,
   another sign-in or a restart ends a session. *)
THEOREM SessionsStand == Spec => SessionStands
<1>1. SessionInv /\ [Next]_vars =>
        [SignedIn /\ session'.who # session.who =>
           Refused(session.who, session.tok) \/ SignOut \/ Restart \/ \E t \in signing : Adopt(t)]_vars
  BY NextStands
<1> QED BY <1>1, SessionInvariant, PTL DEF Spec, SessionStands

-----------------------------------------------------------------------------
(* Locks *)

Audit ==
  [rollup: LockStatuses, lock: LockStatuses, bios: {"unsaid", "true", "false"},
   saw: Screens \cup {"none"}, plain: BOOLEAN]

Request == [on: Nat, lock: LockStatuses \cup {"none"}, saw: Screens \cup {"none", "filed"}]

\* The detectors before the one that is next have filed what this machine, on
\* this stick, lets them file.
Filed ==
  /\ os \in OsSays
  /\ \A i \in DOMAIN Detectors :
       rows[Detectors[i]] \in (IF i < step - 1 THEN Says(Detectors[i]) ELSE {"none"})

ChecksRun == Has("lock-checks") /\ step > 1

CaptureInv ==
  /\ machine \in MachineKinds /\ stick \in StickKinds
  /\ step \in 0..12 /\ looked \in BOOLEAN /\ rows \in [Keys -> Statuses \cup {"none"}]
  /\ ~Has("lock-checks") => step \in {0, 12}
  /\ ChecksRun => Filed
  /\ ~ChecksRun => rows = NoRows /\ os = "unread"

\* A status read by a request is as good as the one it will overwrite.
AuditsInv ==
  /\ audits \in Seq(Audit) /\ oobe \in [Technicians -> Request]
  /\ LocksAreTold
  /\ \A t \in Technicians : oobe[t].on # 0 =>
       /\ oobe[t].on \in DOMAIN audits
       /\ oobe[t].lock \in LockStatuses /\ oobe[t].saw \in Screens
       /\ audits[oobe[t].on].plain => oobe[t].lock = "LOCKED"

LocksInv == CaptureInv /\ AuditsInv

-----------------------------------------------------------------------------
(* What each detector may file *)

LEMMA TenDetectors ==
  /\ DOMAIN Detectors = 1..10 /\ Len(Detectors) = 10 /\ Done = 12
  /\ Keys = {"autopilot", "mdm", "entra", "domainJoin", "biosPassword",
             "secureBoot", "setupMode", "tpm", "absolute", "bitlocker"}
  /\ \A k \in Keys : \E i \in 1..10 : Detectors[i] = k
<1>1. DOMAIN Detectors = 1..10 /\ Len(Detectors) = 10
  BY DEF Detectors
<1>2. \A k \in {"autopilot", "mdm", "entra", "domainJoin", "biosPassword",
                "secureBoot", "setupMode", "tpm", "absolute", "bitlocker"} :
        \E i \in 1..10 : Detectors[i] = k
  BY <1>1 DEF Detectors
<1>3. \A i \in 1..10 : Detectors[i] \in
        {"autopilot", "mdm", "entra", "domainJoin", "biosPassword",
         "secureBoot", "setupMode", "tpm", "absolute", "bitlocker"}
  BY <1>1 DEF Detectors
<1> QED
  BY <1>1, <1>2, <1>3 DEF Keys, Done

\* No read of a hive is of anything but yes and no.
LEMMA ReadsAreBoolean ==
  ASSUME NEW tool, NEW hive
  PROVE  Reads(tool, hive) \subseteq BOOLEAN
BY DEF Reads, Has

\* A tool that cannot open a hive reads nothing; one that can, and fails, has a torn hive.
LEMMA FailedRead ==
  ASSUME NEW tool, NEW hive, FALSE \in Reads(tool, hive), Has(tool)
  PROVE  \/ machine.hives[hive] \in {"missing", "shut", "torn"}
         \/ machine.hives[hive] = "half" /\ tool # "hivexsh"
BY DEF Reads, Has

LEMMA MixedRead ==
  ASSUME NEW tool, NEW hive, FALSE \in Reads(tool, hive), TRUE \in Reads(tool, hive)
  PROVE  machine.hives[hive] = "torn"
BY DEF Reads, Has

LEMMA StatusesFiled ==
  ASSUME CaptureInv, NEW k \in Keys
  PROVE  Says(k) \subseteq Statuses
<1> USE DEF Statuses
<1>1. CASE k = "autopilot"
  BY <1>1 DEF Says, AutopilotSays, AutopilotRow
<1>2. CASE k = "mdm"
  BY <1>2 DEF Says, MdmSays, MdmRow
<1>3. CASE k = "entra"
  BY <1>3 DEF Says, EntraSays, EntraRow
<1>4. CASE k = "domainJoin"
  BY <1>4 DEF Says, DomainSays, DomainRow
<1>5. CASE k \in {"biosPassword", "secureBoot", "setupMode", "tpm", "bitlocker"}
  BY <1>5 DEF Says, BiosPasswordSays, SecureBootSays, SetupModeSays, TpmSays, BitlockerSays
<1>6. CASE k = "absolute"
  <2>1. /\ machine.wpbt \in {"none", "bad", "names", "alias", "hides", "other"}
        /\ machine.vendor \in {"none", "off", "ready", "activated", "odd"}
    BY DEF CaptureInv, MachineKinds
  <2> QED
    BY <1>6, <2>1 DEF Says, AbsoluteSays
<1> QED
  BY <1>1, <1>2, <1>3, <1>4, <1>5, <1>6, TenDetectors

-----------------------------------------------------------------------------
(* PASS is filed on a lock only through a gap *)

LEMMA MdmGap ==
  ASSUME "PASS" \in MdmSays, machine.enrolled, machine \in MachineKinds
  PROVE  Gap("mdm")
<1>1. ~Blocked("hivexsh")
  BY DEF MdmSays
<1> DEFINE sh == Reads("hivexsh", "software")
           get == Reads("hivexget", "software")
<1>2. PICK r \in [opens: sh, lists: sh, stock: sh, key: sh, url: get, id: get] : MdmRow(r) = "PASS"
  BY <1>1 DEF MdmSays
<1>3. r.opens /\ ~r.url /\ r.opens \in sh /\ r.url \in get
  <2>1. r.opens \in sh /\ r.url \in get
    BY <1>2
  <2>2. r.opens /\ ~r.url
    BY <1>2 DEF MdmRow
  <2> QED
    BY <2>1, <2>2
<1>4. FALSE \in get /\ TRUE \in sh
  <2>1. r.opens \in BOOLEAN /\ r.url \in BOOLEAN
    BY <1>3, ReadsAreBoolean
  <2> QED
    BY <1>3, <2>1
<1>5. machine.hives["software"] \notin {"missing", "shut"}
  BY <1>4 DEF Reads
<1>6. Has("hivexget") => machine.hives["software"] \in {"half", "torn"}
  BY <1>4, <1>5, FailedRead
<1> QED
  BY <1>6 DEF Gap

LEMMA EntraGap ==
  ASSUME "PASS" \in EntraSays, machine.joined, machine \in MachineKinds
  PROVE  Gap("entra")
<1>1. ~Blocked("hivexsh") /\ machine.hives["system"] # "missing"
  BY DEF EntraSays
<1> DEFINE sh == Reads("hivexsh", "system")
           get == Reads("hivexget", "system")
<1>2. PICK r \in [current: get, set: sh, info: sh, lists: sh] : EntraRow(r) = "PASS"
  BY <1>1 DEF EntraSays
<1>3. r.current \in get /\ r.set \in sh /\ r.info \in sh
  BY <1>2
<1>4. ~CurrentSet(r) \/ ~r.info
  <2>1. CASE CurrentSet(r) /\ r.info
    BY <1>2, <2>1 DEF EntraRow
  <2> QED
    BY <2>1
<1>5. \/ FALSE \in sh
      \/ machine.second /\ FALSE \in get
  <2>1. {r.current, r.set, r.info} \subseteq BOOLEAN
    BY <1>3, ReadsAreBoolean
  <2>2. CASE ~r.info
    BY <1>3, <2>1, <2>2
  <2>3. CASE ~CurrentSet(r)
    BY <1>3, <2>1, <2>3 DEF CurrentSet
  <2> QED
    BY <1>4, <2>2, <2>3
<1>6. Has("hivexsh")
  BY <1>1 DEF Blocked, Looks
<1>7. CASE FALSE \in sh
  BY <1>1, <1>6, <1>7, FailedRead DEF Gap
<1>8. CASE machine.second /\ FALSE \in get
  BY <1>1, <1>8, FailedRead DEF Gap
<1> QED
  BY <1>5, <1>7, <1>8

LEMMA DomainGap ==
  ASSUME "PASS" \in DomainSays, machine.sid, machine \in MachineKinds
  PROVE  Gap("domainJoin")
<1> DEFINE sh == Reads("hivexsh", "security")
           markReads == {f \in [Marks -> BOOLEAN] : \A m \in Marks : f[m] \in MarkReads(m)}
<1>1. PICK r \in [policy: sh, sid: sh, marks: markReads] : DomainRow(r) = "PASS"
  BY DEF DomainSays
<1>2. r.policy /\ ~r.sid /\ r.policy \in sh /\ r.sid \in sh
  BY <1>1 DEF DomainRow
<1>3. TRUE \in sh /\ FALSE \in sh
  BY <1>2, ReadsAreBoolean
<1> QED
  BY <1>3, MixedRead DEF Gap

LEMMA PassHasGap ==
  ASSUME CaptureInv, NEW k \in Keys, "PASS" \in Says(k), HasLock(k)
  PROVE  Gap(k)
<1>0. machine \in MachineKinds
  BY DEF CaptureInv
<1>1. CASE k = "autopilot"
  BY <1>1 DEF Says, AutopilotSays, AutopilotRow
<1>2. CASE k = "mdm"
  BY <1>0, <1>2, MdmGap DEF Says, HasLock
<1>3. CASE k = "entra"
  BY <1>0, <1>3, EntraGap DEF Says, HasLock
<1>4. CASE k = "domainJoin"
  BY <1>0, <1>4, DomainGap DEF Says, HasLock
<1>5. CASE k = "biosPassword"
  <2>1. BiosPasswordSays = "PASS" /\ machine.passwords # {}
    BY <1>5 DEF Says, HasLock
  <2>2. /\ machine.passwords \subseteq {"Admin", "System"}
        /\ machine.shown \in [{"Admin", "System"} -> Shown]
    BY <1>0 DEF MachineKinds
  <2>3. PICK w \in machine.passwords : TRUE
    BY <2>1
  <2>4. machine.shown[w] \notin {"value", "odd"}
    BY <2>1, <2>2 DEF BiosPasswordSays
  <2> QED
    BY <1>5, <2>2, <2>4 DEF Gap, Shown
<1>6. CASE k \in {"secureBoot", "setupMode"}
  BY <1>6 DEF Says, HasLock, SetupModeSays
<1>7. CASE k = "tpm"
  <2>1. TpmSays = "PASS" /\ machine.tpm = "owned"
    BY <1>7 DEF Says, HasLock
  <2> QED
    BY <1>7, <2>1 DEF TpmSays, Gap
<1>8. CASE k = "absolute"
  <2>1. AbsoluteSays = "PASS"
    BY <1>8 DEF Says
  <2>2. /\ machine.wpbt \in {"none", "bad", "names", "alias", "hides", "other"}
        /\ machine.vendor \in {"none", "off", "ready", "activated", "odd"}
    BY <1>0 DEF MachineKinds
  <2> QED
    BY <1>8, <2>1, <2>2 DEF AbsoluteSays, HasLock, Gap
<1>9. CASE k = "bitlocker"
  <2>1. BitlockerSays = "PASS"
    BY <1>9 DEF Says
  <2> QED
    BY <1>9, <2>1 DEF BitlockerSays, Gap
<1> QED
  BY <1>1, <1>2, <1>3, <1>4, <1>5, <1>6, <1>7, <1>8, <1>9, TenDetectors

\* A disk is called empty only when the listing was whole, or stopped before its
\* first volume and was not believed.
LEMMA EmptyIsEmpty ==
  ASSUME machine \in MachineKinds, "none" \in OsSays
  PROVE  machine.volumes = <<>> \/ machine.serves = "first"
<1>1. "none" \in WithoutWindows
  BY DEF OsSays
<1>2. Has("lsblk") /\ DiskVerdict(Listed, TRUE) = "none"
  <2>1. Has("lsblk")
    BY <1>1 DEF WithoutWindows
  <2>2. \A vs : DiskVerdict(vs, FALSE) # "none"
    BY DEF DiskVerdict
  <2> QED
    BY <1>1, <2>1, <2>2 DEF WithoutWindows
<1>3. machine.serves # "none" /\ ~Holds(Listed, Volumes)
  BY <1>2 DEF DiskVerdict, Holds, Volumes
<1>4. machine.volumes \in Seq(Volumes) /\ machine.serves \in {"all", "first", "none"}
  BY DEF MachineKinds
<1>5. CASE machine.serves = "all"
  <2>1. Listed = machine.volumes
    BY <1>2, <1>5 DEF Listed
  <2>2. \A i \in DOMAIN machine.volumes : machine.volumes[i] \in Volumes
    BY <1>4
  <2>3. DOMAIN machine.volumes = {}
    BY <1>3, <2>1, <2>2 DEF Holds
  <2>4. Len(machine.volumes) = 0
    <3>1. Len(machine.volumes) \in Nat /\ DOMAIN machine.volumes = 1..Len(machine.volumes)
      BY <1>4, LenProperties
    <3>2. Len(machine.volumes) > 0 => 1 \in DOMAIN machine.volumes
      BY <3>1
    <3> QED
      BY <2>3, <3>1, <3>2
  <2> QED
    BY <1>4, <2>4, EmptySeq
<1> QED
  BY <1>3, <1>4, <1>5

-----------------------------------------------------------------------------
(* A capture *)

LEMMA PassIsSeenHolds ==
  ASSUME CaptureInv
  PROVE  PassIsSeen
<1> SUFFICES ASSUME NEW k \in Keys, rows[k] = "PASS", HasLock(k)
             PROVE  Gap(k)
  BY DEF PassIsSeen
<1>1. rows # NoRows
  BY DEF NoRows
<1>2. Filed
  BY <1>1 DEF CaptureInv, ChecksRun, Off
<1>3. PICK i \in DOMAIN Detectors : Detectors[i] = k
  BY TenDetectors
<1>4. "PASS" \in Says(k)
  <2>1. rows[k] \in IF i < step - 1 THEN Says(k) ELSE {"none"}
    BY <1>2, <1>3 DEF Filed
  <2> QED
    BY <2>1
<1> QED
  BY <1>4, PassHasGap

LEMMA BlankIsBlankHolds ==
  ASSUME CaptureInv
  PROVE  BlankIsBlank
<1> SUFFICES ASSUME os = "none"
             PROVE  machine.volumes = <<>> \/ machine.serves = "first"
  BY DEF BlankIsBlank
<1>1. "none" \in OsSays /\ machine \in MachineKinds
  BY DEF CaptureInv, ChecksRun, Off, Filed
<1> QED
  BY <1>1, EmptyIsEmpty

LEMMA AccountReads ==
  ASSUME NEW mark, mark = "account"
  PROVE  MarkReads(mark) = Reads("hivexsh", "security")
BY DEF MarkReads

\* A lock that this capture could read is in the rows it files.
LEMMA PlainIsLocked ==
  ASSUME CaptureInv, step = Done, Plain
  PROVE  RollUp = "LOCKED"
<1>1. Has("lock-checks") /\ Filed
  <2>1. Has("lock-checks")
    BY DEF Plain, Opens, BothOpen
  <2>2. step > 1
    BY TenDetectors
  <2> QED
    BY <2>1, <2>2 DEF CaptureInv, ChecksRun
<1>2. \A k \in Keys : rows[k] \in Says(k)
  <2> SUFFICES ASSUME NEW k \in Keys PROVE rows[k] \in Says(k)
    OBVIOUS
  <2>1. PICK i \in 1..10 : Detectors[i] = k
    BY TenDetectors
  <2> QED
    BY <1>1, <2>1, TenDetectors DEF Filed
<1>3. SUFFICES \E k \in Keys : Says(k) = {"LOCKED"}
  <2>1. \E k \in Keys : rows[k] = "LOCKED"
    BY <1>2, <1>3
  <2> QED
    BY <2>1 DEF RollUp
<1>4. CASE machine.traces \cap {"registry", "file"} # {} /\ Opens("hivexget", "software")
  <2>1. ~Blocked("hivexget") /\ Reads("hivexget", "software") = {TRUE}
    BY <1>4 DEF Opens, Blocked
  <2>2. machine.traces \subseteq Traces
    BY DEF CaptureInv, MachineKinds
  <2> DEFINE R == [product: {TRUE}, registry: {TRUE}, file: {TRUE}, log: {FALSE, Has("evtxexport")}]
  <2>3. AutopilotSays = {AutopilotRow(r) : r \in R}
    BY <2>1 DEF AutopilotSays
  <2>4. \A r \in R : AutopilotRow(r) = "LOCKED"
    <3> TAKE r \in R
    <3>1. r.product /\ r["registry"] /\ r["file"]
      OBVIOUS
    <3>2. machine.traces \cap {t \in Traces : r[t]} # {}
      BY <1>4, <3>1 DEF Traces
    <3> QED
      BY <3>1, <3>2 DEF AutopilotRow
  <2>5. [product |-> TRUE, registry |-> TRUE, file |-> TRUE, log |-> FALSE] \in R
    OBVIOUS
  <2>6. Says("autopilot") = {"LOCKED"}
    BY <2>3, <2>4, <2>5 DEF Says
  <2> QED
    BY <2>6, TenDetectors
<1>5. CASE machine.enrolled /\ BothOpen("software")
  <2>1. /\ ~Blocked("hivexsh") /\ Reads("hivexget", "software") = {TRUE}
        /\ Reads("hivexsh", "software") = {TRUE}
    BY <1>5 DEF BothOpen, Opens, Blocked
  <2> DEFINE R == [opens: {TRUE}, lists: {TRUE}, stock: {TRUE}, key: {TRUE}, url: {TRUE}, id: {TRUE}]
  <2>2. MdmSays = {MdmRow(r) : r \in R}
    BY <2>1 DEF MdmSays
  <2>3. \A r \in R : MdmRow(r) = "LOCKED"
    BY <1>5 DEF MdmRow
  <2>4. [opens |-> TRUE, lists |-> TRUE, stock |-> TRUE, key |-> TRUE, url |-> TRUE, id |-> TRUE] \in R
    OBVIOUS
  <2>5. Says("mdm") = {"LOCKED"}
    BY <2>2, <2>3, <2>4 DEF Says
  <2> QED
    BY <2>5, TenDetectors
<1>6. CASE machine.joined /\ BothOpen("system")
  <2>1. /\ ~Blocked("hivexsh") /\ Reads("hivexget", "system") = {TRUE}
        /\ Reads("hivexsh", "system") = {TRUE}
    BY <1>6 DEF BothOpen, Opens, Blocked
  <2>2. machine.hives["system"] # "missing"
    BY <2>1 DEF Reads
  <2> DEFINE R == [current: {TRUE}, set: {TRUE}, info: {TRUE}, lists: {TRUE}]
  <2>3. EntraSays = {EntraRow(r) : r \in R}
    BY <2>1, <2>2 DEF EntraSays
  <2>4. \A r \in R : EntraRow(r) = "LOCKED"
    BY <1>6 DEF EntraRow, CurrentSet
  <2>5. [current |-> TRUE, set |-> TRUE, info |-> TRUE, lists |-> TRUE] \in R
    OBVIOUS
  <2>6. Says("entra") = {"LOCKED"}
    BY <2>3, <2>4, <2>5 DEF Says
  <2> QED
    BY <2>6, TenDetectors
<1>7. CASE machine.sid /\ "account" \in machine.marks /\ Opens("hivexsh", "security")
  <2>1. ~Blocked("hivexsh") /\ Reads("hivexsh", "security") = {TRUE}
    BY <1>7 DEF Opens, Blocked
  <2> DEFINE M == {f \in [Marks -> BOOLEAN] : \A m \in Marks : f[m] \in MarkReads(m)}
             R == [policy: {TRUE}, sid: {TRUE}, marks: M]
  <2>2. DomainSays = {DomainRow(r) : r \in R}
    BY <2>1 DEF DomainSays
  <2>3. \A r \in R : DomainRow(r) = "LOCKED"
    <3> TAKE r \in R
    <3>1. r.policy /\ r.sid /\ r.marks["account"] \in MarkReads("account")
      BY DEF Marks
    <3>2. r.marks["account"]
      <4>1. MarkReads("account") = Reads("hivexsh", "security")
        BY AccountReads
      <4> QED
        BY <2>1, <3>1, <4>1
    <3>3. "account" \in SeenMarks(r) \ {"suffix"}
      BY <1>7, <3>1, <3>2 DEF SeenMarks
    <3> QED
      BY <1>7, <3>1, <3>3 DEF DomainRow
  <2>4. \A m \in Marks : \E b \in BOOLEAN : b \in MarkReads(m)
    <3>1. \A tool, hive : Reads(tool, hive) # {} /\ Reads(tool, hive) \subseteq BOOLEAN
      BY DEF Reads
    <3>2. MarkReads("account") # {} /\ MarkReads("account") \subseteq BOOLEAN
      BY <3>1 DEF MarkReads
    <3>3. MarkReads("logons") # {} /\ MarkReads("logons") \subseteq BOOLEAN
      BY <3>1 DEF MarkReads
    <3>4. MarkReads("policy") # {} /\ MarkReads("policy") \subseteq BOOLEAN
      BY <3>1 DEF MarkReads
    <3>5. MarkReads("name") # {} /\ MarkReads("name") \subseteq BOOLEAN
      BY <3>1 DEF MarkReads
    <3>6. \A m \in {"site", "suffix"} : MarkReads(m) # {} /\ MarkReads(m) \subseteq BOOLEAN
      BY <3>1 DEF MarkReads
    <3> QED
      BY <3>2, <3>3, <3>4, <3>5, <3>6 DEF Marks
  <2>5. R # {}
    <3> DEFINE f == [m \in Marks |-> CHOOSE b \in BOOLEAN : b \in MarkReads(m)]
    <3>1. f \in M
      BY <2>4
    <3>2. [policy |-> TRUE, sid |-> TRUE, marks |-> f] \in R
      BY <3>1
    <3> QED
      BY <3>2
  <2>6. Says("domainJoin") = {"LOCKED"}
    BY <2>2, <2>3, <2>5 DEF Says
  <2> QED
    BY <2>6, TenDetectors
<1>8. CASE machine.wpbt = "names" /\ stick.root /\ Sees("acpi")
  <2>1. Says("absolute") = {"LOCKED"}
    BY <1>8 DEF Says, AbsoluteSays
  <2> QED
    BY <2>1, TenDetectors
<1> QED
  BY <1>4, <1>5, <1>6, <1>7, <1>8 DEF Plain

\* What a machine, a stick and the volumes tried decide is unchanged while they are.
LEMMA SaysUnchanged ==
  ASSUME UNCHANGED <<machine, stick>>
  PROVE  /\ Has("lock-checks")' = Has("lock-checks") /\ OsSays' = OsSays
         /\ \A k \in Keys : k # "bitlocker" \/ looked' = looked => Says(k)' = Says(k)
<1>1. machine' = machine /\ stick' = stick
  OBVIOUS
<1>2. AutopilotSays' = AutopilotSays
  BY <1>1 DEF AutopilotSays, AutopilotRow, Blocked, Looks, Has, Located, Mounted, Listed, Holds, Reads
<1>3. MdmSays' = MdmSays
  BY <1>1 DEF MdmSays, MdmRow, Blocked, Looks, Has, Located, Mounted, Listed, Holds, Reads
<1>4. EntraSays' = EntraSays
  BY <1>1 DEF EntraSays, EntraRow, CurrentSet, Blocked, Looks, Has, Located, Mounted, Listed, Holds, Reads
<1>5. DomainSays' = DomainSays
  BY <1>1 DEF DomainSays, DomainRow, SeenMarks, MarkReads, Blocked, Looks, Has, Located, Mounted, Listed, Holds, Reads
<1>6. OsSays' = OsSays
  BY <1>1 DEF OsSays, WithoutWindows, DiskVerdict, Encrypted, Looks, Has, Located, Mounted, Listed, Holds, Reads
<1>7. /\ BiosPasswordSays' = BiosPasswordSays /\ SecureBootSays' = SecureBootSays
      /\ SetupModeSays' = SetupModeSays /\ TpmSays' = TpmSays /\ AbsoluteSays' = AbsoluteSays
  BY <1>1 DEF BiosPasswordSays, SecureBootSays, SetupModeSays, TpmSays, AbsoluteSays, Sees, Has
<1>8. looked' = looked => BitlockerSays' = BitlockerSays
  BY <1>1 DEF BitlockerSays, SeenEncrypted, Encrypted, Looks, Has, Mounted, Listed, Holds
<1> QED
  BY <1>1, <1>2, <1>3, <1>4, <1>5, <1>6, <1>7, <1>8 DEF Has, Says

LEMMA BlankIsMachine ==
  ASSUME NEW m \in MachineKinds
  PROVE  /\ Blank(m) \in MachineKinds
         /\ [m EXCEPT !.volumes = <<"windows">>, !.hives = [h \in Hives |-> "good"]] \in MachineKinds
<1>1. <<>> \in Seq(Volumes) /\ <<"windows">> \in Seq(Volumes)
  BY DEF Volumes
<1>2. [h \in Hives |-> "missing"] \in [Hives -> Conditions] /\ [h \in Hives |-> "good"] \in [Hives -> Conditions]
  BY DEF Conditions
<1> QED
  BY <1>1, <1>2 DEF Blank, MachineKinds

LEMMA CaptureStart == CaptureInit => CaptureInv
<1> SUFFICES ASSUME CaptureInit PROVE CaptureInv
  OBVIOUS
<1>1. machine \in MachineKinds /\ stick \in StickKinds
  BY LocksAssumption DEF CaptureInit
<1>2. rows \in [Keys -> Statuses \cup {"none"}]
  BY DEF CaptureInit, NoRows
<1>3. step = 0 /\ rows = NoRows /\ os = "unread" /\ ~ChecksRun
  BY DEF CaptureInit, ChecksRun, Off
<1>4. looked \in BOOLEAN
  <2>1. looked = FALSE
    BY DEF CaptureInit
  <2> QED
    BY <2>1
<1> QED
  BY <1>1, <1>2, <1>3, <1>4 DEF CaptureInv

LEMMA CaptureStep ==
  ASSUME CaptureInv, Capture
  PROVE  CaptureInv'
<1> USE TenDetectors DEF Off
<1>0. NoRows \in [Keys -> Statuses \cup {"none"}]
  BY DEF NoRows
<1>1. ASSUME NEW s \in Sticks, Boot(s)
      PROVE  CaptureInv'
  <2>1. /\ machine' = machine /\ stick' = s /\ rows' = NoRows /\ os' = "unread"
        /\ step' = (IF "lock-checks" \in s.tools THEN 1 ELSE 12) /\ looked' = FALSE
    BY <1>1 DEF Boot
  <2>2. s \in StickKinds
    BY LocksAssumption
  <2>3. Has("lock-checks")' <=> "lock-checks" \in s.tools
    BY <2>1 DEF Has
  <2>4. step' \in 0..12 /\ ~ChecksRun'
    BY <2>1, <2>3 DEF ChecksRun
  <2> QED
    BY <1>0, <2>1, <2>2, <2>3, <2>4 DEF CaptureInv
<1>2. CASE ReadOs
  <2>1. /\ step = 1 /\ step' = 2 /\ rows' = rows /\ machine' = machine /\ stick' = stick
        /\ os' \in OsSays
    BY <1>2 DEF ReadOs
  <2>2. Has("lock-checks") /\ rows = NoRows
    BY <2>1 DEF CaptureInv, ChecksRun
  <2>3. Has("lock-checks")' /\ OsSays' = OsSays
    BY <2>1, <2>2, SaysUnchanged
  <2>4. \A i \in 1..10 : rows'[Detectors[i]] = "none" /\ ~(i < step' - 1)
    BY <2>1, <2>2 DEF NoRows, Keys
  <2>5. Filed'
    BY <2>1, <2>3, <2>4 DEF Filed
  <2>6. looked' \in BOOLEAN
    BY <1>2 DEF ReadOs, Looks, Has
  <2> QED
    BY <1>0, <2>1, <2>2, <2>3, <2>5, <2>6 DEF CaptureInv, ChecksRun
<1>3. CASE Detect
  <2>1. /\ step \in 2..11 /\ step' = step + 1 /\ machine' = machine /\ stick' = stick /\ os' = os
    BY <1>3 DEF Detect, CaptureInv
  <2> DEFINE k == Detectors[step - 1]
  <2>2. PICK status \in Says(k) : rows' = [rows EXCEPT ![k] = status]
    BY <1>3 DEF Detect
  <2>3. looked' = (looked \/ (k \in DOMAIN Opener /\ Looks(Opener[k])))
    BY <1>3 DEF Detect
  <2>4. Has("lock-checks") /\ Filed
    BY <2>1 DEF CaptureInv, ChecksRun
  <2>5. Has("lock-checks")' /\ OsSays' = OsSays
    BY <2>1, <2>4, SaysUnchanged
  <2>6. \A i \in 1..10 : i < step => Says(Detectors[i])' = Says(Detectors[i])
    <3> TAKE i \in 1..10
    <3> HAVE i < step
    <3>1. Detectors[i] \in Keys
      BY DEF Keys
    <3>2. CASE i # 10
      <4>1. Detectors[i] # "bitlocker"
        BY <3>2 DEF Detectors
      <4> QED
        BY <2>1, <3>1, <4>1, SaysUnchanged
    <3>3. CASE i = 10
      <4>1. k = "bitlocker"
        BY <2>1, <3>3 DEF Detectors
      <4>2. looked' = looked
        BY <2>3, <4>1 DEF Opener, CaptureInv
      <4> QED
        BY <2>1, <3>1, <4>2, SaysUnchanged
    <3> QED
      BY <3>2, <3>3
  <2>7. k \in Keys /\ status \in Statuses
    BY <2>1, <2>2, StatusesFiled DEF Keys
  <2>8. \A i \in 1..10 : i # step - 1 => Detectors[i] # k
    BY <2>1 DEF Detectors
  <2>9. \A i \in 1..10 :
          rows'[Detectors[i]] \in (IF i < step' - 1 THEN Says(Detectors[i])' ELSE {"none"})
    <3> TAKE i \in 1..10
    <3>1. Detectors[i] \in Keys /\ rows \in [Keys -> Statuses \cup {"none"}]
      BY DEF Keys, CaptureInv
    <3>2. CASE i = step - 1
      BY <2>1, <2>2, <2>6, <3>1, <3>2
    <3>3. CASE i # step - 1
      <4>1. rows'[Detectors[i]] = rows[Detectors[i]]
        BY <2>2, <2>8, <3>1, <3>3
      <4>2. rows[Detectors[i]] \in (IF i < step - 1 THEN Says(Detectors[i]) ELSE {"none"})
        BY <2>4 DEF Filed
      <4> QED
        BY <2>1, <2>6, <3>3, <4>1, <4>2
    <3> QED
      BY <3>2, <3>3
  <2>10. Filed'
    BY <2>1, <2>4, <2>5, <2>9 DEF Filed
  <2>11. rows' \in [Keys -> Statuses \cup {"none"}]
    BY <2>2, <2>7 DEF CaptureInv
  <2>12. looked' \in BOOLEAN
    BY <2>3 DEF CaptureInv
  <2> QED
    BY <2>1, <2>5, <2>10, <2>11, <2>12 DEF CaptureInv, ChecksRun
<1>4. CASE Erase \/ Image
  <2>1. /\ step = 0 /\ step' = 0 /\ stick' = stick /\ rows' = rows /\ os' = os
        /\ looked' = looked
    BY <1>4 DEF Erase, Image
  <2>3. machine' = Blank(machine)
        \/ machine' = [machine EXCEPT !.volumes = <<"windows">>, !.hives = [h \in Hives |-> "good"]]
    BY <1>4 DEF Erase, Image
  <2>4. machine' \in MachineKinds
    <3>1. machine \in MachineKinds
      BY DEF CaptureInv
    <3>2. /\ Blank(machine) \in MachineKinds
          /\ [machine EXCEPT !.volumes = <<"windows">>, !.hives = [h \in Hives |-> "good"]] \in MachineKinds
      BY <3>1, BlankIsMachine
    <3> QED
      BY <2>3, <3>2
  <2>2. rows = NoRows /\ os = "unread"
    BY <2>1 DEF CaptureInv, ChecksRun
  <2> QED
    BY <2>1, <2>2, <2>4 DEF CaptureInv, ChecksRun, NoRows, Has
<1> QED
  BY <1>1, <1>2, <1>3, <1>4 DEF Capture

-----------------------------------------------------------------------------
(* The audits *)

LEMMA AuditsStart == DeviceInit => AuditsInv
<1> SUFFICES ASSUME DeviceInit PROVE AuditsInv
  OBVIOUS
<1>1. NoRequest \in Request
  BY DEF NoRequest, Request
<1> QED
  BY <1>1 DEF DeviceInit, AuditsInv, LocksAreTold, NoRequest

LEMMA RollUpSays ==
  ASSUME CaptureInv
  PROVE  /\ RollUp \in LockStatuses /\ BiosLocked \in {"unsaid", "true", "false"}
         /\ BiosLocked # "unsaid" => (BiosLocked = "true" <=> RollUp = "LOCKED")
BY DEF RollUp, BiosLocked, LockStatuses

LEMMA UploadStep ==
  ASSUME LocksInv, UploadAudit
  PROVE  LocksInv'
<1> DEFINE a == [rollup |-> RollUp, lock |-> RollUp, bios |-> BiosLocked, saw |-> "none", plain |-> Plain]
<1>1. /\ step = 12 /\ audits' = Append(audits, a) /\ step' = 0 /\ rows' = NoRows /\ os' = "unread"
      /\ machine' = machine /\ stick' = stick /\ oobe' = oobe /\ looked' = FALSE
  BY TenDetectors DEF UploadAudit, Off
<1>2. CaptureInv'
  <2>1. NoRows \in [Keys -> Statuses \cup {"none"}]
    BY DEF NoRows
  <2>2. ~ChecksRun'
    BY <1>1 DEF ChecksRun
  <2>3. machine \in MachineKinds /\ stick \in StickKinds
    BY DEF LocksInv, CaptureInv
  <2>4. step' \in 0..12 /\ step' \in {0, 12}
    BY <1>1
  <2>6. looked' \in BOOLEAN
    <3>1. looked' = FALSE
      BY <1>1
    <3> QED
      BY <3>1
  <2>5. NoRows' = NoRows
    BY DEF NoRows
  <2> QED
    BY <1>1, <2>1, <2>2, <2>3, <2>4, <2>5, <2>6 DEF CaptureInv
<1>3. a \in Audit /\ (a.bios # "unsaid" => (a.bios = "true" <=> a.rollup = "LOCKED"))
  BY RollUpSays DEF Audit, LocksInv, Plain
<1>4. a.plain => a.lock = "LOCKED"
  BY <1>1, PlainIsLocked, TenDetectors DEF LocksInv
<1>5. audits \in Seq(Audit) /\ Len(audits) \in Nat /\ DOMAIN audits = 1..Len(audits)
  BY LenProperties DEF LocksInv, AuditsInv
<1>6. /\ audits' \in Seq(Audit) /\ DOMAIN audits' = 1..Len(audits) + 1
      /\ \A i \in DOMAIN audits : audits'[i] = audits[i]
      /\ audits'[Len(audits) + 1] = a
  BY <1>1, <1>3, <1>5
<1>7. LocksAreTold'
  BY <1>3, <1>4, <1>5, <1>6 DEF LocksInv, AuditsInv, LocksAreTold, Screens
<1>8. AuditsInv'
  BY <1>1, <1>5, <1>6, <1>7 DEF LocksInv, AuditsInv
<1> QED
  BY <1>2, <1>8 DEF LocksInv

LEMMA CaptureUnchanged ==
  ASSUME CaptureInv, UNCHANGED captureVars
  PROVE  CaptureInv'
<1>1. /\ machine' = machine /\ stick' = stick /\ step' = step /\ looked' = looked
      /\ rows' = rows /\ os' = os
  BY DEF captureVars
<1>2. Has("lock-checks")' = Has("lock-checks") /\ OsSays' = OsSays
  BY <1>1, SaysUnchanged
<1>3. \A i \in 1..10 : Says(Detectors[i])' = Says(Detectors[i])
  BY <1>1, SaysUnchanged, TenDetectors DEF Keys
<1>4. Filed => Filed'
  BY <1>1, <1>2, <1>3, TenDetectors DEF Filed
<1>5. ChecksRun' <=> ChecksRun
  BY <1>1, <1>2 DEF ChecksRun
<1> QED
  BY <1>1, <1>2, <1>4, <1>5 DEF CaptureInv, NoRows

LEMMA FindStep ==
  ASSUME LocksInv, NEW t \in Technicians, FindAudit(t)
  PROVE  LocksInv'
<1>1. UNCHANGED captureVars /\ audits' = audits /\ audits # <<>>
  BY DEF FindAudit
<1>2. CaptureInv'
  BY <1>1, CaptureUnchanged DEF LocksInv
<1>3. audits \in Seq(Audit) /\ Len(audits) \in Nat \ {0} /\ DOMAIN audits = 1..Len(audits)
  BY <1>1, EmptySeq, LenProperties DEF LocksInv, AuditsInv
<1>4. PICK saw \in Screens :
        oobe' = [oobe EXCEPT ![t] = [on |-> Len(audits), lock |-> audits[Len(audits)].lock, saw |-> saw]]
  BY DEF FindAudit
<1>5. audits[Len(audits)] \in Audit /\ Len(audits) \in DOMAIN audits
  BY <1>3
<1>6. audits[Len(audits)].lock \in LockStatuses
  BY <1>5 DEF Audit
<1>7. audits[Len(audits)].plain => audits[Len(audits)].lock = "LOCKED"
  BY <1>5 DEF LocksInv, AuditsInv, LocksAreTold
<1>8. oobe' \in [Technicians -> Request]
  BY <1>3, <1>4, <1>6 DEF LocksInv, AuditsInv, Request
<1>9. ASSUME NEW u \in Technicians, oobe'[u].on # 0
      PROVE  /\ oobe'[u].on \in DOMAIN audits
             /\ oobe'[u].lock \in LockStatuses /\ oobe'[u].saw \in Screens
             /\ audits[oobe'[u].on].plain => oobe'[u].lock = "LOCKED"
  <2>1. CASE u = t
    BY <1>4, <1>5, <1>6, <1>7, <2>1 DEF LocksInv, AuditsInv
  <2>2. CASE u # t
    BY <1>4, <1>9, <2>2 DEF LocksInv, AuditsInv
  <2> QED
    BY <2>1, <2>2
<1>10. LocksAreTold'
  BY <1>1 DEF LocksInv, AuditsInv, LocksAreTold
<1> QED
  BY <1>1, <1>2, <1>8, <1>9, <1>10 DEF LocksInv, AuditsInv

LEMMA RecordStep ==
  ASSUME LocksInv, NEW t \in Technicians, RecordOobe(t)
  PROVE  LocksInv'
<1> DEFINE on == oobe[t].on
<1>1. /\ UNCHANGED captureVars /\ on # 0
      /\ audits' = [audits EXCEPT ![on].saw = oobe[t].saw, ![on].lock = WithOobe(oobe[t])]
      /\ oobe' = [oobe EXCEPT ![t] = [NoRequest EXCEPT !.saw = "filed"]]
  BY DEF RecordOobe
<1>2. CaptureInv'
  BY <1>1, CaptureUnchanged DEF LocksInv
<1>3. /\ audits \in Seq(Audit) /\ on \in DOMAIN audits /\ audits[on] \in Audit
      /\ oobe[t].lock \in LockStatuses /\ oobe[t].saw \in Screens
      /\ audits[on].plain => oobe[t].lock = "LOCKED"
  BY <1>1 DEF LocksInv, AuditsInv
<1>4. WithOobe(oobe[t]) \in LockStatuses
  BY <1>3 DEF WithOobe, LockStatuses
<1> DEFINE b == [audits[on] EXCEPT !.saw = oobe[t].saw, !.lock = WithOobe(oobe[t])]
<1>5. /\ b \in Audit /\ b.plain = audits[on].plain /\ b.bios = audits[on].bios
      /\ b.rollup = audits[on].rollup /\ b.saw = oobe[t].saw /\ b.lock = WithOobe(oobe[t])
  BY <1>3, <1>4 DEF Audit
<1>6. audits' = [audits EXCEPT ![on] = b]
  BY <1>1, <1>3
<1>7. audits' \in Seq(Audit) /\ DOMAIN audits' = DOMAIN audits
  BY <1>3, <1>5, <1>6
<1>8. \A i \in DOMAIN audits : audits'[i] = IF i = on THEN b ELSE audits[i]
  BY <1>3, <1>6
<1>9. b.plain \/ b.saw = "organisation" => b.lock = "LOCKED"
  BY <1>3, <1>5 DEF WithOobe
<1>10. LocksAreTold'
  <2> SUFFICES ASSUME NEW i \in DOMAIN audits
               PROVE  /\ audits'[i].plain \/ audits'[i].saw = "organisation" => audits'[i].lock = "LOCKED"
                      /\ audits'[i].bios # "unsaid" => (audits'[i].bios = "true" <=> audits'[i].rollup = "LOCKED")
    BY <1>7 DEF LocksAreTold
  <2>1. CASE i = on
    BY <1>5, <1>8, <1>9, <2>1 DEF LocksInv, AuditsInv, LocksAreTold
  <2>2. CASE i # on
    BY <1>8, <2>2 DEF LocksInv, AuditsInv, LocksAreTold
  <2> QED
    BY <2>1, <2>2
<1>11. [NoRequest EXCEPT !.saw = "filed"] \in Request
  BY DEF NoRequest, Request
<1>12. oobe' \in [Technicians -> Request]
  BY <1>1, <1>11 DEF LocksInv, AuditsInv
<1>13. ASSUME NEW u \in Technicians, oobe'[u].on # 0
       PROVE  /\ oobe'[u].on \in DOMAIN audits'
              /\ oobe'[u].lock \in LockStatuses /\ oobe'[u].saw \in Screens
              /\ audits'[oobe'[u].on].plain => oobe'[u].lock = "LOCKED"
  <2>1. u # t /\ oobe'[u] = oobe[u]
    BY <1>1, <1>13 DEF NoRequest, LocksInv, AuditsInv
  <2>2. oobe[u].on \in DOMAIN audits => audits'[oobe[u].on].plain = audits[oobe[u].on].plain
    BY <1>5, <1>8
  <2> QED
    BY <1>7, <1>13, <2>1, <2>2 DEF LocksInv, AuditsInv
<1> QED
  BY <1>2, <1>7, <1>10, <1>12, <1>13 DEF LocksInv, AuditsInv

LEMMA LocksStart == DeviceInit => LocksInv
BY CaptureStart, AuditsStart DEF DeviceInit, LocksInv

LEMMA LocksStep == LocksInv /\ [DeviceNext]_deviceVars => LocksInv'
<1> SUFFICES ASSUME LocksInv, [DeviceNext]_deviceVars PROVE LocksInv'
  OBVIOUS
<1>1. CASE Capture /\ UNCHANGED <<audits, oobe>>
  <2>1. CaptureInv'
    BY <1>1, CaptureStep DEF LocksInv
  <2> QED
    BY <1>1, <2>1 DEF LocksInv, AuditsInv, LocksAreTold
<1>2. CASE UploadAudit
  BY <1>2, UploadStep
<1>3. ASSUME NEW t \in Technicians, FindAudit(t)
      PROVE  LocksInv'
  BY <1>3, FindStep
<1>4. ASSUME NEW t \in Technicians, RecordOobe(t)
      PROVE  LocksInv'
  BY <1>4, RecordStep
<1>5. CASE UNCHANGED deviceVars
  <2>1. CaptureInv'
    BY <1>5, CaptureUnchanged DEF LocksInv, deviceVars
  <2> QED
    BY <1>5, <2>1 DEF LocksInv, AuditsInv, LocksAreTold, deviceVars
<1> QED
  BY <1>1, <1>2, <1>3, <1>4, <1>5 DEF DeviceNext

\* What is filed, and what the audits and the requests for them hold, is as
\* LocksInv says: its parts are needed to prove the three properties.
THEOREM LocksInvariant == DeviceSpec => []LocksInv
BY LocksStart, LocksStep, PTL DEF DeviceSpec

\* lock-checks.sh: no check files PASS on a lock that is there, except where the
\* way it looks cannot see it, for machines and sticks of every kind.
THEOREM PassIsEarned == DeviceSpec => []PassIsSeen
<1>1. LocksInv => PassIsSeen
  BY PassIsSeenHolds DEF LocksInv
<1> QED
  BY <1>1, LocksInvariant, PTL

\* als_os_disk_verdict: a disk that holds anything is not called empty.
THEOREM EmptyIsEarned == DeviceSpec => []BlankIsBlank
<1>1. LocksInv => BlankIsBlank
  BY BlankIsBlankHolds DEF LocksInv
<1> QED
  BY <1>1, LocksInvariant, PTL

\* recordAutopilotOobe: what a capture could read, or the screen on the audit
\* named, is LOCKED, for any number of technicians and audits.
THEOREM LocksReachAudits == DeviceSpec => []LocksAreTold
<1>1. LocksInv => LocksAreTold
  BY DEF LocksInv, AuditsInv
<1> QED
  BY <1>1, LocksInvariant, PTL

-----------------------------------------------------------------------------
(* Jobs *)

\* The steps of a job that has not let go of its drive.
Waits == {"asked", "turn", "reading", "over"}

Job == [kind: Kinds, step: Waits \cup {"released", "done", "lost"}, waiting: BOOLEAN,
        cancelled: BOOLEAN, command: {"none", "runs", "ended"},
        says: {"nothing", "made", "refused"}, untouched: BOOLEAN, filed: BOOLEAN]

JobsTypes ==
  /\ jobs \in Seq(Job) /\ wanted \in Seq(Kinds)
  /\ latest \in [Kinds -> Nat] /\ \A k \in Kinds : latest[k] <= Len(jobs)
  /\ queue \in [Controllers -> Seq(Nat)]
  /\ ask \in [job: Nat, proc: BOOLEAN] /\ ask.job <= Len(jobs) /\ (ask.job = 0 => ask = NoAsk)

\* Of a kind one job runs at most, and JOBS has it.
OneOfAKind == \A n \in DOMAIN jobs : JobRuns(n) => latest[jobs[n].kind] = n

\* A drive's queue has, in the order they were asked for, the jobs that have not
\* let go of it, and no others.
InOrder ==
  \A c \in Controllers :
    /\ \A i, j \in DOMAIN queue[c] : i < j => queue[c][i] < queue[c][j]
    /\ \A n \in Nat : n \in Range(queue[c]) <=> n \in DOMAIN jobs /\ Key(n) = c /\ jobs[n].step \in Waits

\* A job whose command may run.
HasTurn(job) == job.step \in {"turn", "reading"} \/ (job.step = "over" /\ job.command # "none")

FirstInLine == \A n \in DOMAIN jobs : Queued(n) /\ HasTurn(jobs[n]) => queue[Key(n)][1] = n

\* What a job says of itself goes with how far it is.
Sane(job) ==
  /\ job.waiting => job.step \in {"asked", "lost"}
  /\ job.command # "none" => job.step \notin {"asked", "turn"}
  /\ job.command = "runs" => job.step \in {"reading", "lost"}
  /\ job.untouched => /\ job.cancelled /\ job.command = "none"
                      /\ job.step \in {"asked", "lost"} \/ job.says = "refused"
  /\ job.step \in {"asked", "turn", "reading"} => job.says = "nothing"
  /\ job.filed => job.step = "done" /\ job.says # "refused"
  /\ job.step = "done" => job.filed \/ job.says = "refused" \/ job.kind = "install"

SaneJobs == \A n \in DOMAIN jobs : Sane(jobs[n])

\* Not on one drive, and not of one disk.
Apart(m, n) == Key(m) # Key(n) \/ (~Queued(m) /\ jobs[m].kind # jobs[n].kind)

\* A command was launched only once those of the jobs before it were over.
OneAfterAnother ==
  \A m, n \in DOMAIN jobs :
    m < n /\ jobs[m].step # "lost" /\ Launched(n) => Apart(m, n) \/ jobs[m].step \in {"released", "done"}

JobsInv == JobsTypes /\ OneOfAKind /\ InOrder /\ FirstInLine /\ SaneJobs /\ OneAfterAnother

LEMMA JobsFacts ==
  ASSUME JobsTypes
  PROVE  /\ Len(jobs) \in Nat /\ DOMAIN jobs = 1..Len(jobs)
         /\ \A n \in DOMAIN jobs : jobs[n] \in Job
         /\ \A n \in DOMAIN jobs : Key(n) \in Controllers \cup {Alone} /\ (Queued(n) => Key(n) \in Controllers)
<1>1. Len(jobs) \in Nat /\ DOMAIN jobs = 1..Len(jobs) /\ \A n \in DOMAIN jobs : jobs[n] \in Job
  BY LenProperties, ElementOfSeq DEF JobsTypes
<1>2. \A n \in DOMAIN jobs : jobs[n].kind \in Kinds
  BY <1>1 DEF Job
<1> QED
  BY <1>1, <1>2, JobsAssumption DEF Key, Queued

LEMMA JobsStart == JobsInit => JobsInv
<1> SUFFICES ASSUME JobsInit PROVE JobsInv
  OBVIOUS
<1>1. JobsTypes
  BY JobsAssumption DEF JobsInit, JobsTypes, NoAsk
<1>2. DOMAIN jobs = {} /\ \A c \in Controllers : DOMAIN queue[c] = {}
  BY DEF JobsInit
<1> QED
  BY <1>1, <1>2 DEF JobsInv, OneOfAKind, InOrder, FirstInLine, SaneJobs, OneAfterAnother, Range

\* Whose turn it is has nobody before it: its queue is in order, and of a kind
\* without a queue one job runs.
LEMMA TurnComesLast ==
  ASSUME JobsInv, NEW l \in DOMAIN jobs, NEW n \in DOMAIN jobs, l < n,
         jobs[n].step = "turn", jobs[l].step # "lost"
  PROVE  Apart(l, n) \/ jobs[l].step \in {"released", "done"}
<1> SUFFICES ASSUME Key(l) = Key(n), jobs[l].step \in Waits
             PROVE  ~Queued(l) /\ jobs[l].kind # jobs[n].kind
  BY JobsFacts DEF JobsInv, Apart, Job
<1>1. l \in Nat /\ n \in Nat
  BY JobsFacts DEF JobsInv
<1>2. ~Queued(l)
  <2> SUFFICES ASSUME Queued(l) PROVE FALSE
    OBVIOUS
  <2> DEFINE q == queue[Key(n)]
  <2>1. Key(n) \in Controllers /\ Queued(n)
    BY JobsFacts DEF JobsInv, Queued
  <2>2. q \in Seq(Nat) /\ q[1] = n
    BY <2>1 DEF JobsInv, JobsTypes, FirstInLine, HasTurn
  <2>3. l \in Range(q) /\ \A i, j \in DOMAIN q : i < j => q[i] < q[j]
    BY <1>1, <2>1 DEF JobsInv, InOrder
  <2> HIDE DEF q
  <2>4. PICK i \in DOMAIN q : q[i] = l
    BY <2>3 DEF Range
  <2>5. i = 1 \/ q[1] < q[i]
    BY <2>2, <2>3
  <2> QED
    BY <1>1, <2>2, <2>4, <2>5
<1>3. jobs[l].kind # jobs[n].kind
  BY <1>1 DEF JobsInv, OneOfAKind, JobRuns, Waits
<1> QED
  BY <1>2, <1>3

\* One job goes on, and holds on to its place.
LEMMA JobGoesOn ==
  ASSUME JobsInv, NEW n \in DOMAIN jobs, NEW job,
         jobs' \in [DOMAIN jobs -> Job], \A m \in DOMAIN jobs : jobs'[m] = IF m = n THEN job ELSE jobs[m],
         UNCHANGED <<latest, queue, wanted>>, ask' \in {ask, NoAsk},
         job.kind = jobs[n].kind, Sane(job),
         job.step \in Waits <=> jobs[n].step \in Waits,
         job.step \notin {"done", "lost"} => JobRuns(n),
         jobs[n].step \in {"released", "done"} => job.step \in {"released", "done"},
         jobs[n].step = "lost" => job.step = "lost",
         Queued(n) /\ HasTurn(job) => queue[Key(n)][1] = n,
         job.command # "none" => Launched(n) \/ jobs[n].step = "turn"
  PROVE  JobsInv'
<1>1. \A m \in DOMAIN jobs : Key(m)' = Key(m) /\ Queued(m)' = Queued(m) /\ jobs'[m].kind = jobs[m].kind
  BY DEF Key, Queued
<1>2. \A m \in DOMAIN jobs : jobs'[m].step \in Waits <=> jobs[m].step \in Waits
  OBVIOUS
<1>3. OneOfAKind'
  BY <1>1 DEF JobsInv, OneOfAKind, JobRuns
<1>4. InOrder'
  BY <1>1, <1>2 DEF JobsInv, InOrder
<1>5. FirstInLine'
  BY <1>1 DEF JobsInv, FirstInLine
<1>6. SaneJobs'
  BY DEF JobsInv, SaneJobs
<1>7. ASSUME NEW l \in DOMAIN jobs, NEW m \in DOMAIN jobs, l < m, jobs'[l].step # "lost", Launched(m)'
      PROVE  Apart(l, m) \/ jobs'[l].step \in {"released", "done"}
  <2>1. jobs[l].step # "lost"
    BY <1>7
  <2>2. CASE Launched(m)
    BY <1>7, <2>1, <2>2 DEF JobsInv, OneAfterAnother
  <2>3. CASE ~Launched(m)
    <3>1. m = n /\ jobs[m].step = "turn" /\ jobs'[l] = jobs[l]
      BY <1>7, <2>3, JobsFacts DEF Launched, JobsInv
    <3> QED
      BY <1>7, <2>1, <3>1, TurnComesLast
  <2> QED
    BY <2>2, <2>3
<1>8. OneAfterAnother'
  BY <1>1, <1>7 DEF OneAfterAnother, Apart
<1>9. JobsTypes'
  <2>1. DOMAIN jobs = 1..Len(jobs) /\ Len(jobs) \in Nat
    BY JobsFacts DEF JobsInv
  <2>2. jobs' \in Seq(Job)
    BY <2>1, SeqDef
  <2>4. Len(jobs') = Len(jobs)
    BY <2>1, <2>2, LenProperties
  <2>3. ask' \in [job: Nat, proc: BOOLEAN] /\ ask'.job <= Len(jobs) /\ (ask'.job = 0 => ask' = NoAsk)
    <3>1. NoAsk \in [job: Nat, proc: BOOLEAN] /\ NoAsk.job = 0
      BY DEF NoAsk
    <3> QED
      BY <2>1, <3>1 DEF JobsInv, JobsTypes
  <2> QED
    BY <2>2, <2>3, <2>4 DEF JobsInv, JobsTypes
<1> QED
  BY <1>3, <1>4, <1>5, <1>6, <1>8, <1>9 DEF JobsInv

\* The job's own thread, and its command: the steps that keep its place.
LEMMA ThreadGoesOn ==
  ASSUME JobsInv, NEW n \in DOMAIN jobs,
         TakeTurn(n) \/ Launch(n) \/ CommandEnds(n) \/ ReadOutput(n) \/ FileRecord(n)
  PROVE  JobsInv'
<1> DEFINE N == Len(jobs)
<1>1. N \in Nat /\ DOMAIN jobs = 1..N /\ jobs[n] \in Job
  BY JobsFacts DEF JobsInv
<1>2. jobs \in [1..N -> Job]
  BY JobsFacts, SeqDef, LenProperties DEF JobsInv, JobsTypes
<1>3. Sane(jobs[n])
  BY DEF JobsInv, SaneJobs
<1>4. Queued(n) /\ HasTurn(jobs[n]) => queue[Key(n)][1] = n
  BY DEF JobsInv, FirstInLine
<1> HIDE DEF N
<1> DEFINE job == jobs'[n]
<1>5. CASE TakeTurn(n)
  <2>1. jobs' \in [1..N -> Job] /\ \A m \in 1..N : m # n => jobs'[m] = jobs[m]
    BY <1>1, <1>2, <1>5 DEF TakeTurn, Job, Waits
  <2>2. /\ job = IF jobs[n].cancelled
                THEN [jobs[n] EXCEPT !.waiting = FALSE, !.step = "over", !.says = "refused"]
                ELSE [jobs[n] EXCEPT !.waiting = FALSE, !.step = "turn"]
        /\ jobs[n].step = "asked" /\ TurnOf(n)
    BY <1>1, <1>2, <1>5 DEF TakeTurn
  <2>3. /\ job.kind = jobs[n].kind /\ job.step = IF jobs[n].cancelled THEN "over" ELSE "turn"
        /\ job.command = jobs[n].command /\ Sane(job)
    BY <1>1, <1>3, <2>2 DEF Job, Sane
  <2>4. job.command = "none"
    BY <1>1, <1>3, <2>2, <2>3 DEF Sane, Job
  <2>5. Queued(n) /\ HasTurn(job) => queue[Key(n)][1] = n
    BY <2>2, <2>3, <2>4 DEF HasTurn, TurnOf
  <2> HIDE DEF job
  <2> QED
    BY <1>1, <1>5, <2>1, <2>2, <2>3, <2>4, <2>5, JobGoesOn DEF TakeTurn, JobRuns, Waits, job
<1>6. CASE Launch(n)
  <2>1. jobs' \in [1..N -> Job] /\ \A m \in 1..N : m # n => jobs'[m] = jobs[m]
    BY <1>1, <1>2, <1>6 DEF Launch, Enters, Job, Waits
  <2>2. /\ job = [jobs[n] EXCEPT !.step = "reading", !.command = "runs"] \/ job = [jobs[n] EXCEPT !.step = "over"]
        /\ jobs[n].step = "turn"
    BY <1>1, <1>2, <1>6 DEF Launch, Enters
  <2>4. /\ job.kind = jobs[n].kind /\ job.step \in {"reading", "over"} /\ (job.step = "over" => job.command = "none")
        /\ Sane(job)
    BY <1>1, <1>3, <2>2 DEF Job, Sane
  <2>5. Queued(n) /\ HasTurn(job) => queue[Key(n)][1] = n
    BY <1>4, <2>2 DEF HasTurn
  <2> HIDE DEF job
  <2> QED
    BY <1>1, <1>6, <2>1, <2>2, <2>4, <2>5, JobGoesOn DEF Launch, JobRuns, Waits, job
<1>7. CASE CommandEnds(n)
  <2>1. jobs' \in [1..N -> Job] /\ \A m \in 1..N : m # n => jobs'[m] = jobs[m]
    BY <1>1, <1>2, <1>7 DEF CommandEnds, Job
  <2>2. job = [jobs[n] EXCEPT !.command = "ended"] /\ jobs[n].command = "runs"
    BY <1>1, <1>2, <1>7 DEF CommandEnds
  <2>3. job.kind = jobs[n].kind /\ job.step = jobs[n].step /\ Sane(job)
    BY <1>1, <1>3, <2>2 DEF Job, Sane
  <2>4. Queued(n) /\ HasTurn(job) => queue[Key(n)][1] = n
    BY <1>4, <2>2, <2>3 DEF HasTurn
  <2> HIDE DEF job
  <2> QED
    BY <1>1, <1>7, <2>1, <2>2, <2>3, <2>4, JobGoesOn DEF CommandEnds, JobRuns, Launched, job
<1>8. CASE ReadOutput(n)
  <2>1. PICK says \in {"made", "refused", "nothing"} :
          jobs' = [jobs EXCEPT ![n].step = "over", ![n].says = says]
    BY <1>8 DEF ReadOutput
  <2>2. jobs' \in [1..N -> Job] /\ \A m \in 1..N : m # n => jobs'[m] = jobs[m]
    BY <1>1, <1>2, <2>1 DEF Job, Waits
  <2>3. job = [jobs[n] EXCEPT !.step = "over", !.says = says]
    BY <1>1, <1>2, <2>1
  <2>4. jobs[n].step = "reading" /\ jobs[n].command = "ended"
    BY <1>8 DEF ReadOutput
  <2>5. job.kind = jobs[n].kind /\ job.step = "over" /\ job.command = "ended" /\ Sane(job)
    BY <1>1, <1>3, <2>3, <2>4 DEF Job, Sane
  <2>6. Queued(n) /\ HasTurn(job) => queue[Key(n)][1] = n
    BY <1>4, <2>4 DEF HasTurn
  <2> HIDE DEF job
  <2> QED
    BY <1>1, <1>8, <2>2, <2>4, <2>5, <2>6, JobGoesOn DEF ReadOutput, JobRuns, Launched, Waits, job
<1>9. CASE FileRecord(n)
  <2>1. jobs' \in [1..N -> Job] /\ \A m \in 1..N : m # n => jobs'[m] = jobs[m]
    BY <1>1, <1>2, <1>9 DEF FileRecord, ToFile, Job
  <2>2. job = [jobs[n] EXCEPT !.step = "done", !.filed = ToFile(n)] /\ jobs[n].step = "released"
    BY <1>1, <1>2, <1>9 DEF FileRecord
  <2>3. job.kind = jobs[n].kind /\ job.step = "done" /\ job.command = jobs[n].command /\ Sane(job)
    BY <1>1, <1>3, <2>2 DEF Job, Sane, ToFile
  <2>4. ~HasTurn(job) /\ (job.command # "none" => Launched(n))
    BY <2>3 DEF HasTurn, Launched
  <2> HIDE DEF job
  <2>5. \A m \in 1..N : jobs'[m] = IF m = n THEN job ELSE jobs[m]
    BY <2>1 DEF job
  <2> QED
    BY <1>1, <1>9, <2>1, <2>2, <2>3, <2>4, <2>5, JobGoesOn DEF FileRecord, Waits
<1> QED
  BY <1>5, <1>6, <1>7, <1>8, <1>9

\* cancel_job: what it stopped before it started has no command.
LEMMA StopGoesOn ==
  ASSUME JobsInv, Stop
  PROVE  JobsInv'
<1> DEFINE N == Len(jobs)
           n == ask.job
           job == jobs'[n]
<1>1. N \in Nat /\ DOMAIN jobs = 1..N /\ n \in 1..N /\ jobs[n] \in Job
  BY JobsFacts DEF JobsInv, JobsTypes, Stop
<1>2. jobs \in [1..N -> Job]
  BY SeqDef, LenProperties DEF JobsInv, JobsTypes
<1>3. Sane(jobs[n]) /\ (Queued(n) /\ HasTurn(jobs[n]) => queue[Key(n)][1] = n)
  BY <1>1 DEF JobsInv, SaneJobs, FirstInLine
<1> HIDE DEF N, n
<1>4. jobs' \in [1..N -> Job] /\ \A m \in 1..N : m # n => jobs'[m] = jobs[m]
  BY <1>1, <1>2 DEF Stop, Job, n
<1>5. \/ job = [jobs[n] EXCEPT !.cancelled = TRUE, !.untouched = TRUE] /\ StopsWaiting
      \/ job = [jobs[n] EXCEPT !.cancelled = TRUE]
      \/ job = jobs[n]
  BY <1>1, <1>2 DEF Stop, n
<1>6. StopsWaiting => jobs[n].waiting /\ jobs[n].step = "asked"
  BY <1>3 DEF StopsWaiting, JobRuns, Sane, n
<1>7. /\ job.kind = jobs[n].kind /\ job.step = jobs[n].step /\ job.command = jobs[n].command
      /\ Sane(job)
  <2>1. CASE job = [jobs[n] EXCEPT !.cancelled = TRUE, !.untouched = TRUE] /\ StopsWaiting
    BY <1>1, <1>3, <1>6, <2>1 DEF Job, Sane
  <2>2. CASE job = [jobs[n] EXCEPT !.cancelled = TRUE]
    BY <1>1, <1>3, <2>2 DEF Job, Sane
  <2>3. CASE job = jobs[n]
    BY <1>3, <2>3
  <2> QED
    BY <1>5, <2>1, <2>2, <2>3
<1>8. \A m \in 1..N : jobs'[m] = IF m = n THEN job ELSE jobs[m]
  BY <1>4
<1>9. HasTurn(job) => HasTurn(jobs[n])
  BY <1>7 DEF HasTurn
<1> HIDE DEF job
<1> QED
  <2>1. UNCHANGED <<latest, queue, wanted>> /\ ask' \in {ask, NoAsk}
    BY DEF Stop
  <2>2. n \in DOMAIN jobs /\ jobs' \in [DOMAIN jobs -> Job] /\ \A m \in DOMAIN jobs : jobs'[m] = IF m = n THEN job ELSE jobs[m]
    BY <1>1, <1>4, <1>8
  <2>3. Queued(n) /\ HasTurn(job) => queue[Key(n)][1] = n
    BY <1>3, <1>9
  <2>4. /\ job.step \notin {"done", "lost"} => JobRuns(n)
        /\ job.command # "none" => Launched(n) \/ jobs[n].step = "turn"
    BY <1>7 DEF JobRuns, Launched
  <2> QED
    BY <1>7, <2>1, <2>2, <2>3, <2>4, JobGoesOn

\* cancel_job, as it reads JOBS and PROCS.
LEMMA LookGoesOn ==
  ASSUME JobsInv, NEW k \in Kinds, Look(k)
  PROVE  JobsInv'
<1>1. UNCHANGED <<jobs, latest, queue, wanted>> /\ latest[k] # 0
  BY DEF Look, Busy
<1>2. latest[k] \in Nat /\ latest[k] <= Len(jobs) /\ HasProc(latest[k]) \in BOOLEAN
  BY DEF JobsInv, JobsTypes, HasProc
<1>3. ask' = [job |-> latest[k], proc |-> HasProc(latest[k])]
  BY DEF Look
<1>4. JobsTypes'
  BY <1>1, <1>2, <1>3 DEF JobsInv, JobsTypes
<1> QED
  BY <1>1, <1>4 DEF JobsInv, OneOfAKind, InOrder, FirstInLine, SaneJobs, OneAfterAnother,
                    JobRuns, Key, Queued, Apart, Launched

\* What stands before the one that leaves stays, and what stands after it moves up.
LEMMA MovesUp ==
  ASSUME NEW q \in Seq(Nat), \A i, j \in DOMAIN q : i < j => q[i] < q[j],
         NEW n \in Range(q)
  PROVE  /\ Without(q, n) \in Seq(Nat)
         /\ \A i, j \in DOMAIN Without(q, n) : i < j => Without(q, n)[i] < Without(q, n)[j]
         /\ \A m \in Nat : m \in Range(Without(q, n)) <=> m \in Range(q) /\ m # n
         /\ q[1] # n => Without(q, n)[1] = q[1]
<1> DEFINE N == Len(q)
           w == Without(q, n)
<1>1. N \in Nat /\ DOMAIN q = 1..N /\ \A i \in 1..N : q[i] \in Nat
  BY LenProperties, ElementOfSeq
<1> HIDE DEF N
<1>2. PICK k \in 1..N : q[k] = n
  BY <1>1 DEF Range
<1>3. \A i \in 1..N : (i < k => q[i] < n) /\ (k < i => n < q[i])
  BY <1>1, <1>2
<1>4. w = [i \in 1..(N - 1) |-> IF i < k THEN q[i] ELSE q[i + 1]]
  <2>1. ASSUME NEW i \in 1..(N - 1) PROVE (\A j \in 1..i : q[j] # n) <=> i < k
    <3>1. CASE i < k
      <4>1. \A j \in 1..i : j \in 1..N /\ j < k
        BY <1>1, <2>1, <3>1
      <4>2. \A j \in 1..i : q[j] < n /\ q[j] \in Nat /\ n \in Nat
        BY <1>1, <1>2, <1>3, <4>1
      <4> QED
        BY <3>1, <4>2
    <3>2. CASE ~(i < k)
      BY <1>1, <1>2, <3>2
    <3> QED
      BY <3>1, <3>2
  <2> QED
    BY <2>1 DEF Without, N
<1> HIDE DEF w
<1>5. /\ DOMAIN w = 1..(N - 1) /\ N - 1 \in Nat
      /\ \A i \in 1..(N - 1) : w[i] = (IF i < k THEN q[i] ELSE q[i + 1]) /\ w[i] \in Nat
  BY <1>1, <1>2, <1>4
<1>6. w \in Seq(Nat)
  <2>1. w \in [1..(N - 1) -> Nat]
    BY <1>1, <1>2, <1>4
  <2> QED
    BY <1>5, <2>1, SeqDef
<1>7. \A i, j \in DOMAIN w : i < j => w[i] < w[j]
  <2> SUFFICES ASSUME NEW i \in 1..(N - 1), NEW j \in 1..(N - 1), i < j PROVE w[i] < w[j]
    BY <1>5
  <2>1. i \in 1..N /\ i + 1 \in 1..N /\ j \in 1..N /\ j + 1 \in 1..N /\ i < j + 1 /\ i + 1 < j + 1
    BY <1>1
  <2>2. q[i] < q[j] /\ q[i] < q[j + 1] /\ q[i + 1] < q[j + 1]
    BY <1>1, <2>1
  <2>3. j < k => i < k
    BY <1>1
  <2> QED
    BY <1>5, <2>2, <2>3
<1>8. ASSUME NEW m \in Nat PROVE m \in Range(w) <=> m \in Range(q) /\ m # n
  <2>1. ASSUME m \in Range(w) PROVE m \in Range(q) /\ m # n
    <3>1. PICK i \in 1..(N - 1) : w[i] = m
      BY <1>5, <2>1 DEF Range
    <3>2. CASE i < k
      <4>1. m = q[i] /\ i \in 1..N
        BY <1>1, <1>5, <3>1, <3>2
      <4>2. q[i] < n
        BY <1>3, <3>2, <4>1
      <4> QED
        BY <1>1, <1>2, <4>1, <4>2 DEF Range
    <3>3. CASE ~(i < k)
      <4>1. m = q[i + 1] /\ i + 1 \in 1..N /\ k < i + 1
        BY <1>1, <1>2, <1>5, <3>1, <3>3
      <4>2. n < q[i + 1]
        BY <1>3, <4>1
      <4> QED
        BY <1>1, <1>2, <4>1, <4>2 DEF Range
    <3> QED
      BY <3>2, <3>3
  <2>2. ASSUME m \in Range(q), m # n PROVE m \in Range(w)
    <3>1. PICK j \in 1..N : q[j] = m
      BY <1>1, <2>2 DEF Range
    <3>2. CASE j < k
      <4>1. j \in 1..(N - 1) /\ w[j] = m
        BY <1>1, <1>2, <1>5, <3>1, <3>2
      <4> QED
        BY <1>5, <4>1 DEF Range
    <3>3. CASE k < j
      <4>1. j - 1 \in 1..(N - 1) /\ ~(j - 1 < k) /\ (j - 1) + 1 = j
        BY <1>1, <1>2, <3>3
      <4>2. w[j - 1] = m
        BY <1>5, <3>1, <4>1
      <4> QED
        BY <1>5, <4>1, <4>2 DEF Range
    <3> QED
      BY <1>1, <1>2, <2>2, <3>1, <3>2, <3>3
  <2> QED
    BY <2>1, <2>2
<1>9. q[1] # n => w[1] = q[1]
  BY <1>1, <1>2, <1>5
<1> QED
  BY <1>6, <1>7, <1>8, <1>9 DEF w

\* release: the job leaves its queue, and the next in line is the next by age.
LEMMA ReleaseGoesOn ==
  ASSUME JobsInv, NEW n \in DOMAIN jobs, Release(n)
  PROVE  JobsInv'
<1> DEFINE N == Len(jobs)
           W(c) == Without(queue[c], n)
<1>1. N \in Nat /\ DOMAIN jobs = 1..N /\ n \in 1..N /\ jobs[n] \in Job /\ jobs[n].step = "over"
  BY JobsFacts DEF JobsInv, Release
<1>2. jobs \in [1..N -> Job]
  BY SeqDef, LenProperties DEF JobsInv, JobsTypes
<1>3. Queued(n) => Key(n) \in Controllers
  BY JobsFacts DEF JobsInv
<1> HIDE DEF N
<1>4. /\ jobs' \in [1..N -> Job] /\ \A m \in 1..N : m # n => jobs'[m] = jobs[m]
      /\ jobs'[n] = [jobs[n] EXCEPT !.step = "released"]
  BY <1>1, <1>2 DEF Release, Enters, Job
<1>5. /\ jobs'[n].kind = jobs[n].kind /\ jobs'[n].step = "released" /\ jobs'[n].command = jobs[n].command
      /\ Sane(jobs'[n])
  <2>1. Sane(jobs[n])
    BY <1>1 DEF JobsInv, SaneJobs
  <2> QED
    BY <1>1, <1>4, <2>1 DEF Job, Sane
<1>6. \A m \in 1..N : Key(m)' = Key(m) /\ Queued(m)' = Queued(m) /\ jobs'[m].kind = jobs[m].kind
                      /\ Launched(m)' = Launched(m)
  BY <1>4, <1>5 DEF Key, Queued, Launched
<1>7. \A m \in 1..N : jobs'[m].step \in Waits <=> m # n /\ jobs[m].step \in Waits
  BY <1>4, <1>5 DEF Waits
<1>8. DOMAIN jobs' = 1..N /\ UNCHANGED <<latest, wanted, ask>>
  BY <1>4 DEF Release
<1>9. JobsTypes /\ InOrder /\ DOMAIN queue = Controllers
  BY DEF JobsInv, JobsTypes
<1>10. ASSUME NEW c \in Controllers
       PROVE  queue[c] \in Seq(Nat) /\ (\A i, j \in DOMAIN queue[c] : i < j => queue[c][i] < queue[c][j])
              /\ queue'[c] = IF Key(n) = c THEN W(c) ELSE queue[c]
  <2>1. Key(n) = c => Queued(n)
    BY JobsAssumption DEF Queued
  <2> QED
    BY <1>3, <1>9, <2>1 DEF JobsTypes, InOrder, Release
<1>11. ASSUME NEW c \in Controllers, Key(n) = c PROVE n \in Range(queue[c])
  BY <1>1, <1>9, <1>11 DEF InOrder, Waits
<1>12. ASSUME NEW c \in Controllers
       PROVE  /\ queue'[c] \in Seq(Nat)
              /\ \A i, j \in DOMAIN queue'[c] : i < j => queue'[c][i] < queue'[c][j]
              /\ \A m \in Nat : m \in Range(queue'[c]) <=> m \in Range(queue[c]) /\ (Key(n) = c => m # n)
              /\ queue[c][1] # n => queue'[c][1] = queue[c][1]
  <2>1. CASE Key(n) = c
    BY <1>10, <1>11, <2>1, MovesUp
  <2>2. CASE Key(n) # c
    BY <1>10, <2>2
  <2> QED
    BY <2>1, <2>2
<1>13. queue' \in [Controllers -> Seq(Nat)]
  <2>1. DOMAIN queue' = Controllers /\ queue' = [c \in DOMAIN queue' |-> queue'[c]]
    BY <1>9 DEF Release, JobsTypes
  <2> QED
    BY <1>12, <2>1
<1>14. JobsTypes'
  <2>1. jobs' \in Seq(Job) /\ Len(jobs') = N
    <3>1. jobs' \in Seq(Job)
      BY <1>1, <1>4, SeqDef
    <3> QED
      BY <1>1, <1>8, <3>1, LenProperties
  <2> QED
    BY <1>8, <1>9, <1>13, <2>1 DEF JobsTypes, N
<1>15. OneOfAKind'
  BY <1>1, <1>4, <1>5, <1>8 DEF JobsInv, OneOfAKind, JobRuns
<1>16. InOrder'
  <2>1. ASSUME NEW c \in Controllers, NEW m \in Nat
        PROVE  m \in Range(queue'[c]) <=> m \in 1..N /\ Key(m)' = c /\ jobs'[m].step \in Waits
    <3>1. m \in Range(queue[c]) <=> m \in 1..N /\ Key(m) = c /\ jobs[m].step \in Waits
      BY <1>1, <1>9 DEF InOrder
    <3> QED
      BY <1>6, <1>7, <1>12, <3>1
  <2> QED
    BY <1>8, <1>12, <2>1 DEF InOrder
<1>17. FirstInLine'
  <2> SUFFICES ASSUME NEW m \in 1..N, Queued(m), HasTurn(jobs'[m]) PROVE queue'[Key(m)][1] = m
    BY <1>6, <1>8 DEF FirstInLine
  <2>1. m # n /\ jobs'[m] = jobs[m]
    BY <1>4, <1>5 DEF HasTurn
  <2>2. queue[Key(m)][1] = m /\ Key(m) \in Controllers
    BY <1>1, <2>1, JobsFacts DEF JobsInv, FirstInLine
  <2> QED
    BY <1>12, <2>1, <2>2
<1>18. SaneJobs'
  BY <1>1, <1>4, <1>5, <1>8 DEF JobsInv, SaneJobs
<1>19. OneAfterAnother'
  <2> SUFFICES ASSUME NEW l \in 1..N, NEW m \in 1..N, l < m, jobs'[l].step # "lost", Launched(m)
               PROVE  Apart(l, m) \/ jobs'[l].step \in {"released", "done"}
    BY <1>6, <1>8 DEF OneAfterAnother, Apart
  <2>1. CASE l = n
    BY <1>5, <2>1
  <2>2. CASE l # n
    BY <1>1, <1>4, <2>2 DEF JobsInv, OneAfterAnother
  <2> QED
    BY <2>1, <2>2
<1> QED
  BY <1>14, <1>15, <1>16, <1>17, <1>18, <1>19 DEF JobsInv

\* start_job, of a kind that is not running: the job stands last in its queue.
LEMMA NewJobGoesOn ==
  ASSUME JobsInv, NEW kind \in Kinds, ~Busy(kind), NewJob(kind),
         wanted' \in Seq(Kinds), ask' = ask
  PROVE  JobsInv'
<1>0. PICK N \in Nat : N = Len(jobs)
  BY LenProperties DEF JobsInv, JobsTypes
<1> DEFINE c == On[kind]
           job == [kind |-> kind, step |-> "asked", waiting |-> c # Alone /\ queue[c] # <<>>,
                   cancelled |-> FALSE, command |-> "none", says |-> "nothing",
                   untouched |-> FALSE, filed |-> FALSE]
<1>1. N \in Nat /\ DOMAIN jobs = 1..N /\ jobs \in Seq(Job) /\ \A m \in 1..N : jobs[m] \in Job
  BY <1>0, JobsFacts DEF JobsInv, JobsTypes
<1>2. job \in Job /\ job.kind = kind /\ job.step = "asked" /\ job.command = "none" /\ Sane(job)
  BY DEF Job, Waits, Sane
<1>3. /\ jobs' = Append(jobs, job) /\ latest' = [latest EXCEPT ![kind] = N + 1]
      /\ queue' = IF c = Alone THEN queue ELSE [queue EXCEPT ![c] = Append(queue[c], N + 1)]
  BY <1>0 DEF NewJob, JobsInv, JobsTypes
<1> HIDE DEF job
<1>4. /\ jobs' \in Seq(Job) /\ Len(jobs') = N + 1 /\ DOMAIN jobs' = 1..(N + 1)
      /\ jobs'[N + 1] = job /\ \A m \in 1..N : jobs'[m] = jobs[m]
  <2>1. jobs' \in Seq(Job) /\ Len(jobs') = N + 1 /\ jobs'[N + 1] = job /\ \A m \in 1..N : jobs'[m] = jobs[m]
    BY <1>0, <1>1, <1>2, <1>3, AppendProperties
  <2> QED
    BY <2>1, LenProperties
<1>5. \A m \in 1..(N + 1) : m \in 1..N \/ m = N + 1
  BY <1>1
<1>6. \A m \in 1..N : /\ Key(m)' = Key(m) /\ Queued(m)' = Queued(m) /\ Launched(m)' = Launched(m)
                      /\ JobRuns(m)' = JobRuns(m)
  BY <1>4 DEF Key, Queued, Launched, JobRuns
<1>7. Key(N + 1)' = c /\ ~Launched(N + 1)' /\ ~HasTurn(jobs'[N + 1]) /\ c \in Controllers \cup {Alone}
  BY <1>2, <1>4, JobsAssumption DEF Key, Launched, HasTurn
<1>8. JobsTypes /\ InOrder /\ DOMAIN queue = Controllers /\ DOMAIN latest = Kinds
  BY DEF JobsInv, JobsTypes
<1>9. ASSUME NEW d \in Controllers
      PROVE  /\ queue[d] \in Seq(Nat) /\ (\A i, j \in DOMAIN queue[d] : i < j => queue[d][i] < queue[d][j])
             /\ \A i \in DOMAIN queue[d] : queue[d][i] \in 1..N
             /\ queue'[d] = IF d = c THEN Append(queue[d], N + 1) ELSE queue[d]
  <2>1. \A i \in DOMAIN queue[d] : queue[d][i] \in Nat
    BY <1>8, ElementOfSeq DEF JobsTypes
  <2>2. \A i \in DOMAIN queue[d] : queue[d][i] \in 1..N
    BY <1>1, <1>8, <2>1 DEF InOrder, Range
  <2>3. c = Alone => d # c
    BY JobsAssumption
  <2>4. queue'[d] = IF d = c THEN Append(queue[d], N + 1) ELSE queue[d]
    BY <1>3, <1>7, <1>8, <2>3
  <2> QED
    BY <1>8, <2>2, <2>4 DEF JobsTypes, InOrder
<1>10. ASSUME NEW d \in Controllers
       PROVE  /\ queue'[d] \in Seq(Nat)
              /\ \A i, j \in DOMAIN queue'[d] : i < j => queue'[d][i] < queue'[d][j]
              /\ \A m \in Nat : m \in Range(queue'[d]) <=> m \in Range(queue[d]) \/ (d = c /\ m = N + 1)
              /\ queue[d] # <<>> => queue'[d][1] = queue[d][1]
  <2>1. CASE d # c
    BY <1>9, <2>1
  <2>2. CASE d = c
    <3> DEFINE q == queue[d]
               L == Len(q)
    <3>1. q \in Seq(Nat) /\ L \in Nat /\ DOMAIN q = 1..L /\ queue'[d] = Append(q, N + 1) /\ N + 1 \in Nat
      <4>1. q \in Seq(Nat) /\ queue'[d] = Append(q, N + 1)
        BY <1>9, <2>2
      <4> QED
        BY <1>1, <4>1, LenProperties
    <3>2. /\ \A i, j \in 1..L : i < j => q[i] < q[j]
          /\ \A i \in 1..L : q[i] \in 1..N
      BY <1>9, <3>1
    <3> HIDE DEF q, L
    <3>3. /\ queue'[d] \in Seq(Nat) /\ Len(queue'[d]) = L + 1 /\ queue'[d][L + 1] = N + 1
          /\ \A i \in 1..L : queue'[d][i] = q[i]
      BY <3>1, AppendProperties DEF L
    <3>4. DOMAIN queue'[d] = 1..(L + 1)
      BY <3>3, LenProperties
    <3>5. \A i, j \in 1..(L + 1) : i < j => queue'[d][i] < queue'[d][j]
      BY <1>1, <3>1, <3>2, <3>3
    <3>6. \A m \in Nat : m \in Range(queue'[d]) <=> m \in Range(q) \/ m = N + 1
      <4>1. \A i \in 1..(L + 1) : i \in 1..L \/ i = L + 1
        BY <3>1
      <4>2. \A i \in 1..L : i \in 1..(L + 1)
        BY <3>1
      <4>3. L + 1 \in 1..(L + 1)
        BY <3>1
      <4> QED
        BY <3>1, <3>3, <3>4, <4>1, <4>2, <4>3 DEF Range
    <3>7. q # <<>> => 1 \in 1..L
      BY <3>1, EmptySeq DEF L
    <3> QED
      BY <2>2, <3>3, <3>4, <3>5, <3>6, <3>7 DEF q
  <2> QED
    BY <2>1, <2>2
<1>11. queue' \in [Controllers -> Seq(Nat)]
  <2>1. DOMAIN queue' = Controllers /\ queue' = [d \in DOMAIN queue' |-> queue'[d]]
    BY <1>3, <1>8 DEF JobsTypes
  <2> QED
    BY <1>10, <2>1
<1>12. /\ latest' \in [Kinds -> Nat] /\ latest'[kind] = N + 1
       /\ \A k \in Kinds : k # kind => latest'[k] = latest[k]
  BY <1>1, <1>3, <1>8 DEF JobsTypes
<1>13. JobsTypes'
  <2>1. \A k \in Kinds : latest'[k] <= N + 1
    <3>1. ASSUME NEW k \in Kinds PROVE latest[k] \in Nat /\ latest[k] <= N
      BY <1>0, <1>8 DEF JobsTypes
    <3>2. ASSUME NEW k \in Kinds PROVE latest'[k] <= N + 1
      BY <1>1, <1>12, <3>1
    <3> QED
      BY <3>2
  <2>2. ask'.job <= N + 1
    BY <1>0, <1>1, <1>8 DEF JobsTypes
  <2> QED
    BY <1>4, <1>8, <1>11, <1>12, <2>1, <2>2 DEF JobsTypes
<1>14. OneOfAKind'
  <2> SUFFICES ASSUME NEW m \in 1..(N + 1), JobRuns(m)' PROVE latest'[jobs'[m].kind] = m
    BY <1>4 DEF OneOfAKind
  <2>1. CASE m = N + 1
    BY <1>2, <1>4, <1>12, <2>1
  <2>2. CASE m \in 1..N
    <3>1. JobRuns(m) /\ latest[jobs[m].kind] = m /\ jobs[m].kind \in Kinds /\ m # 0
      BY <1>1, <1>6, <2>2 DEF JobsInv, OneOfAKind, Job
    <3>2. jobs[m].kind # kind
      BY <3>1 DEF Busy
    <3> QED
      BY <1>4, <1>12, <2>2, <3>1, <3>2
  <2> QED
    BY <1>5, <2>1, <2>2
<1>15. InOrder'
  <2>1. ASSUME NEW d \in Controllers, NEW m \in Nat
        PROVE  m \in Range(queue'[d]) <=> m \in 1..(N + 1) /\ Key(m)' = d /\ jobs'[m].step \in Waits
    <3>1. m \in Range(queue[d]) <=> m \in 1..N /\ Key(m) = d /\ jobs[m].step \in Waits
      BY <1>1, <1>8 DEF InOrder
    <3>2. CASE m \in 1..N
      <4>1. m \in 1..(N + 1) /\ m # N + 1
        BY <1>1, <3>2
      <4> QED
        BY <1>4, <1>6, <1>10, <3>1, <3>2, <4>1
    <3>3. CASE m = N + 1
      <4>1. m \in 1..(N + 1) /\ m \notin 1..N /\ jobs'[m].step \in Waits
        BY <1>1, <1>2, <1>4, <3>3 DEF Waits
      <4> QED
        BY <1>1, <1>7, <1>10, <3>1, <3>3, <4>1
    <3> QED
      BY <1>5, <1>10, <3>1, <3>2, <3>3
  <2> QED
    BY <1>4, <1>10, <2>1 DEF InOrder
<1>16. FirstInLine'
  <2> SUFFICES ASSUME NEW m \in 1..(N + 1), Queued(m)', HasTurn(jobs'[m]) PROVE (queue[Key(m)][1])' = m
    BY <1>4 DEF FirstInLine
  <2>1. m \in 1..N /\ Queued(m) /\ HasTurn(jobs[m]) /\ Key(m)' = Key(m)
    BY <1>4, <1>5, <1>6, <1>7
  <2>2. queue[Key(m)][1] = m /\ Key(m) \in Controllers
    BY <1>1, <2>1, JobsFacts DEF JobsInv, FirstInLine
  <2>3. queue[Key(m)] # <<>>
    <3>1. m \in Range(queue[Key(m)])
      BY <1>1, <1>8, <2>1, <2>2 DEF InOrder, HasTurn, Waits
    <3> QED
      BY <3>1 DEF Range
  <2> QED
    BY <1>10, <2>1, <2>2, <2>3
<1>17. SaneJobs'
  BY <1>1, <1>2, <1>4, <1>5 DEF JobsInv, SaneJobs
<1>18. OneAfterAnother'
  <2> SUFFICES ASSUME NEW l \in 1..(N + 1), NEW m \in 1..(N + 1), l < m, jobs'[l].step # "lost", Launched(m)'
               PROVE  Apart(l, m)' \/ jobs'[l].step \in {"released", "done"}
    BY <1>4 DEF OneAfterAnother
  <2>1. m \in 1..N /\ Launched(m)
    BY <1>5, <1>6, <1>7
  <2>2. l \in 1..N
    BY <1>1, <2>1
  <2>3. Apart(l, m)' = Apart(l, m)
    BY <1>4, <1>6, <2>1, <2>2 DEF Apart
  <2> QED
    BY <1>1, <1>4, <2>1, <2>2, <2>3 DEF JobsInv, OneAfterAnother
<1> QED
  BY <1>13, <1>14, <1>15, <1>16, <1>17, <1>18 DEF JobsInv

\* start_job.
LEMMA StartGoesOn ==
  ASSUME JobsInv, NEW kind \in Kinds, Start(kind)
  PROVE  JobsInv'
<1>1. wanted' \in Seq(Kinds) /\ ask' = ask
  BY HeadTailProperties DEF Start, JobsInv, JobsTypes
<1>2. CASE Busy(kind)
  <2>1. UNCHANGED <<jobs, latest, queue, ask>>
    BY <1>2 DEF Start
  <2> QED
    BY <1>1, <2>1 DEF JobsInv, JobsTypes, OneOfAKind, InOrder, FirstInLine, SaneJobs, OneAfterAnother,
                      JobRuns, Key, Queued, Apart, Launched
<1>3. CASE ~Busy(kind)
  <2>1. NewJob(kind)
    BY <1>3 DEF Start
  <2> QED
    BY <1>1, <1>3, <2>1, NewJobGoesOn
<1> QED
  BY <1>2, <1>3

\* At a restart every running job is lost, and no queue is left to stand in.
LEMMA RestartGoesOn ==
  ASSUME JobsInv, RestartJobs
  PROVE  JobsInv'
<1> DEFINE N == Len(jobs)
<1>1. N \in Nat /\ DOMAIN jobs = 1..N /\ \A m \in 1..N : jobs[m] \in Job /\ Sane(jobs[m])
  BY JobsFacts DEF JobsInv, SaneJobs
<1>2. jobs' = [m \in 1..N |-> IF JobRuns(m) THEN [jobs[m] EXCEPT !.step = "lost"] ELSE jobs[m]]
  BY <1>1 DEF RestartJobs
<1> HIDE DEF N
<1>3. DOMAIN jobs' = 1..N
  BY <1>2
<1>4. ASSUME NEW m \in 1..N
      PROVE  /\ jobs'[m] \in Job /\ Sane(jobs'[m]) /\ jobs'[m].step \in {"done", "lost"}
             /\ jobs'[m].step = "lost" \/ jobs'[m] = jobs[m]
  <2>1. jobs'[m] = IF JobRuns(m) THEN [jobs[m] EXCEPT !.step = "lost"] ELSE jobs[m]
    BY <1>2
  <2>2. CASE JobRuns(m)
    <3>1. jobs'[m] = [jobs[m] EXCEPT !.step = "lost"] /\ jobs[m].step # "done"
      BY <2>1, <2>2 DEF JobRuns
    <3> QED
      BY <1>1, <3>1 DEF Job, Sane
  <2>3. CASE ~JobRuns(m)
    <3>1. jobs'[m] = jobs[m] /\ jobs[m].step \in {"done", "lost"}
      BY <2>1, <2>3 DEF JobRuns
    <3> QED
      BY <1>1, <3>1
  <2> QED
    BY <2>2, <2>3
<1>5. /\ UNCHANGED wanted /\ ask' = NoAsk
      /\ latest' = [k \in Kinds |-> 0] /\ queue' = [c \in Controllers |-> <<>>]
  BY DEF RestartJobs
<1>6. JobsTypes'
  <2>1. jobs' \in [1..N -> Job]
    BY <1>2, <1>3, <1>4
  <2>2. jobs' \in Seq(Job)
    BY <1>1, <2>1, SeqDef
  <2>3. Len(jobs') = N
    BY <1>1, <1>3, <2>2, LenProperties
  <2> QED
    BY <1>1, <1>5, <2>2, <2>3 DEF JobsInv, JobsTypes, NoAsk
<1>7. OneOfAKind'
  BY <1>3, <1>4 DEF OneOfAKind, JobRuns
<1>8. InOrder'
  <2>1. \A c \in Controllers : DOMAIN queue'[c] = {} /\ Range(queue'[c]) = {}
    BY <1>5 DEF Range
  <2>2. \A m \in 1..N : jobs'[m].step \notin Waits
    BY <1>4 DEF Waits
  <2> QED
    BY <1>3, <2>1, <2>2 DEF InOrder
<1>9. FirstInLine'
  BY <1>3, <1>4 DEF FirstInLine, HasTurn
<1>10. SaneJobs'
  BY <1>3, <1>4 DEF SaneJobs
<1>11. OneAfterAnother'
  BY <1>3, <1>4 DEF OneAfterAnother
<1> QED
  BY <1>6, <1>7, <1>8, <1>9, <1>10, <1>11 DEF JobsInv

LEMMA JobsStep == JobsInv /\ [JobsNext]_jobVars => JobsInv'
<1> SUFFICES ASSUME JobsInv, [JobsNext]_jobVars PROVE JobsInv'
  OBVIOUS
<1>1. CASE \E k \in Kinds : Start(k) \/ Look(k)
  BY <1>1, StartGoesOn, LookGoesOn
<1>2. CASE \E n \in DOMAIN jobs : Thread(n) \/ CommandEnds(n)
  BY <1>2, ThreadGoesOn, ReleaseGoesOn DEF Thread
<1>3. CASE Stop
  BY <1>3, StopGoesOn
<1>4. CASE RestartJobs
  BY <1>4, RestartGoesOn
<1>5. CASE UNCHANGED jobVars
  BY <1>5 DEF jobVars, JobsInv, JobsTypes, OneOfAKind, InOrder, FirstInLine, SaneJobs, OneAfterAnother,
              JobRuns, Key, Queued, Apart, Launched
<1> QED
  BY <1>1, <1>2, <1>3, <1>4, <1>5 DEF JobsNext

LEMMA JobsInvariant == JobsSpec => []JobsInv
  BY JobsStart, JobsStep, PTL DEF JobsSpec

\* Commands on one drive, and of one disk, never overlap; what was stopped before it
\* started never starts; and nobody stands behind a job that is over
\* (start_job, wait_turn, release and cancel_job of tools/gui/server.py).
THEOREM JobsTakeTurns == JobsSpec => []TurnsAreTaken
<1>1. JobsInv => TurnsAreTaken
  <2> SUFFICES ASSUME JobsInv PROVE TurnsAreTaken
    OBVIOUS
  <2>1. \A n \in DOMAIN jobs : Sane(jobs[n]) /\ n \in Nat
    BY JobsFacts DEF JobsInv, SaneJobs
  <2>2. ASSUME NEW m \in DOMAIN jobs, NEW n \in DOMAIN jobs, m < n, jobs[m].step # "lost", Launched(n)
        PROVE  Apart(m, n) \/ (jobs[m].step \in {"released", "done"} /\ jobs[m].command # "runs")
    BY <2>1, <2>2 DEF JobsInv, OneAfterAnother, Sane
  <2>3. ASSUME NEW n \in DOMAIN jobs
        PROVE  /\ jobs[n].untouched => ~Launched(n) /\ ~jobs[n].filed
               /\ jobs[n].step = "done" /\ Launched(n) /\ jobs[n].says # "refused" =>
                    jobs[n].filed \/ jobs[n].kind = "install"
    BY <2>1 DEF Sane, Launched
  <2>4. ASSUME NEW n \in DOMAIN jobs, Queued(n), n \in Range(queue[Key(n)])
        PROVE  jobs[n].step \notin {"released", "done", "lost"}
    <3>1. Key(n) \in Controllers
      BY <2>4, JobsFacts DEF JobsInv
    <3>2. jobs[n].step \in Waits
      BY <2>1, <2>4, <3>1 DEF JobsInv, InOrder
    <3> QED
      BY <3>2 DEF Waits
  <2> QED
    BY <2>2, <2>3, <2>4 DEF TurnsAreTaken, Apart
<1> QED
  BY <1>1, JobsInvariant, PTL
=============================================================================
