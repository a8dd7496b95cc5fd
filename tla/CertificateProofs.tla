------------------------- MODULE CertificateProofs -------------------------
(***************************************************************************)
(* Certificates.  The ledger keeps one chain of uniquely numbered          *)
(* certificates, for any number of assets, calls and records: LedgerInv is *)
(* inductive, and every step is a step of CertificateBook or leaves the    *)
(* book as it is, for any verdict and any sources of the roll-up.  With    *)
(* what the roll-up answers, no erasure is certified twice.  And for any   *)
(* number of checks and certificates and any size of a batch, no check     *)
(* raises a false alarm, and none vouches for what the last walk from the  *)
(* first certificate found broken.                                         *)
(***************************************************************************)
EXTENDS CertificateLedger, CertificateChain, FiniteSetTheorems, WellFoundedInduction, TLAPS

-----------------------------------------------------------------------------
(* Least and greatest places *)

(* Any set of numbers has a least one. *)
LEMMA LeastNumber ==
  ASSUME NEW S \in SUBSET Nat, S # {}
  PROVE  \E n \in S : \A m \in S : n <= m
<1>1. PICK n \in S : \A m \in S : ~ (<<m, n>> \in OpToRel(<, Nat))
  BY NatLessThanWellFounded, WFMin
<1>2. \A m \in S : ~ (m < n)
  BY <1>1 DEF OpToRel
<1> QED
  BY <1>2

(* What the definition of Least picks, in any set of places. *)
LEMMA LeastIs ==
  ASSUME NEW S \in SUBSET Nat, S # {}
  PROVE  Least(S) \in S /\ \A y \in S : Least(S) <= y
BY LeastNumber DEF Least

(* What the definition of Greatest picks, in a set of places that are at most m. *)
LEMMA GreatestIs ==
  ASSUME NEW m \in Nat, NEW S \in SUBSET (0..m), S # {}
  PROVE  Greatest(S) \in S /\ \A y \in S : Greatest(S) >= y
<1> DEFINE T == {n \in Nat : m - n \in S}
<1>1. PICK x \in S : TRUE
  OBVIOUS
<1>2. m - x \in T
  <2>1. x \in Int /\ 0 <= x /\ x <= m
    OBVIOUS
  <2>2. m - x \in Nat /\ m - (m - x) = x
    BY <2>1
  <2> QED
    BY <2>2, <1>1
<1>3. T \in SUBSET Nat /\ T # {}
  BY <1>2
<1>4. PICK n \in T : \A k \in T : n <= k
  BY <1>3, LeastNumber
<1>5. m - n \in S
  BY <1>4
<1>6. ASSUME NEW y \in S
      PROVE  m - n >= y
  <2>1. y \in Int /\ 0 <= y /\ y <= m
    OBVIOUS
  <2>2. m - y \in Nat /\ m - (m - y) = y
    BY <2>1
  <2>3. m - y \in T
    BY <2>2
  <2>4. n <= m - y /\ n \in Nat
    BY <2>3, <1>4
  <2> QED
    BY <2>1, <2>4
<1> QED
  BY <1>5, <1>6 DEF Greatest

-----------------------------------------------------------------------------
(* The ledger *)

(* Of Len(certs) + 1 numbers one is free: each certificate takes one at most, by
   the pigeonhole principle. *)
LEMMA SomeNumberFree ==
  ASSUME NEW a, NEW day, certs \in Seq(Range(certs))
  PROVE  \E n \in 1..(Len(certs) + 1) : ~Taken(<<a, day, n>>)
<1> SUFFICES ASSUME \A n \in 1..(Len(certs) + 1) : Taken(<<a, day, n>>)
             PROVE  FALSE
  OBVIOUS
<1> DEFINE N == 1..(Len(certs) + 1)
           at == [n \in N |-> CHOOSE i \in 1..Len(certs) : certs[i].number = <<a, day, n>>]
<1>0. Len(certs) \in Nat /\ DOMAIN certs = 1..Len(certs)
  OBVIOUS
<1>1. \A n \in N : at[n] \in 1..Len(certs) /\ certs[at[n]].number = <<a, day, n>>
  <2> SUFFICES ASSUME NEW n \in N
               PROVE  at[n] \in 1..Len(certs) /\ certs[at[n]].number = <<a, day, n>>
    OBVIOUS
  <2>1. \E i \in 1..Len(certs) : certs[i].number = <<a, day, n>>
    BY <1>0 DEF Taken
  <2>2. at[n] = CHOOSE i \in 1..Len(certs) : certs[i].number = <<a, day, n>>
    OBVIOUS
  <2> QED
    <3> HIDE DEF at
    <3> QED BY <2>1, <2>2
<1>2. at \in [N -> 1..Len(certs)]
  BY <1>1
<1>3. /\ IsFiniteSet(N) /\ Cardinality(N) = Len(certs) + 1
      /\ IsFiniteSet(1..Len(certs)) /\ Cardinality(1..Len(certs)) = Len(certs)
  BY <1>0, FS_Interval
<1>4. PICK m, n \in N : m # n /\ at[m] = at[n]
  <2> HIDE DEF N, at
  <2> QED BY <1>0, <1>2, <1>3, FS_PigeonHole
<1>5. <<a, day, m>> = <<a, day, n>>
  <2> HIDE DEF N, at
  <2> QED BY <1>1, <1>4
<1> QED
  BY <1>4, <1>5

(* What FreeNumber returns: a number of the asset and the day, with a suffix of
   at least 1, that no certificate has. *)
LEMMA FreeNumberIsFree ==
  ASSUME NEW a, NEW day, certs \in Seq(Range(certs))
  PROVE  /\ ~Taken(FreeNumber(a, day))
         /\ FreeNumber(a, day)[1] = a
         /\ FreeNumber(a, day)[3] \in 1..(Len(certs) + 1)
<1> DEFINE free == {n \in 1..(Len(certs) + 1) : ~Taken(<<a, day, n>>)}
<1>0. Len(certs) \in Nat
  OBVIOUS
<1>1. free # {} /\ free \in SUBSET Nat
  <2>1. \E n \in 1..(Len(certs) + 1) : ~Taken(<<a, day, n>>)
    BY SomeNumberFree
  <2> QED BY <1>0, <2>1
<1>2. PICK n \in free : \A m \in free : n <= m
  <2> HIDE DEF free
  <2> QED BY <1>1, LeastNumber
<1>3. \A m \in 1..(n - 1) : Taken(<<a, day, m>>)
  BY <1>2
<1>4. \E k \in 1..(Len(certs) + 1) :
        /\ ~Taken(<<a, day, k>>)
        /\ \A m \in 1..(k - 1) : ~ ~Taken(<<a, day, m>>)
  BY <1>2, <1>3
<1> DEFINE k == CHOOSE j \in 1..(Len(certs) + 1) :
                  /\ ~Taken(<<a, day, j>>)
                  /\ \A m \in 1..(j - 1) : ~ ~Taken(<<a, day, m>>)
<1>5. k \in 1..(Len(certs) + 1) /\ ~Taken(<<a, day, k>>)
  BY <1>4
<1>6. FreeNumber(a, day) = <<a, day, k>>
  BY DEF FreeNumber
<1> QED
  <2> HIDE DEF k
  <2> QED BY <1>5, <1>6

(* With no certificate and no call under way the invariant holds. *)
LEMMA InitInv == Init => LedgerInv
<1> SUFFICES ASSUME Init PROVE LedgerInv
  OBVIOUS
<1> USE DEF Init
<1>1. TypeOK
  BY DEF TypeOK, Range
<1>2. LockHeld
  BY CallersAssumption DEF LockHeld, InTransaction
<1>3. DraftIsComplete /\ DraftIsCurrent /\ ChainLinked /\ NumbersUnique
  BY DEF DraftIsComplete, DraftIsCurrent, ChainLinked, NumbersUnique
<1> QED
  BY <1>1, <1>2, <1>3 DEF LedgerInv

(* A step of c that leaves the book alone and does not reach "insert". *)
LEMMA BookAlone ==
  ASSUME LedgerInv, NEW c \in Callers, UNCHANGED certs,
         NEW state \in {"idle", "fast", "waiting", "locked", "reread"},
         pc' = [pc EXCEPT ![c] = state],
         asset' \in [Callers -> Assets \cup {Nobody}],
         \A d \in Callers \ {c} : asset'[d] = asset[d] /\ sources'[d] = sources[d]
                                   /\ draft'[d] = draft[d],
         state # "idle" => asset'[c] \in Assets,
         DOMAIN sources' = Callers, DOMAIN draft' = Callers,
         lock' \in Callers \cup {Nobody},
         LockHeld'
  PROVE  LedgerInv'
<1> USE DEF LedgerInv
<1>1. TypeOK'
  BY DEF TypeOK
<1>2. DraftIsComplete'
  <2> SUFFICES ASSUME NEW d \in Callers'
               PROVE  /\ pc'[d] # "idle" => asset'[d] \in Assets
                      /\ pc'[d] = "insert" =>
                           /\ draft'[d] = [asset |-> asset'[d], sources |-> sources'[d],
                                number |-> draft'[d].number, prev |-> draft'[d].prev]
                           /\ draft'[d].number[1] = asset'[d]
                           /\ draft'[d].number[3] \in 1..(Len(certs') + 1)
    BY DEF DraftIsComplete
  <2>1. CASE d = c
    BY <2>1 DEF TypeOK
  <2>2. CASE d # c
    BY <2>2 DEF TypeOK, DraftIsComplete
  <2> QED BY <2>1, <2>2
<1>3. DraftIsCurrent'
  <2> SUFFICES ASSUME NEW d \in Callers', pc'[d] = "insert"
               PROVE  /\ draft'[d].prev = Len(certs')
                      /\ ~Taken(draft[d].number)'
                      /\ ~Covered(draft[d].asset, draft[d].sources)'
    BY DEF DraftIsCurrent
  <2>1. d # c /\ pc[d] = "insert" /\ draft'[d] = draft[d]
    BY DEF TypeOK
  <2>2. draft[d].prev = Len(certs) /\ ~Taken(draft[d].number)
        /\ ~Covered(draft[d].asset, draft[d].sources)
    BY <2>1 DEF DraftIsCurrent
  <2> QED BY <2>1, <2>2 DEF Taken, Covered, LatestIndex
<1>4. ChainLinked' /\ NumbersUnique'
  BY DEF ChainLinked, NumbersUnique
<1> QED
  BY <1>1, <1>2, <1>3, <1>4

(* What is known of a row about to be inserted. *)
LEMMA InsertReady ==
  ASSUME LedgerInv, NEW c \in Callers, pc[c] = "insert"
  PROVE  /\ draft[c].asset \in Assets
         /\ draft[c] = [asset |-> draft[c].asset, sources |-> draft[c].sources,
                        number |-> draft[c].number, prev |-> Len(certs)]
         /\ draft[c].number[1] = draft[c].asset
         /\ draft[c].number[3] \in 1..(Len(certs) + 1)
         /\ draft[c].prev = Len(certs)
         /\ ~Taken(draft[c].number)
         /\ ~Covered(draft[c].asset, draft[c].sources)
<1>1. /\ draft[c].prev = Len(certs) /\ ~Taken(draft[c].number)
      /\ ~Covered(draft[c].asset, draft[c].sources)
  BY DEF LedgerInv, DraftIsCurrent
<1>2. /\ asset[c] \in Assets
      /\ draft[c].number[1] = asset[c] /\ draft[c].number[3] \in 1..(Len(certs) + 1)
  BY DEF LedgerInv, DraftIsComplete
<1>3. draft[c] = [asset |-> asset[c], sources |-> sources[c],
                  number |-> draft[c].number, prev |-> draft[c].prev]
  BY DEF LedgerInv, DraftIsComplete
<1> DEFINE number == draft[c].number
           prev == draft[c].prev
<1>4. draft[c].asset = asset[c] /\ draft[c].sources = sources[c]
  <2> HIDE DEF number, prev
  <2>1. draft[c] = [asset |-> asset[c], sources |-> sources[c],
                    number |-> number, prev |-> prev]
    BY <1>3 DEF number, prev
  <2> QED BY <2>1
<1> QED
  BY <1>1, <1>2, <1>3, <1>4

(* The unique indexes of the table never refuse what a call inserts. *)
LEMMA InsertAppends ==
  ASSUME LedgerInv, NEW c \in Callers, Insert(c)
  PROVE  certs' = Append(certs, draft[c])
<1>1. ~Taken(draft[c].number) /\ draft[c].prev = Len(certs) /\ certs \in Seq(Range(certs))
  BY DEF LedgerInv, DraftIsCurrent, Insert, TypeOK
<1>2. \A i \in DOMAIN certs : certs[i].prev # draft[c].prev
  BY <1>1 DEF LedgerInv, ChainLinked
<1>3. ~Conflicts(draft[c])
  BY <1>1, <1>2 DEF Conflicts, Taken
<1> QED
  BY <1>3 DEF Insert

(* Every step keeps the invariant: only the call that holds the lock inserts, so a
   draft is current until it is inserted. *)
LEMMA NextInv == LedgerInv /\ [Next]_vars => LedgerInv'
<1> SUFFICES ASSUME LedgerInv, [Next]_vars
             PROVE  LedgerInv'
  OBVIOUS
<1> USE DEF LedgerInv
<1>1. ASSUME UNCHANGED <<certs, lock, calls>>
      PROVE  LedgerInv'
  <2> USE <1>1 DEF calls
  <2>1. TypeOK' /\ LockHeld'
    BY DEF TypeOK, LockHeld, InTransaction, Range
  <2>2. DraftIsComplete'
    BY DEF DraftIsComplete
  <2>3. DraftIsCurrent'
    BY DEF DraftIsCurrent, Taken, Covered, LatestIndex
  <2>4. ChainLinked' /\ NumbersUnique'
    BY DEF ChainLinked, NumbersUnique
  <2> QED BY <2>1, <2>2, <2>3, <2>4
<1>2. ASSUME NEW a \in Assets, NEW w \in Wipes[a], File(a, w)
      PROVE  LedgerInv'
  BY <1>1, <1>2 DEF File
<1>3. ASSUME NEW c \in Callers, NEW a \in Assets, FastRead(c, a)
      PROVE  LedgerInv'
  <2>1. LockHeld'
    BY <1>3 DEF FastRead, LockHeld, InTransaction, TypeOK
  <2> QED
    BY <1>3, <2>1, BookAlone DEF FastRead, TypeOK
<1>4. ASSUME NEW c \in Callers, FastAnswer(c)
      PROVE  LedgerInv'
  <2>1. LockHeld'
    BY <1>4 DEF FastAnswer, LockHeld, InTransaction, TypeOK
  <2>2. asset[c] \in Assets
    BY <1>4 DEF FastAnswer, DraftIsComplete
  <2>3. CASE Covered(asset[c], sources[c])
    BY <1>4, <2>1, <2>2, <2>3, BookAlone DEF FastAnswer, TypeOK
  <2>4. CASE ~Covered(asset[c], sources[c])
    BY <1>4, <2>1, <2>2, <2>4, BookAlone DEF FastAnswer, TypeOK
  <2> QED BY <2>3, <2>4
<1>5. ASSUME NEW c \in Callers, Lock(c)
      PROVE  LedgerInv'
  <2>1. LockHeld'
    BY <1>5, CallersAssumption DEF Lock, LockHeld, InTransaction, TypeOK
  <2>2. asset[c] \in Assets
    BY <1>5 DEF Lock, DraftIsComplete
  <2> QED
    BY <1>5, <2>1, <2>2, BookAlone DEF Lock, TypeOK
<1>6. ASSUME NEW c \in Callers, Reread(c)
      PROVE  LedgerInv'
  <2>1. LockHeld'
    BY <1>6, CallersAssumption DEF Reread, LockHeld, InTransaction, TypeOK
  <2>2. asset[c] \in Assets
    BY <1>6 DEF Reread, DraftIsComplete
  <2>3. CASE Certifiable(asset[c])
    <3>1. /\ UNCHANGED <<certs, asset, lock>> /\ pc' = [pc EXCEPT ![c] = "reread"]
          /\ sources' = [sources EXCEPT ![c] = SourcesOf(asset[c])]
          /\ draft' = [draft EXCEPT ![c].number = <<asset[c], IssueDay(asset[c]), 0>>]
      BY <1>6, <2>3 DEF Reread
    <3>2. \A d \in Callers \ {c} : asset'[d] = asset[d] /\ sources'[d] = sources[d]
                                   /\ draft'[d] = draft[d]
      BY <3>1 DEF TypeOK
    <3>3. /\ asset' \in [Callers -> Assets \cup {Nobody}] /\ asset'[c] \in Assets
          /\ lock' \in Callers \cup {Nobody}
          /\ DOMAIN sources' = Callers /\ DOMAIN draft' = Callers
      BY <2>2, <3>1 DEF TypeOK
    <3> QED BY <2>1, <3>1, <3>2, <3>3, BookAlone
  <2>4. CASE ~Certifiable(asset[c])
    BY <1>6, <2>1, <2>2, <2>4, BookAlone DEF Reread, TypeOK
  <2> QED BY <2>3, <2>4
<1>7. ASSUME NEW c \in Callers, Draft(c)
      PROVE  LedgerInv'
  <2>1. LockHeld'
    BY <1>7, CallersAssumption DEF Draft, LockHeld, InTransaction, TypeOK
  <2>2. asset[c] \in Assets
    BY <1>7 DEF Draft, DraftIsComplete
  <2>3. CASE Covered(asset[c], sources[c])
    BY <1>7, <2>1, <2>2, <2>3, BookAlone DEF Draft, TypeOK
  <2>4. CASE ~Covered(asset[c], sources[c])
    <3> DEFINE number == FreeNumber(asset[c], draft[c].number[2])
               new == [asset |-> asset[c], sources |-> sources[c],
                       number |-> number, prev |-> Len(certs)]
    <3>1. /\ pc' = [pc EXCEPT ![c] = "insert"] /\ lock' = lock
          /\ draft' = [draft EXCEPT ![c] = new]
          /\ UNCHANGED <<rows, certs, asset, sources>>
          /\ pc[c] = "reread" /\ lock = c
      BY <1>7, <2>4 DEF Draft, LockHeld, InTransaction
    <3>2. ~Taken(number) /\ number[1] = asset[c] /\ number[3] \in 1..(Len(certs) + 1)
      BY FreeNumberIsFree DEF TypeOK
    <3> HIDE DEF number
    <3>3. TypeOK'
      BY <3>1 DEF TypeOK, Range
    <3>4. \A d \in Callers : pc'[d] = "insert" => d = c
      BY <3>1 DEF LockHeld, InTransaction, TypeOK
    <3>5. DraftIsComplete'
      BY <2>2, <3>1, <3>2, <3>4 DEF DraftIsComplete, TypeOK
    <3>6. DraftIsCurrent'
      <4>1. draft'[c] = new
        BY <3>1 DEF TypeOK
      <4>2. ~Taken(draft[c].number)'
        BY <3>1, <3>2, <4>1 DEF Taken
      <4>3. ~Covered(draft[c].asset, draft[c].sources)'
        BY <2>4, <3>1, <4>1 DEF Covered, LatestIndex
      <4> QED
        BY <3>1, <3>4, <4>1, <4>2, <4>3 DEF DraftIsCurrent
    <3>7. ChainLinked' /\ NumbersUnique'
      BY <3>1 DEF ChainLinked, NumbersUnique
    <3> QED BY <2>1, <3>3, <3>5, <3>6, <3>7
  <2> QED BY <2>3, <2>4
<1>8. ASSUME NEW c \in Callers, Insert(c)
      PROVE  LedgerInv'
  <2>1. LockHeld'
    BY <1>8, CallersAssumption DEF Insert, LockHeld, InTransaction, TypeOK
  <2>2. /\ pc[c] = "insert" /\ pc' = [pc EXCEPT ![c] = "idle"] /\ lock' = Nobody
        /\ UNCHANGED <<rows, asset, sources, draft>>
    BY <1>8 DEF Insert
  <2>3. certs' = Append(certs, draft[c])
    BY <1>8, InsertAppends
  <2>4. /\ Len(certs) \in Nat /\ DOMAIN certs = 1..Len(certs)
        /\ DOMAIN certs' = 1..(Len(certs) + 1)
        /\ certs'[Len(certs) + 1] = draft[c]
        /\ \A i \in DOMAIN certs : certs'[i] = certs[i]
    BY <2>3 DEF TypeOK
  <2>5. /\ draft[c].asset \in Assets /\ draft[c].number[1] = draft[c].asset
        /\ draft[c].number[3] \in 1..(Len(certs) + 1)
        /\ draft[c].prev = Len(certs) /\ ~Taken(draft[c].number)
    BY <2>2, InsertReady
  <2>6. TypeOK'
    <3>1. certs' \in Seq(Range(certs'))
      <4>1. \A i \in 1..(Len(certs) + 1) : certs'[i] \in Range(certs')
        BY <2>4 DEF Range
      <4>2. certs' \in Seq(Range(certs) \cup {draft[c]})
        BY <2>3 DEF TypeOK
      <4>3. Len(certs') = Len(certs) + 1
        BY <2>3 DEF TypeOK
      <4>4. certs' = [i \in 1..(Len(certs) + 1) |-> certs'[i]]
        BY <4>2, <4>3
      <4> QED BY <2>4, <4>1, <4>4
    <3>2. \A i \in DOMAIN certs' : /\ certs'[i].asset \in Assets
                                  /\ certs'[i].number[1] = certs'[i].asset
                                  /\ certs'[i].number[3] \in 1..i
      BY <2>4, <2>5 DEF TypeOK
    <3> QED BY <2>2, <3>1, <3>2 DEF TypeOK
  <2>7. \A d \in Callers : pc'[d] # "insert"
    BY <2>2 DEF LockHeld, InTransaction, TypeOK
  <2>8. DraftIsComplete' /\ DraftIsCurrent'
    <3>1. \A d \in Callers : pc'[d] # "idle" => pc[d] # "idle"
      BY <2>2 DEF TypeOK
    <3>2. \A d \in Callers : pc'[d] # "idle" => asset'[d] \in Assets
      BY <2>2, <3>1 DEF DraftIsComplete
    <3> QED
      BY <2>7, <3>2 DEF DraftIsComplete, DraftIsCurrent
  <2>9. ChainLinked'
    BY <2>4, <2>5 DEF ChainLinked
  <2>10. NumbersUnique'
    BY <2>4, <2>5 DEF NumbersUnique, Taken
  <2> QED BY <2>1, <2>6, <2>8, <2>9, <2>10
<1>9. ASSUME NEW c \in Callers, Crash(c)
      PROVE  LedgerInv'
  <2>1. LockHeld'
    BY <1>9, CallersAssumption DEF Crash, LockHeld, InTransaction, TypeOK
  <2> QED
    BY <1>9, <2>1, BookAlone DEF Crash, TypeOK
<1>10. CASE UNCHANGED vars
  BY <1>1, <1>10 DEF vars, calls
<1> QED
  BY <1>2, <1>3, <1>4, <1>5, <1>6, <1>7, <1>8, <1>9, <1>10 DEF Next, Call
(* An inductive invariant: whatever the callers, the records and the crashes, the
   lock is held by exactly the call in the critical section, and what it is about
   to insert extends the one chain of uniquely numbered certificates. *)
THEOREM LedgerInvariant == Spec => []LedgerInv
<1>1. Init => LedgerInv
  BY InitInv
<1>2. LedgerInv /\ [Next]_vars => LedgerInv'
  BY NextInv
<1> QED
  BY <1>1, <1>2, PTL DEF Spec

(* The types of CertificateLedger are kept. *)
THEOREM TypeCorrectness == Spec => []TypeOK
<1>1. LedgerInv => TypeOK
  BY DEF LedgerInv
<1> QED
  BY <1>1, LedgerInvariant, PTL

(* A call about to insert is never overtaken: the head of the chain, the free
   number and the absence of a certificate it read still hold (ensure, after
   pg_advisory_xact_lock). *)
THEOREM DraftsStayCurrent == Spec => []DraftIsCurrent
<1>1. LedgerInv => DraftIsCurrent
  BY DEF LedgerInv
<1> QED
  BY <1>1, LedgerInvariant, PTL

(* prev_sha256 links every certificate to the one before it, and no number is
   printed twice. *)
THEOREM OneChain == Spec => [](ChainLinked /\ NumbersUnique)
<1>1. LedgerInv => ChainLinked /\ NumbersUnique
  BY DEF LedgerInv
<1> QED
  BY <1>1, LedgerInvariant, PTL

(* One step of the ledger issues one certificate, or leaves the book alone. *)
LEMMA StepRefines == LedgerInv /\ [Next]_vars => [Book!Next]_certs
<1> SUFFICES ASSUME LedgerInv, [Next]_vars, certs' # certs
             PROVE  Book!Next
  OBVIOUS
<1>1. PICK c \in Callers : Insert(c)
  BY DEF Next, Call, File, FastRead, FastAnswer, Lock, Reread, Draft, Crash, vars
<1>2. certs' = Append(certs, draft[c]) /\ certs \in Seq(Range(certs))
  BY <1>1, InsertAppends DEF LedgerInv, TypeOK
<1>3. Len(certs') = Len(certs) + 1 /\ certs'[Len(certs')] = draft[c]
  BY <1>2
<1>4. /\ draft[c].asset \in Assets
      /\ draft[c] = [asset |-> draft[c].asset, sources |-> draft[c].sources,
                     number |-> draft[c].number, prev |-> Len(certs)]
      /\ ~Taken(draft[c].number) /\ ~Covered(draft[c].asset, draft[c].sources)
  BY <1>1, InsertReady DEF Insert
<1>5. Book!Issue(draft[c].asset, draft[c].sources, draft[c].number)
  BY <1>2, <1>4
     DEF Book!Issue, Book!Covered, Book!Taken, Book!LatestIndex, Covered, Taken, LatestIndex
<1> QED
  BY <1>3, <1>4, <1>5 DEF Book!Next

(* The ledger implements the book: certificates are only ever appended, each linked
   to its predecessor, under a free number, and never for the erasures the asset's
   latest certificate already covers. *)
THEOREM LedgerImplementsBook == Spec => BookSpec
<1>1. Init => Book!Init
  BY DEF Init, Book!Init
<1>2. LedgerInv /\ [Next]_vars => [Book!Next]_certs
  BY StepRefines
<1> QED
  BY <1>1, <1>2, LedgerInvariant, PTL DEF Spec, BookSpec, Book!Spec

-----------------------------------------------------------------------------
(* One certificate per erasure: the history of an asset's certificates *)

(* A wipe key that a record of this asset may have. *)
KeyOf(a, k) ==
  /\ k[4][2] \in Nat
  /\ \E w \in Wipes[a] :
       k = <<w.drive, "wiped", w.method, IF w.manual THEN <<"day", k[4][2]>> ELSE <<"at", w.at>> >>

(* What a certificate may list: wipes of this asset, one of each drive. *)
Proper(a, S) ==
  /\ \A k \in S : KeyOf(a, k)
  /\ \A k, l \in S : NameOf(k[1]) = NameOf(l[1]) => k = l

(* Every wipe of S has one in T of the same drive that is no earlier. *)
NoLater(S, T) == \A k \in S : \E l \in T : NameOf(l[1]) = NameOf(k[1]) /\ k[4][2] <= l[4][2]

(* Every wipe of S is on record, or a later one of its drive is. *)
OnRecord(a, S) ==
  \A k \in S : \E r \in rows[a] :
    r.status = "wiped" /\ NameOf(r.drive) = NameOf(k[1]) /\ k[4][2] <= WipeKey(r)[4][2]

(* The rows of an asset are its wipes, in the order they were filed. *)
RowsInv ==
  /\ DOMAIN rows = Assets
  /\ \A a \in Assets :
       /\ IsFiniteSet(rows[a])
       /\ \A r \in rows[a] :
            /\ r.created = r.id /\ r.id \in 1..Cardinality(rows[a])
            /\ \A s \in rows[a] : r.id = s.id => r = s
            /\ \E w \in Wipes[a] : /\ r.status = w.status /\ r.method = w.method
                                   /\ r.manual = w.manual /\ r.at = w.at /\ r.drive = w.drive

(* The wipes an asset's certificates list only go forward, each of them is on record
   and no two are for the same; what a call under the lock has read goes no less
   far than the asset's last certificate. *)
HistoryInv ==
  /\ RowsInv
  /\ \A i \in DOMAIN certs :
       /\ Proper(certs[i].asset, certs[i].sources)
       /\ OnRecord(certs[i].asset, certs[i].sources)
       /\ \A j \in DOMAIN certs : i < j /\ certs[i].asset = certs[j].asset =>
            NoLater(certs[i].sources, certs[j].sources) /\ certs[i].sources # certs[j].sources
  /\ \A c \in Callers : pc[c] \in {"reread", "insert"} =>
       /\ Proper(asset[c], sources[c])
       /\ OnRecord(asset[c], sources[c])
       /\ \A i \in DOMAIN certs : certs[i].asset = asset[c] => NoLater(certs[i].sources, sources[c])

(* A drive and a time name one wipe. *)
LEMMA OneKey ==
  ASSUME WipesAreNamed, NEW a \in Assets, NEW k, NEW l, KeyOf(a, k), KeyOf(a, l),
         NameOf(k[1]) = NameOf(l[1]), k[4][2] = l[4][2]
  PROVE  k = l
<1>1. PICK v \in Wipes[a] :
        k = <<v.drive, "wiped", v.method, IF v.manual THEN <<"day", k[4][2]>> ELSE <<"at", v.at>> >>
  BY DEF KeyOf
<1>2. PICK w \in Wipes[a] :
        l = <<w.drive, "wiped", w.method, IF w.manual THEN <<"day", l[4][2]>> ELSE <<"at", w.at>> >>
  BY DEF KeyOf
<1>3. NameOf(v.drive) = NameOf(w.drive)
  BY <1>1, <1>2
<1>4. CASE ByStationAlone(a)
  <2>1. ~v.manual /\ ~w.manual
    BY <1>4 DEF ByStationAlone
  <2>2. v.at = w.at
    BY <1>1, <1>2, <2>1
  <2>3. v.drive = w.drive /\ v.method = w.method
    BY <1>3, <1>4, <2>2 DEF ByStationAlone
  <2> QED
    BY <1>1, <1>2, <2>1, <2>2, <2>3
<1>5. CASE ByHandAlone(a)
  <2>1. v.manual /\ w.manual /\ v.drive = w.drive /\ v.method = w.method
    BY <1>5 DEF ByHandAlone
  <2> QED
    BY <1>1, <1>2, <2>1
<1> QED
  BY <1>4, <1>5 DEF WipesAreNamed

(* Wipes that only go forward never come back. *)
LEMMA NoLaterSqueezes ==
  ASSUME WipesAreNamed, NEW a \in Assets, NEW S, NEW T, Proper(a, S), Proper(a, T),
         NoLater(S, T), NoLater(T, S)
  PROVE  S = T
<1>1. ASSUME NEW U, NEW V, Proper(a, U), Proper(a, V), NoLater(U, V), NoLater(V, U), NEW k \in U
      PROVE  k \in V
  <2>1. PICK l \in V : NameOf(l[1]) = NameOf(k[1]) /\ k[4][2] <= l[4][2]
    BY <1>1 DEF NoLater
  <2>2. PICK m \in U : NameOf(m[1]) = NameOf(l[1]) /\ l[4][2] <= m[4][2]
    BY <1>1 DEF NoLater
  <2>3. m = k
    BY <1>1, <2>1, <2>2 DEF Proper
  <2>4. KeyOf(a, k) /\ KeyOf(a, l)
    BY <1>1 DEF Proper
  <2>5. k[4][2] = l[4][2]
    BY <2>1, <2>2, <2>3, <2>4 DEF KeyOf
  <2>6. k = l
    BY <2>1, <2>4, <2>5, OneKey
  <2> QED
    BY <2>6
<1> QED
  BY <1>1

(* What the ledger's promise needs of an asset's certificates. *)
LEMMA HistoryIsEnough == WipesAreNamed /\ TypeOK /\ HistoryInv => OneCertificatePerErasure
<1> SUFFICES ASSUME WipesAreNamed, TypeOK, HistoryInv, NEW i \in DOMAIN certs, NEW j \in DOMAIN certs,
                    i < j, certs[i].asset = certs[j].asset
             PROVE  /\ {<<k[1], k[4]>> : k \in certs[i].sources} # {<<k[1], k[4]>> : k \in certs[j].sources}
                    /\ \A k \in certs[i].sources, l \in certs[j].sources :
                         k[1] = l[1] /\ k[4][1] = l[4][1] => k[4][2] <= l[4][2]
  BY DEF OneCertificatePerErasure
<1> DEFINE a == certs[i].asset
           S == certs[i].sources
           T == certs[j].sources
<1>1. a \in Assets
  BY DEF TypeOK
<1>2. Proper(a, S) /\ Proper(a, T) /\ NoLater(S, T) /\ S # T
  BY DEF HistoryInv
<1> HIDE DEF a, S, T
<1>3. ASSUME {<<k[1], k[4]>> : k \in S} = {<<k[1], k[4]>> : k \in T} PROVE FALSE
  <2>1. ASSUME NEW k \in S PROVE k \in T
    <3>0. <<k[1], k[4]>> \in {<<l[1], l[4]>> : l \in T}
      BY <1>3, <2>1
    <3>1. PICK l \in T : <<k[1], k[4]>> = <<l[1], l[4]>>
      BY <3>0
    <3>2. KeyOf(a, k) /\ KeyOf(a, l)
      BY <1>2 DEF Proper
    <3> QED
      BY <1>1, <3>1, <3>2, OneKey
  <2>2. ASSUME NEW k \in T PROVE k \in S
    <3>0. <<k[1], k[4]>> \in {<<l[1], l[4]>> : l \in S}
      BY <1>3, <2>2
    <3>1. PICK l \in S : <<k[1], k[4]>> = <<l[1], l[4]>>
      BY <3>0
    <3>2. KeyOf(a, k) /\ KeyOf(a, l)
      BY <1>2 DEF Proper
    <3> QED
      BY <1>1, <3>1, <3>2, OneKey
  <2> QED
    BY <1>2, <2>1, <2>2
<1>4. ASSUME NEW k \in S, NEW l \in T, k[1] = l[1] PROVE k[4][2] <= l[4][2]
  <2>1. PICK m \in T : NameOf(m[1]) = NameOf(k[1]) /\ k[4][2] <= m[4][2]
    BY <1>2 DEF NoLater
  <2>2. m = l
    BY <1>2, <1>4, <2>1 DEF Proper
  <2> QED
    BY <2>1, <2>2
<1> QED
  BY <1>3, <1>4 DEF S, T

-----------------------------------------------------------------------------
(* The latest row *)

(* The rows of an asset are of its wipes: they have the types of the wipes, one
   identity each, and a time when they were received. *)
LEMMA RowFacts ==
  ASSUME RowsInv, WipesAreNamed, NEW a \in Assets, NEW r \in rows[a]
  PROVE  /\ r.created = r.id /\ r.id \in Nat /\ 1 <= r.id /\ r.id <= Cardinality(rows[a])
         /\ \A s \in rows[a] : r.id = s.id => r = s
         /\ r.at \in Nat /\ Station(r) \in Nat
         /\ \E w \in Wipes[a] : /\ r.status = w.status /\ r.method = w.method
                                /\ r.manual = w.manual /\ r.at = w.at /\ r.drive = w.drive
<1>1. Cardinality(rows[a]) \in Nat
  BY FS_CardinalityType DEF RowsInv
<1>2. /\ r.created = r.id /\ r.id \in 1..Cardinality(rows[a])
      /\ \A s \in rows[a] : r.id = s.id => r = s
      /\ \E w \in Wipes[a] : /\ r.status = w.status /\ r.method = w.method
                             /\ r.manual = w.manual /\ r.at = w.at /\ r.drive = w.drive
  BY DEF RowsInv
<1>3. \A w \in Wipes[a] : w.at \in Nat
  <2>1. CASE ByStationAlone(a)
    BY <2>1 DEF ByStationAlone
  <2>2. CASE ByHandAlone(a)
    BY <2>2 DEF ByHandAlone
  <2> QED
    BY <2>1, <2>2 DEF WipesAreNamed
<1>4. r.at \in Nat /\ r.created \in Nat
  BY <1>1, <1>2, <1>3
<1>5. r.id \in Nat /\ 1 <= r.id /\ r.id <= Cardinality(rows[a])
  BY <1>1, <1>2
<1> QED
  BY <1>2, <1>4, <1>5 DEF Station

(* The rows there are have no later time than some number. *)
LEMMA TimesBounded ==
  ASSUME RowsInv, WipesAreNamed, NEW a \in Assets
  PROVE  \E b \in Nat : \A r \in rows[a] : Station(r) <= b /\ r.created <= b
<1> DEFINE n == Cardinality(rows[a])
           Bound(m, b) == \A r \in rows[a] : r.id <= m => Station(r) <= b
           Bad == {m \in Nat : m <= n /\ \A b \in Nat : ~Bound(m, b)}
<1>1. n \in Nat
  BY FS_CardinalityType DEF RowsInv
<1>2. \A r \in rows[a] : r.id \in Nat /\ 1 <= r.id /\ r.id <= n /\ Station(r) \in Nat /\ r.created = r.id
  BY RowFacts
<1>3. \A r, s \in rows[a] : r.id = s.id => r = s
  BY DEF RowsInv
<1> HIDE DEF n
<1>4. Bad = {}
  <2> SUFFICES ASSUME Bad # {} PROVE FALSE
    OBVIOUS
  <2>1. PICK m \in Bad : \A k \in Bad : m <= k
    <3>1. Bad \in SUBSET Nat
      OBVIOUS
    <3> HIDE DEF Bad
    <3> QED
      BY <3>1, LeastNumber
  <2>2. m # 0
    <3>1. Bound(0, 0)
      BY <1>2
    <3> QED
      BY <2>1, <3>1
  <2>3. m \in Nat /\ m - 1 \in Nat /\ m - 1 <= n /\ m - 1 \notin Bad
    BY <1>1, <2>1, <2>2
  <2>4. PICK b \in Nat : Bound(m - 1, b)
    BY <2>3
  <2>5. CASE \E r \in rows[a] : r.id = m
    <3>1. PICK r \in rows[a] : r.id = m
      BY <2>5
    <3>2. PICK x \in Nat : b <= x /\ Station(r) <= x
      <4>1. b \in Nat /\ Station(r) \in Nat
        BY <1>2, <2>4
      <4>2. b <= Station(r) \/ Station(r) <= b
        BY <4>1
      <4> QED
        BY <4>1, <4>2
    <3>3. ASSUME NEW s \in rows[a], s.id <= m PROVE Station(s) <= x
      <4>1. s.id = m => s = r
        BY <1>3, <3>1
      <4>2. s.id # m => s.id <= m - 1
        <5>1. s.id \in Nat
          BY <1>2
        <5> QED
          BY <2>3, <3>3, <5>1
      <4> QED
        BY <1>2, <2>4, <3>2, <4>1, <4>2
    <3> QED
      BY <2>1, <3>3
  <2>6. CASE ~ \E r \in rows[a] : r.id = m
    <3>0. ASSUME NEW s \in rows[a], s.id <= m PROVE s.id <= m - 1
      <4>1. s.id # m /\ s.id \in Nat
        BY <1>2, <2>6
      <4> QED
        BY <2>3, <3>0, <4>1
    <3>1. Bound(m, b)
      BY <2>4, <3>0
    <3> QED
      BY <2>1, <2>4, <3>1
  <2> QED
    BY <2>5, <2>6
<1>5. PICK b \in Nat : Bound(n, b)
  BY <1>1, <1>4
<1>6. PICK x \in Nat : b <= x /\ n <= x
  <2>1. b <= n \/ n <= b
    BY <1>1
  <2> QED
    BY <1>1, <2>1
<1>7. \A r \in rows[a] : Station(r) <= x /\ r.created <= x
  BY <1>1, <1>2, <1>5, <1>6
<1> QED
  BY <1>7

(* One row is after another: by the station's clock, then by receipt. *)
After(r, s) == Station(s) < Station(r) \/ (Station(s) = Station(r) /\ s.created < r.created)

(* Of any of an asset's rows one is the latest, since no two were received at once;
   so some row r has the time the last of them has, and of those with that time it
   was received last. *)
LEMMA SomeLatest ==
  ASSUME RowsInv, WipesAreNamed, NEW a \in Assets, NEW S, S \subseteq rows[a], S # {}
  PROVE  \E r \in S : \A s \in S \ {r} : After(r, s)
<1>1. PICK b \in Nat : \A r \in rows[a] : Station(r) <= b /\ r.created <= b
  BY TimesBounded
<1>2. \A r \in S : Station(r) \in Nat /\ Station(r) <= b /\ r.created \in Nat /\ r.created <= b
  BY <1>1, RowFacts
<1>3. \A r, s \in S : r.created = s.created => r = s
  BY RowFacts
<1> DEFINE T == {Station(r) : r \in S}
<1>4. T \in SUBSET (0..b) /\ T # {}
  BY <1>2
<1>5. PICK x \in T : \A y \in T : x >= y
  <2> HIDE DEF T
  <2> QED
    BY <1>4, GreatestIs
<1> DEFINE R == {r.created : r \in {s \in S : Station(s) = x}}
<1>6. R \in SUBSET (0..b) /\ R # {}
  BY <1>2, <1>5
<1>7. PICK z \in R : \A y \in R : z >= y
  <2> HIDE DEF R
  <2> QED
    BY <1>6, GreatestIs
<1>8. PICK r \in S : Station(r) = x /\ r.created = z
  BY <1>7
<1>9. ASSUME NEW s \in S \ {r}
      PROVE  After(r, s)
  <2>1. x >= Station(s)
    BY <1>5
  <2>2. Station(s) = x => z >= s.created
    BY <1>7
  <2>3. s.created # r.created
    BY <1>3
  <2> QED
    BY <1>2, <1>8, <2>1, <2>2, <2>3 DEF After
<1> QED
  BY <1>9

(* What `compare` picks by the station's clock, and it alone. *)
LEMMA LatestIsLatest ==
  ASSUME RowsInv, WipesAreNamed, NEW a \in Assets, NEW S, S \subseteq rows[a], S # {}
  PROVE  /\ LatestOf("station", S) \in S
         /\ \A s \in S \ {LatestOf("station", S)} : After(LatestOf("station", S), s)
<1>1. PICK r \in S : \A s \in S \ {r} : After(r, s)
  BY SomeLatest
<1>2. \A s \in S : Station(s) \in Nat /\ s.created \in Nat
  BY RowFacts
<1>3. ASSUME NEW s \in S \ {r} PROVE Later("station", r, s)
  <2>1. CASE Station(s) < Station(r)
    BY <1>2, <2>1 DEF Later, LexGreater, ClockOf
  <2>2. CASE Station(s) = Station(r) /\ s.created < r.created
    BY <1>2, <2>2 DEF Later, LexGreater, ClockOf, Received
  <2> QED
    BY <1>1, <2>1, <2>2 DEF After
<1> DEFINE l == LatestOf("station", S)
<1>4. l \in S /\ \A s \in S \ {l} : Later("station", l, s)
  BY <1>3 DEF LatestOf
<1> HIDE DEF l
<1>5. ASSUME NEW s \in S \ {l} PROVE After(l, s)
  <2>1. Later("station", l, s)
    BY <1>4
  <2>2. s.created # l.created
    BY <1>4, RowFacts
  <2>3. Station(s) <= Station(l)
    BY <1>2, <1>4, <2>1 DEF Later, LexGreater, ClockOf
  <2>4. Station(s) = Station(l) => s.created <= l.created
    BY <1>2, <1>4, <2>1 DEF Later, LexGreater, ClockOf, Received
  <2> QED
    BY <1>2, <1>4, <2>2, <2>3, <2>4 DEF After
<1> QED
  BY <1>4, <1>5 DEF l

(* A row that all others are before is what `compare` picks. *)
LEMMA LatestIsOnly ==
  ASSUME RowsInv, WipesAreNamed, NEW a \in Assets, NEW S, S \subseteq rows[a],
         NEW r \in S, \A s \in S \ {r} : After(r, s)
  PROVE  LatestOf("station", S) = r
<1>1. PICK l : l = LatestOf("station", S)
  OBVIOUS
<1>2. l \in S /\ \A s \in S \ {l} : After(l, s)
  BY <1>1, LatestIsLatest
<1>3. Station(r) \in Nat /\ r.created \in Nat /\ Station(l) \in Nat /\ l.created \in Nat
  BY <1>2, RowFacts
<1>4. l # r => After(l, r) /\ After(r, l)
  BY <1>2
<1> QED
  BY <1>1, <1>3, <1>4 DEF After

-----------------------------------------------------------------------------
(* The outcome of a drive *)

(* A drive that did not fail was last erased, by the station's clock, and the row
   that says so is the source. *)
LEMMA OutcomeIsLatest ==
  ASSUME NEW S
  PROVE  /\ OutcomeFor(S).status \in {"wiped", "failed"}
         /\ OutcomeFor(S).status = "wiped" => IsErase(LatestOf("station", S))
         /\ OutcomeFor(S).row = LatestOf("station", S).id
BY DEF OutcomeFor, Clocks

(* If several drives may be meant and none of the paths failed, the last of the paths'
   rows is the last of all rows. *)
LEMMA PathsAreLatest ==
  ASSUME RowsInv, WipesAreNamed, NEW a \in Assets, NEW S, S \subseteq rows[a], S # {},
         \A r \in S : r.drive.path \in Nat, PerPathOutcome(S).status # "failed"
  PROVE  /\ PerPathOutcome(S).row = LatestOf("station", S).id
         /\ PerPathOutcome(S).status = "wiped" /\ IsErase(LatestOf("station", S))
<1> DEFINE paths == {s.drive.path : s \in S}
           On(p) == {s \in S : s.drive.path = p}
           at(p) == OutcomeFor(On(p))
           failed == {p \in paths : at(p).status = "failed"}
           L == {r \in S : \E p \in paths : at(p).row = r.id}
           least == CHOOSE p \in failed : \A q \in failed : p <= q
<1>0. PerPathOutcome(S) = at(IF failed # {} THEN least ELSE LatestOf("station", L).drive.path)
  BY DEF PerPathOutcome
<1>1. failed = {}
  <2> SUFFICES ASSUME failed # {} PROVE FALSE
    OBVIOUS
  <2>1. failed \in SUBSET Nat
    OBVIOUS
  <2>2. \E p \in failed : \A q \in failed : p <= q
    <3> HIDE DEF failed
    <3> QED
      BY <2>1, LeastNumber
  <2>3. least \in failed
    <3> HIDE DEF failed
    <3> QED
      BY <2>2
  <2> QED
    BY <1>0, <2>3
<1>2. PICK g : g = LatestOf("station", S)
  OBVIOUS
<1>3. g \in S /\ \A s \in S \ {g} : After(g, s)
  BY <1>2, LatestIsLatest
<1>4. LatestOf("station", On(g.drive.path)) = g
  <2>1. On(g.drive.path) \subseteq S /\ g \in On(g.drive.path)
    BY <1>3
  <2> HIDE DEF On
  <2> QED
    BY <1>3, <2>1, LatestIsOnly
<1>5. at(g.drive.path).row = g.id
  BY <1>4, OutcomeIsLatest
<1>6. LatestOf("station", L) = g
  <2>1. L \subseteq S /\ g \in L
    BY <1>3, <1>5
  <2> HIDE DEF L
  <2> QED
    BY <1>3, <2>1, LatestIsOnly
<1>7. PerPathOutcome(S) = at(g.drive.path)
  BY <1>0, <1>1, <1>6
<1>8. at(g.drive.path).status = "wiped"
  BY <1>7, OutcomeIsLatest
<1>9. IsErase(g)
  BY <1>4, <1>8, OutcomeIsLatest
<1> QED
  BY <1>2, <1>5, <1>7, <1>8, <1>9

(* Of a cluster S of the rows G, either way. *)
LEMMA ClusterIsLatest ==
  ASSUME RowsInv, WipesAreNamed, NEW a \in Assets, NEW S, S \subseteq rows[a], S # {},
         \A r \in S : r.drive.path \in Nat, NEW G, NEW id, {r \in G : ClusterId(r, G) = id} = S,
         NEW listed, ClusterOutcome(id, G, listed).status # "failed"
  PROVE  /\ ClusterOutcome(id, G, listed).row = LatestOf("station", S).id
         /\ ClusterOutcome(id, G, listed).status = "wiped"
         /\ IsErase(LatestOf("station", S))
<1>1. CASE KnownOne(id, listed)
  <2>1. ClusterOutcome(id, G, listed) = OutcomeFor(S)
    BY <1>1 DEF ClusterOutcome
  <2> QED
    BY <2>1, OutcomeIsLatest
<1>2. CASE ~KnownOne(id, listed)
  <2>1. ClusterOutcome(id, G, listed) = PerPathOutcome(S)
    BY <1>2 DEF ClusterOutcome
  <2> QED
    BY <2>1, PathsAreLatest
<1> QED
  BY <1>1, <1>2

(* A machine is wiped when no drive failed and none is missing; the sources are the
   drives' rows. *)
LEMMA WorstWiped ==
  ASSUME NEW D, Worst(D).verdict = "wiped"
  PROVE  /\ \A d \in D : d.status # "failed" /\ d.status # "missing"
         /\ Worst(D).sources = {d.row : d \in D}
<1>1. \A d \in D : d.status # "failed" /\ d.status # "missing"
  BY DEF Worst, Result
<1>2. {e \in D : e.status # "missing"} = D
  BY <1>1
<1>3. Worst(D).sources = {d.row : d \in {e \in D : e.status # "missing"}}
  BY DEF Worst, Result
<1> QED
  BY <1>1, <1>2, <1>3

-----------------------------------------------------------------------------
(* The wipes a certifiable machine's certificate would list *)

TimeOf(r) == WipeKey(r)[4][2]

(* A source is the row of a wipe that succeeded, of which the row's own drive has
   none later; and every row's drive has a source. *)
GoodSources(a) ==
  /\ \A k \in SourcesOf(a) : \E r \in rows[a] :
       /\ k = WipeKey(r) /\ r.status = "wiped"
       /\ \A s \in rows[a] : s.status = "wiped" /\ NameOf(s.drive) = NameOf(r.drive) =>
            TimeOf(s) <= TimeOf(r)
  /\ \A s \in rows[a] : \E k \in SourcesOf(a) : NameOf(k[1]) = NameOf(s.drive)

(* The row a source is the key of. *)
LEMMA SourceRow ==
  ASSUME RowsInv, NEW a \in Assets, NEW r \in rows[a]
  PROVE  WipeKey(CHOOSE s \in rows[a] : s.id = r.id) = WipeKey(r)
<1>1. (CHOOSE s \in rows[a] : s.id = r.id) = r
  BY DEF RowsInv
<1> QED
  BY <1>1

(* Of a machine that stations wipe the sources are, for each drive on record, the
   row of its latest wipe. *)
LEMMA StationSources ==
  ASSUME RowsInv, WipesAreNamed, NEW a \in Assets, ByStationAlone(a), Certifiable(a)
  PROVE  GoodSources(a)
<1> DEFINE rws == rows[a]
           expected == ExpectedDrives(rws)
           Of(s) == {r \in rws : r.drive.serial = s}
           listed(s) == {e \in expected : e.serial = s}
           serials == {r.drive.serial : r \in rws} \cup {e.serial : e \in expected}
           drives == PerDrive(rws, expected)
           Missing(s) == {[status |-> "missing", drive |-> e] :
                            e \in MissingDrives(Clusters(Of(s)), listed(s))}
           Found(s) == {ClusterOutcome(id, Of(s), listed(s)) : id \in Clusters(Of(s))}
           Outcome(r) == ClusterOutcome(ClusterId(r, Of(r.drive.serial)), Of(r.drive.serial),
                                        listed(r.drive.serial))
<1>1. \A r \in rws : /\ ~r.manual /\ r.at # 0 /\ r.at \in Nat /\ r.drive.path \in Nat
                     /\ r.drive.serial # 0 \/ (r.drive.wwn # 0 /\ r.drive.path # 0)
                     /\ \A s \in rws : NameOf(r.drive) = NameOf(s.drive) =>
                          /\ r.drive.serial = s.drive.serial /\ r.drive.wwn = s.drive.wwn
                          /\ r.drive.model = s.drive.model /\ r.drive.gb = s.drive.gb
  <2> SUFFICES ASSUME NEW r \in rws, NEW s \in rws
               PROVE  /\ ~r.manual /\ r.at # 0 /\ r.at \in Nat /\ r.drive.path \in Nat
                      /\ r.drive.serial # 0 \/ (r.drive.wwn # 0 /\ r.drive.path # 0)
                      /\ NameOf(r.drive) = NameOf(s.drive) =>
                           /\ r.drive.serial = s.drive.serial /\ r.drive.wwn = s.drive.wwn
                           /\ r.drive.model = s.drive.model /\ r.drive.gb = s.drive.gb
    OBVIOUS
  <2>1. PICK v \in Wipes[a] : r.manual = v.manual /\ r.at = v.at /\ r.drive = v.drive
    BY RowFacts
  <2>2. PICK w \in Wipes[a] : s.drive = w.drive
    BY RowFacts
  <2>3. /\ ~v.manual /\ v.at \in Nat \ {0}
        /\ v.drive \in [serial : Nat, model : Nat, gb : Nat, wwn : Nat, path : Nat]
        /\ v.drive.serial # 0 \/ (v.drive.wwn # 0 /\ v.drive.path # 0)
        /\ w.drive \in [serial : Nat, model : Nat, gb : Nat, wwn : Nat, path : Nat]
        /\ NameOf(v.drive) = NameOf(w.drive) =>
             [v.drive EXCEPT !.path = 0] = [w.drive EXCEPT !.path = 0]
    BY DEF ByStationAlone
  <2>4. NameOf(v.drive) = NameOf(w.drive) =>
          /\ v.drive.serial = w.drive.serial /\ v.drive.wwn = w.drive.wwn
          /\ v.drive.model = w.drive.model /\ v.drive.gb = w.drive.gb
    BY <2>3
  <2> QED
    BY <2>1, <2>2, <2>3, <2>4
<1>2. {r \in rws : Identified(r)} = rws /\ {r \in rws : r.manual} = {} /\ LateLegacy(rws) = {}
  BY <1>1 DEF Identified, LateLegacy
<1>3. /\ Worst(drives).verdict = "wiped"
      /\ RollupWipe(rws).sources = Worst(drives).sources
  <2>1. rws # {} /\ ~ManualSpeaks(rws)
    BY <1>2 DEF Certifiable, RollupWipe, Result, ManualSpeaks
  <2>2. RollupWipe(rws) = DriveRollup(rws)
    BY <1>2, <2>1 DEF RollupWipe
  <2>3. DriveRollup(rws) =
          IF ~ExpectationKnown(rws, expected) /\ Worst(drives).verdict = "wiped"
            THEN Result("incomplete", "unverifiable", "drives", Worst(drives).sources)
            ELSE Worst(drives)
    <3>1. drives \cup {} = drives
      OBVIOUS
    <3> QED
      BY <1>2, <3>1 DEF DriveRollup
  <2> HIDE DEF drives, expected
  <2> QED
    BY <2>2, <2>3 DEF Certifiable, Result
<1>4. /\ \A d \in drives : d.status # "failed" /\ d.status # "missing"
      /\ RollupWipe(rws).sources = {d.row : d \in drives}
  <2> HIDE DEF drives
  <2> QED
    BY <1>3, WorstWiped
<1>5. drives = UNION {Found(s) \cup Missing(s) : s \in serials}
  BY DEF PerDrive
<1>6. /\ \A r \in rws : Outcome(r) \in drives
      /\ \A d \in drives : \E r \in rws : d = Outcome(r)
  <2>1. ASSUME NEW r \in rws PROVE Outcome(r) \in drives
    <3>1. r.drive.serial \in serials /\ r \in Of(r.drive.serial)
      OBVIOUS
    <3>2. Outcome(r) \in Found(r.drive.serial)
      <4>1. ClusterId(r, Of(r.drive.serial)) \in Clusters(Of(r.drive.serial))
        BY <3>1 DEF Clusters
      <4> QED
        BY <4>1
    <3> HIDE DEF Found, Missing, Outcome, serials, drives
    <3> QED
      BY <1>5, <3>1, <3>2
  <2>2. ASSUME NEW d \in drives PROVE \E r \in rws : d = Outcome(r)
    <3>1. d.status # "missing"
      BY <1>4
    <3>2. PICK s \in serials : d \in Found(s) \cup Missing(s)
      <4> HIDE DEF Found, Missing, serials, drives
      <4> QED
        BY <1>5, <2>2
    <3>3. d \in Found(s)
      <4>1. ASSUME NEW x \in Missing(s) PROVE x.status = "missing"
        <5>1. PICK e \in MissingDrives(Clusters(Of(s)), listed(s)) :
                x = [status |-> "missing", drive |-> e]
          OBVIOUS
        <5> QED
          BY <5>1
      <4> HIDE DEF Found, Missing
      <4> QED
        BY <3>1, <3>2, <4>1
    <3>4. PICK id \in Clusters(Of(s)) : d = ClusterOutcome(id, Of(s), listed(s))
      BY <3>3
    <3>5. PICK r \in Of(s) : id = ClusterId(r, Of(s))
      BY <3>4 DEF Clusters
    <3> QED
      BY <3>4, <3>5
  <2> QED
    BY <2>1, <2>2
<1>7. ASSUME NEW r \in rws
      PROVE  \E l \in rws : /\ NameOf(l.drive) = NameOf(r.drive) /\ l.status = "wiped"
                            /\ Outcome(r).row = l.id
                            /\ \A s \in rws : NameOf(s.drive) = NameOf(r.drive) => Station(s) <= Station(l)
  <2> DEFINE G == Of(r.drive.serial)
             S == {s \in rws : NameOf(s.drive) = NameOf(r.drive)}
             id == ClusterId(r, G)
             lst == listed(r.drive.serial)
  <2>1. S \subseteq rws /\ r \in S /\ \A s \in S : s.drive.path \in Nat
    BY <1>1
  <2>2. {s \in G : ClusterId(s, G) = id} = S
    <3>1. ASSUME NEW s \in S PROVE s \in G /\ ClusterId(s, G) = id
      <4>1. /\ s.drive.serial = r.drive.serial /\ s.drive.wwn = r.drive.wwn
            /\ s.drive.model = r.drive.model /\ s.drive.gb = r.drive.gb
        BY <1>1
      <4> QED
        BY <4>1 DEF ClusterId
    <3>2. ASSUME NEW s \in G, ClusterId(s, G) = id PROVE s \in S
      <4>1. s.drive.serial = r.drive.serial
        OBVIOUS
      <4>2. CASE r.drive.serial # 0
        BY <4>1, <4>2 DEF NameOf
      <4>3. CASE r.drive.serial = 0
        <5>1. \A q \in G : q.drive.wwn # 0
          BY <1>1, <4>3
        <5>2. \A q \in G : q.drive["wwn"] # 0
          BY <5>1
        <5>3. ClusterId(s, G).wwn = s.drive.wwn /\ ClusterId(r, G).wwn = r.drive.wwn
          BY <5>2 DEF ClusterId
        <5> QED
          BY <3>2, <4>1, <4>3, <5>3 DEF NameOf
      <4> QED
        BY <4>2, <4>3
    <3> HIDE DEF G, S, id
    <3>3. S \subseteq G
      BY <3>1
    <3> QED
      BY <3>1, <3>2, <3>3
  <2>3. Outcome(r) = ClusterOutcome(id, G, lst) /\ Outcome(r).status # "failed"
    BY <1>4, <1>6
  <2>4. PICK l : l = LatestOf("station", S)
    OBVIOUS
  <2>5. l \in S /\ \A s \in S \ {l} : After(l, s)
    <3> HIDE DEF S
    <3> QED
      BY <2>1, <2>4, LatestIsLatest
  <2>6. Outcome(r).row = l.id /\ IsErase(l)
    <3> HIDE DEF S, G, id, lst, Outcome
    <3> QED
      BY <2>1, <2>2, <2>3, <2>4, ClusterIsLatest
  <2>7. \A s \in S : Station(s) <= Station(l)
    <3>1. \A s \in S : Station(s) \in Nat
      BY RowFacts
    <3> HIDE DEF S
    <3> QED
      BY <2>5, <3>1 DEF After
  <2> QED
    BY <2>5, <2>6, <2>7 DEF IsErase
<1> HIDE DEF Outcome, drives
<1>8. \A r \in rws : TimeOf(r) = Station(r)
  BY <1>1 DEF TimeOf, WipeKey, Station
<1>9. ASSUME NEW k \in SourcesOf(a)
      PROVE  \E r \in rows[a] :
               /\ k = WipeKey(r) /\ r.status = "wiped"
               /\ \A s \in rows[a] : s.status = "wiped" /\ NameOf(s.drive) = NameOf(r.drive) =>
                    TimeOf(s) <= TimeOf(r)
  <2>1. PICK id \in RollupWipe(rws).sources : k = WipeKey(CHOOSE r \in rws : r.id = id)
    BY DEF SourcesOf
  <2>2. PICK q \in rws : id = Outcome(q).row
    BY <1>4, <1>6, <2>1
  <2>3. PICK l \in rws : /\ NameOf(l.drive) = NameOf(q.drive) /\ l.status = "wiped"
                         /\ Outcome(q).row = l.id
                         /\ \A s \in rws : NameOf(s.drive) = NameOf(q.drive) => Station(s) <= Station(l)
    BY <1>7
  <2>4. k = WipeKey(l)
    BY <2>1, <2>2, <2>3, SourceRow
  <2> QED
    BY <1>8, <2>3, <2>4
<1>10. ASSUME NEW s \in rows[a] PROVE \E k \in SourcesOf(a) : NameOf(k[1]) = NameOf(s.drive)
  <2>1. PICK l \in rws : NameOf(l.drive) = NameOf(s.drive) /\ Outcome(s).row = l.id
    BY <1>7
  <2>2. l.id \in RollupWipe(rws).sources
    BY <1>4, <1>6, <2>1
  <2>3. WipeKey(l) \in SourcesOf(a)
    BY <2>2, SourceRow DEF SourcesOf
  <2> QED
    BY <2>1, <2>3 DEF WipeKey
<1> QED
  BY <1>9, <1>10 DEF GoodSources

(* A later time is on no earlier day. *)
LEMMA DaysGoOn ==
  ASSUME NEW x \in Nat, NEW y \in Nat, x <= y
  PROVE  x \div Day <= y \div Day /\ x \div Day \in Nat
BY DayAssumption

(* Of a machine whose wipes are typed by hand it is the last that succeeded. *)
LEMMA HandSources ==
  ASSUME RowsInv, WipesAreNamed, NEW a \in Assets, ByHandAlone(a), Certifiable(a)
  PROVE  GoodSources(a)
<1> DEFINE rws == rows[a]
           wiped == {r \in rws : r.status = "wiped"}
           Newer(r, s) == LexGreater(<<ClockOf("station", r), Received(r), r.id>>,
                                     <<ClockOf("station", s), Received(s), s.id>>)
           l == LatestWipeOn("station", rws)
<1>1. \A r \in rws : /\ r.manual /\ r.at = 0 /\ r.created \in Nat /\ r.id \in Nat
                     /\ Station(r) = r.created
                     /\ \A s \in rws : r.drive = s.drive /\ (r.created = s.created => r = s)
  <2> SUFFICES ASSUME NEW r \in rws, NEW s \in rws
               PROVE  /\ r.manual /\ r.at = 0 /\ r.created \in Nat /\ r.id \in Nat
                      /\ Station(r) = r.created
                      /\ r.drive = s.drive /\ (r.created = s.created => r = s)
    OBVIOUS
  <2>1. PICK v \in Wipes[a] : r.manual = v.manual /\ r.at = v.at /\ r.drive = v.drive
    BY RowFacts
  <2>2. PICK w \in Wipes[a] : s.drive = w.drive
    BY RowFacts
  <2>3. v.manual /\ v.at = 0 /\ v.drive = w.drive
    BY DEF ByHandAlone
  <2>4. r.created \in Nat /\ r.id \in Nat /\ (r.created = s.created => r = s)
    BY RowFacts
  <2>5. r.at = 0
    BY <2>1, <2>3
  <2>6. Station(r) = r.created
    BY <2>5 DEF Station
  <2>7. r.manual /\ r.drive = s.drive
    BY <2>1, <2>2, <2>3
  <2> QED
    BY <2>4, <2>5, <2>6, <2>7
<1>2. {r \in rws : Identified(r)} = {}
  BY <1>1 DEF Identified
<1>3. CertificateBlock(rws) = "clear" /\ RollupWipe(rws).sources = {l.id}
  <2>1. rws # {} /\ RollupWipe(rws) = LegacyRollup(rws)
    BY <1>2 DEF Certifiable, RollupWipe, Result
  <2>2. CertificateBlock(rws) = "clear"
    BY <2>1 DEF Certifiable, LegacyRollup, Result
  <2> QED
    BY <2>1, <2>2 DEF LegacyRollup, Result
<1>4. wiped # {}
  <2>1. ASSUME \A r \in rws : r.status # "wiped" PROVE FALSE
    BY <1>3, <2>1 DEF CertificateBlock
  <2> QED
    BY <2>1
<1>5. l \in wiped /\ \A s \in wiped \ {l} : Newer(l, s)
  <2>1. PICK r \in wiped : \A s \in wiped \ {r} : After(r, s)
    <3>1. wiped \subseteq rows[a]
      OBVIOUS
    <3> HIDE DEF wiped
    <3> QED
      BY <1>4, <3>1, SomeLatest
  <2>2. \A s \in wiped : /\ ClockOf("station", s) = s.created /\ s.created \in Nat
                         /\ Station(s) = s.created
    BY <1>1 DEF ClockOf
  <2>3. \A s \in wiped \ {r} : s.created < r.created
    BY <2>1, <2>2 DEF After
  <2>4. \A s \in wiped \ {r} : Newer(r, s)
    BY <2>2, <2>3 DEF LexGreater, Received
  <2>5. l = CHOOSE x \in wiped : \A s \in wiped \ {x} : Newer(x, s)
    BY DEF LatestWipeOn
  <2> HIDE DEF wiped, Newer, l
  <2> QED
    BY <2>4, <2>5
<1>6. \A s \in wiped : s.created <= l.created
  <2> SUFFICES ASSUME NEW s \in wiped \ {l} PROVE s.created <= l.created
    BY <1>1, <1>5
  <2>1. Newer(l, s)
    BY <1>5
  <2>2. /\ ClockOf("station", s) = s.created /\ s.created \in Nat
        /\ ClockOf("station", l) = l.created /\ l.created \in Nat
    BY <1>1, <1>5 DEF ClockOf
  <2> HIDE DEF l
  <2> QED
    BY <2>1, <2>2 DEF LexGreater
<1>7. \A s \in rws : TimeOf(s) = DayOf(s)
  BY <1>1 DEF TimeOf, WipeKey
<1>8. \A s \in wiped : TimeOf(s) <= TimeOf(l)
  BY <1>1, <1>5, <1>6, <1>7, DaysGoOn DEF DayOf
<1>9. SourcesOf(a) = {WipeKey(l)}
  <2>1. SourcesOf(a) = {WipeKey(CHOOSE r \in rows[a] : r.id = id) : id \in {l.id}}
    BY <1>3 DEF SourcesOf
  <2>2. WipeKey(CHOOSE r \in rows[a] : r.id = l.id) = WipeKey(l)
    BY <1>5, SourceRow
  <2> QED
    BY <2>1, <2>2
<1>10. WipeKey(l)[1] = l.drive
  BY DEF WipeKey
<1> HIDE DEF l
<1> QED
  BY <1>1, <1>5, <1>8, <1>9, <1>10 DEF GoodSources

(* What an asset's certificate would list is proper, on record, and no earlier than
   anything on record. *)
LEMMA SourcesGoForward ==
  ASSUME RowsInv, WipesAreNamed, NEW a \in Assets, Certifiable(a)
  PROVE  /\ Proper(a, SourcesOf(a)) /\ OnRecord(a, SourcesOf(a))
         /\ \A S : Proper(a, S) /\ OnRecord(a, S) => NoLater(S, SourcesOf(a))
<1>1. GoodSources(a)
  BY StationSources, HandSources DEF WipesAreNamed
<1>2. ASSUME NEW r \in rows[a], r.status = "wiped"
      PROVE  KeyOf(a, WipeKey(r)) /\ TimeOf(r) \in Nat
  <2>1. PICK w \in Wipes[a] : r.method = w.method /\ r.manual = w.manual /\ r.at = w.at /\ r.drive = w.drive
    BY RowFacts
  <2>2. r.at \in Nat /\ DayOf(r) \in Nat
    BY RowFacts, DaysGoOn DEF DayOf
  <2>3. TimeOf(r) \in Nat
    BY <2>2 DEF TimeOf, WipeKey
  <2>4. w.manual <=> w.at = 0
    <3>1. CASE ByStationAlone(a)
      BY <3>1 DEF ByStationAlone
    <3>2. CASE ByHandAlone(a)
      BY <3>2 DEF ByHandAlone
    <3> QED
      BY <3>1, <3>2 DEF WipesAreNamed
  <2>5. WipeKey(r) = <<w.drive, "wiped", w.method,
                       IF w.manual THEN <<"day", TimeOf(r)>> ELSE <<"at", w.at>> >>
    BY <1>2, <2>1, <2>4 DEF WipeKey, TimeOf
  <2> QED
    BY <2>3, <2>5 DEF KeyOf, TimeOf
<1>3. Proper(a, SourcesOf(a))
  <2>1. ASSUME NEW k \in SourcesOf(a) PROVE KeyOf(a, k)
    BY <1>1, <1>2 DEF GoodSources
  <2>2. ASSUME NEW k \in SourcesOf(a), NEW l \in SourcesOf(a), NameOf(k[1]) = NameOf(l[1])
        PROVE  k = l
    <3>1. PICK r \in rows[a] :
            /\ k = WipeKey(r) /\ r.status = "wiped"
            /\ \A s \in rows[a] : s.status = "wiped" /\ NameOf(s.drive) = NameOf(r.drive) =>
                 TimeOf(s) <= TimeOf(r)
      BY <1>1 DEF GoodSources
    <3>2. PICK q \in rows[a] :
            /\ l = WipeKey(q) /\ q.status = "wiped"
            /\ \A s \in rows[a] : s.status = "wiped" /\ NameOf(s.drive) = NameOf(q.drive) =>
                 TimeOf(s) <= TimeOf(q)
      BY <1>1 DEF GoodSources
    <3>3. NameOf(r.drive) = NameOf(q.drive)
      BY <2>2, <3>1, <3>2 DEF WipeKey
    <3>4. TimeOf(r) <= TimeOf(q) /\ TimeOf(q) <= TimeOf(r) /\ TimeOf(r) \in Nat /\ TimeOf(q) \in Nat
      BY <1>2, <3>1, <3>2, <3>3
    <3>5. k[4][2] = l[4][2]
      BY <3>1, <3>2, <3>4 DEF TimeOf
    <3> QED
      BY <2>1, <2>2, <3>5, OneKey
  <2> QED
    BY <2>1, <2>2 DEF Proper
<1>4. OnRecord(a, SourcesOf(a))
  <2> SUFFICES ASSUME NEW k \in SourcesOf(a)
               PROVE  \E r \in rows[a] : r.status = "wiped" /\ NameOf(r.drive) = NameOf(k[1])
                                         /\ k[4][2] <= WipeKey(r)[4][2]
    BY DEF OnRecord
  <2>1. PICK r \in rows[a] : k = WipeKey(r) /\ r.status = "wiped"
    BY <1>1 DEF GoodSources
  <2>2. k[4][2] \in Nat
    BY <1>2, <2>1 DEF TimeOf
  <2>3. k[1] = r.drive
    BY <2>1 DEF WipeKey
  <2> QED
    BY <2>1, <2>2, <2>3
<1>5. ASSUME NEW S, Proper(a, S), OnRecord(a, S) PROVE NoLater(S, SourcesOf(a))
  <2> SUFFICES ASSUME NEW k \in S
               PROVE  \E l \in SourcesOf(a) : NameOf(l[1]) = NameOf(k[1]) /\ k[4][2] <= l[4][2]
    BY DEF NoLater
  <2>1. PICK r \in rows[a] : r.status = "wiped" /\ NameOf(r.drive) = NameOf(k[1]) /\ k[4][2] <= TimeOf(r)
    BY <1>5 DEF OnRecord, TimeOf
  <2>2. PICK l \in SourcesOf(a) : NameOf(l[1]) = NameOf(r.drive)
    BY <1>1 DEF GoodSources
  <2>3. PICK q \in rows[a] :
          /\ l = WipeKey(q) /\ q.status = "wiped"
          /\ \A s \in rows[a] : s.status = "wiped" /\ NameOf(s.drive) = NameOf(q.drive) =>
               TimeOf(s) <= TimeOf(q)
    BY <1>1 DEF GoodSources
  <2>4. NameOf(q.drive) = NameOf(r.drive)
    BY <2>2, <2>3 DEF WipeKey
  <2>5. TimeOf(r) <= TimeOf(q)
    BY <2>1, <2>3, <2>4
  <2>6. k[4][2] \in Nat /\ TimeOf(r) \in Nat /\ TimeOf(q) \in Nat
    BY <1>2, <1>5, <2>1, <2>3 DEF Proper, KeyOf
  <2>7. l[4][2] = TimeOf(q)
    BY <2>3 DEF TimeOf
  <2> QED
    BY <2>1, <2>2, <2>5, <2>6, <2>7
<1> QED
  BY <1>3, <1>4, <1>5

-----------------------------------------------------------------------------
(* The history is kept *)

(* With no certificate there is no history. *)
LEMMA InitHistory == Init => HistoryInv
<1> SUFFICES ASSUME Init PROVE HistoryInv
  OBVIOUS
<1>1. RowsInv
  BY FS_EmptySet DEF Init, RowsInv
<1> QED
  BY <1>1 DEF Init, HistoryInv

(* A filed wipe is one more row, received after all others. *)
LEMMA FileKeepsRows ==
  ASSUME RowsInv, NEW a \in Assets, NEW w \in Wipes[a], File(a, w)
  PROVE  RowsInv' /\ \A b \in Assets : rows[b] \subseteq rows'[b]
<1> DEFINE n == Cardinality(rows[a]) + 1
           new == [id |-> n, created |-> n, status |-> w.status, method |-> w.method,
                   manual |-> w.manual, at |-> w.at, drive |-> w.drive, profile |-> w.profile]
<1>1. rows' = [rows EXCEPT ![a] = rows[a] \cup {new}]
  BY DEF File
<1>2. /\ DOMAIN rows' = Assets /\ rows'[a] = rows[a] \cup {new}
      /\ \A b \in Assets \ {a} : rows'[b] = rows[b]
  BY <1>1 DEF RowsInv
<1>3. IsFiniteSet(rows[a]) /\ Cardinality(rows[a]) \in Nat
  BY FS_CardinalityType DEF RowsInv
<1>4. \A r \in rows[a] : r.id \in 1..Cardinality(rows[a])
  BY DEF RowsInv
<1>5. new \notin rows[a]
  BY <1>3, <1>4
<1>6. IsFiniteSet(rows'[a]) /\ Cardinality(rows'[a]) = n
  <2> DEFINE old == rows[a]
  <2>1. IsFiniteSet(old \cup {new}) /\ Cardinality(old \cup {new}) = Cardinality(old) + 1
    <3> HIDE DEF old, new
    <3> QED
      BY <1>3, <1>5, FS_AddElement DEF old
  <2> HIDE DEF new
  <2> QED
    BY <1>2, <2>1
<1>7. ASSUME NEW r \in rows'[a]
      PROVE  /\ r.created = r.id /\ r.id \in 1..Cardinality(rows'[a])
             /\ \A s \in rows'[a] : r.id = s.id => r = s
             /\ \E v \in Wipes[a] : /\ r.status = v.status /\ r.method = v.method
                                    /\ r.manual = v.manual /\ r.at = v.at /\ r.drive = v.drive
  <2>1. new.id = n /\ new.created = n
    OBVIOUS
  <2>2. /\ new.status = w.status /\ new.method = w.method
        /\ new.manual = w.manual /\ new.at = w.at /\ new.drive = w.drive
    OBVIOUS
  <2> HIDE DEF new
  <2>3. CASE r = new
    <3>1. \A s \in rows[a] : s.id # n
      BY <1>3, <1>4
    <3> QED
      BY <1>2, <1>3, <1>6, <2>1, <2>2, <2>3, <3>1
  <2>4. CASE r \in rows[a]
    <3>1. /\ r.created = r.id /\ r.id \in 1..Cardinality(rows[a])
          /\ \A s \in rows[a] : r.id = s.id => r = s
          /\ \E v \in Wipes[a] : /\ r.status = v.status /\ r.method = v.method
                                 /\ r.manual = v.manual /\ r.at = v.at /\ r.drive = v.drive
      BY <2>4 DEF RowsInv
    <3>2. r.id # n /\ r.id \in 1..n
      BY <1>3, <3>1
    <3> QED
      BY <1>2, <1>6, <2>1, <3>1, <3>2
  <2> QED
    BY <1>2, <2>3, <2>4
<1>8. RowsInv'
  <2>1. ASSUME NEW b \in Assets
        PROVE  /\ IsFiniteSet(rows'[b])
               /\ \A r \in rows'[b] :
                    /\ r.created = r.id /\ r.id \in 1..Cardinality(rows'[b])
                    /\ \A s \in rows'[b] : r.id = s.id => r = s
                    /\ \E v \in Wipes[b] : /\ r.status = v.status /\ r.method = v.method
                                           /\ r.manual = v.manual /\ r.at = v.at /\ r.drive = v.drive
    <3>1. CASE b = a
      BY <1>6, <1>7, <3>1
    <3>2. CASE b # a
      BY <1>2, <3>2 DEF RowsInv
    <3> QED
      BY <3>1, <3>2
  <2> QED
    BY <1>2, <2>1 DEF RowsInv
<1> HIDE DEF new
<1> QED
  BY <1>2, <1>8

(* What is on record stays on record. *)
LEMMA RecordsStay ==
  ASSUME NEW a \in Assets, \A b \in Assets : rows[b] \subseteq rows'[b]
  PROVE  \A S : OnRecord(a, S) =>
           \A k \in S : \E r \in rows'[a] :
             r.status = "wiped" /\ NameOf(r.drive) = NameOf(k[1]) /\ k[4][2] <= WipeKey(r)[4][2]
BY DEF OnRecord

(* Where no certificate is issued, only what a call reads under the lock is new. *)
LEMMA NoneIssued ==
  ASSUME LedgerInv, HistoryInv, RowsInv', \A b \in Assets : rows[b] \subseteq rows'[b], UNCHANGED certs,
         \A c \in Callers : pc'[c] \in {"reread", "insert"} =>
           \/ pc[c] \in {"reread", "insert"} /\ asset'[c] = asset[c] /\ sources'[c] = sources[c]
           \/ /\ Proper(asset'[c], sources'[c]) /\ OnRecord(asset'[c], sources'[c])
              /\ asset'[c] \in Assets
              /\ \A i \in DOMAIN certs : certs[i].asset = asset'[c] => NoLater(certs[i].sources, sources'[c])
  PROVE  HistoryInv'
<1>1. \A i \in DOMAIN certs : certs[i].asset \in Assets
  BY DEF LedgerInv, TypeOK
<1>2. \A i \in DOMAIN certs : /\ Proper(certs[i].asset, certs[i].sources)
                              /\ OnRecord(certs[i].asset, certs[i].sources)
                              /\ \A j \in DOMAIN certs : i < j /\ certs[i].asset = certs[j].asset =>
                                   /\ NoLater(certs[i].sources, certs[j].sources)
                                   /\ certs[i].sources # certs[j].sources
  BY DEF HistoryInv
<1>3. \A i \in DOMAIN certs' : OnRecord(certs[i].asset, certs[i].sources)'
  <2> SUFFICES ASSUME NEW i \in DOMAIN certs PROVE OnRecord(certs[i].asset, certs[i].sources)'
    OBVIOUS
  <2> QED
    BY <1>1, <1>2, RecordsStay DEF OnRecord
<1>4. ASSUME NEW c \in Callers, pc'[c] \in {"reread", "insert"}
      PROVE  /\ asset'[c] \in Assets
             /\ Proper(asset'[c], sources'[c]) /\ OnRecord(asset'[c], sources'[c])
             /\ \A i \in DOMAIN certs : certs[i].asset = asset'[c] => NoLater(certs[i].sources, sources'[c])
  <2>1. CASE pc[c] \in {"reread", "insert"} /\ asset'[c] = asset[c] /\ sources'[c] = sources[c]
    <3>1. asset[c] \in Assets
      BY <2>1 DEF LedgerInv, DraftIsComplete
    <3> QED
      BY <2>1, <3>1 DEF HistoryInv
  <2> QED
    BY <1>4, <2>1
<1>5. \A c \in Callers : pc'[c] \in {"reread", "insert"} => OnRecord(asset[c], sources[c])'
  <2> SUFFICES ASSUME NEW c \in Callers, pc'[c] \in {"reread", "insert"}
               PROVE  OnRecord(asset[c], sources[c])'
    OBVIOUS
  <2>1. asset'[c] \in Assets /\ OnRecord(asset'[c], sources'[c])
    BY <1>4
  <2> QED
    BY <2>1, RecordsStay DEF OnRecord
<1> QED
  BY <1>2, <1>3, <1>4, <1>5 DEF HistoryInv

(* What LatestIndex picks where there is a certificate. *)
LEMMA LatestCertificate ==
  ASSUME TypeOK, NEW i \in DOMAIN certs
  PROVE  LET l == LatestIndex(certs[i].asset)
         IN  l \in DOMAIN certs /\ i <= l /\ certs[l].asset = certs[i].asset
<1> DEFINE a == certs[i].asset
           I == {j \in DOMAIN certs : certs[j].asset = a}
           g == Greatest(I)
<1>1. DOMAIN certs = 1..Len(certs) /\ Len(certs) \in Nat
  BY DEF TypeOK
<1>2. I \in SUBSET (0..Len(certs)) /\ i \in I
  BY <1>1
<1>3. g \in I /\ \A j \in I : g >= j
  <2> HIDE DEF I
  <2> QED
    BY <1>1, <1>2, GreatestIs
<1>4. /\ g \in DOMAIN certs /\ certs[g].asset = a
      /\ \A j \in DOMAIN certs : certs[j].asset = a => j <= g
  <2> HIDE DEF g
  <2> QED
    BY <1>1, <1>3
<1> HIDE DEF g
<1>5. LatestIndex(a) = CHOOSE l \in DOMAIN certs :
                         certs[l].asset = a /\ \A j \in DOMAIN certs : certs[j].asset = a => j <= l
  BY <1>2 DEF LatestIndex
<1>6. /\ LatestIndex(a) \in DOMAIN certs /\ certs[LatestIndex(a)].asset = a
      /\ \A j \in DOMAIN certs : certs[j].asset = a => j <= LatestIndex(a)
  BY <1>4, <1>5
<1> QED
  BY <1>6

(* The new certificate is none of the asset's earlier ones: it is not the latest, and
   what lay between could not have come back. *)
LEMMA IssuedIsNew ==
  ASSUME WipesAreNamed, LedgerInv, HistoryInv, NEW c \in Callers, pc[c] = "insert",
         NEW i \in DOMAIN certs, certs[i].asset = asset[c]
  PROVE  certs[i].sources # sources[c]
<1> DEFINE a == asset[c]
           l == LatestIndex(certs[i].asset)
<1>1. a \in Assets /\ certs[i].asset = a /\ draft[c].asset = a /\ draft[c].sources = sources[c]
  <2>1. /\ draft[c] = [asset |-> asset[c], sources |-> sources[c],
                       number |-> draft[c].number, prev |-> draft[c].prev]
        /\ asset[c] \in Assets
    BY DEF LedgerInv, DraftIsComplete
  <2> DEFINE number == draft[c].number
             prev == draft[c].prev
  <2>2. draft[c] = [asset |-> asset[c], sources |-> sources[c], number |-> number, prev |-> prev]
    BY <2>1
  <2> HIDE DEF number, prev
  <2> QED
    BY <2>1, <2>2
<1>2. l \in DOMAIN certs /\ i <= l /\ certs[l].asset = a
  BY <1>1, LatestCertificate DEF LedgerInv
<1>3. certs[l].sources # sources[c]
  <2>1. ~Covered(a, sources[c])
    BY <1>1 DEF LedgerInv, DraftIsCurrent
  <2>2. l # 0 /\ l = LatestIndex(a)
    BY <1>1, <1>2 DEF LedgerInv, TypeOK
  <2> QED
    BY <2>1, <2>2 DEF Covered
<1> HIDE DEF l
<1>4. ASSUME certs[i].sources = sources[c] PROVE FALSE
  <2>1. i < l
    <3>1. i # l
      BY <1>3, <1>4
    <3>2. i \in Int /\ l \in Int
      BY <1>2 DEF LedgerInv, TypeOK
    <3> QED
      BY <1>2, <3>1, <3>2
  <2>2. /\ NoLater(certs[i].sources, certs[l].sources) /\ Proper(a, certs[i].sources)
        /\ Proper(a, certs[l].sources)
    BY <1>1, <1>2, <2>1 DEF HistoryInv
  <2>3. NoLater(certs[l].sources, sources[c])
    BY <1>2 DEF HistoryInv
  <2>4. certs[i].sources = certs[l].sources
    BY <1>1, <1>4, <2>2, <2>3, NoLaterSqueezes
  <2> QED
    BY <1>3, <1>4, <2>4
<1> QED
  BY <1>4

(* Every step keeps the history. *)
LEMMA NextHistory == WipesAreNamed /\ LedgerInv /\ HistoryInv /\ [Next]_vars => HistoryInv'
<1> SUFFICES ASSUME WipesAreNamed, LedgerInv, HistoryInv, [Next]_vars
             PROVE  HistoryInv'
  OBVIOUS
<1>1. RowsInv /\ (UNCHANGED rows => RowsInv' /\ \A b \in Assets : rows[b] \subseteq rows'[b])
  BY DEF HistoryInv, RowsInv
<1>2. ASSUME UNCHANGED <<rows, certs>>,
             \A d \in Callers : pc'[d] \in {"reread", "insert"} =>
               pc[d] \in {"reread", "insert"} /\ asset'[d] = asset[d] /\ sources'[d] = sources[d]
      PROVE  HistoryInv'
  BY <1>1, <1>2, NoneIssued
<1>3. ASSUME NEW a \in Assets, NEW w \in Wipes[a], File(a, w)
      PROVE  HistoryInv'
  <2>1. RowsInv' /\ \A b \in Assets : rows[b] \subseteq rows'[b]
    BY <1>1, <1>3, FileKeepsRows
  <2>2. UNCHANGED <<certs, pc, asset, sources>>
    BY <1>3 DEF File, calls
  <2> QED
    BY <2>1, <2>2, NoneIssued
<1>4. ASSUME NEW c \in Callers, NEW a \in Assets, FastRead(c, a)
      PROVE  HistoryInv'
  BY <1>2, <1>4 DEF FastRead, LedgerInv, TypeOK
<1>5. ASSUME NEW c \in Callers, FastAnswer(c) \/ Lock(c) \/ Crash(c)
      PROVE  HistoryInv'
  BY <1>2, <1>5 DEF FastAnswer, Lock, Crash, LedgerInv, TypeOK
<1>6. ASSUME NEW c \in Callers, Reread(c)
      PROVE  HistoryInv'
  <2> DEFINE a == asset[c]
  <2>1. a \in Assets /\ UNCHANGED <<rows, certs, asset>>
    BY <1>6 DEF Reread, LedgerInv, DraftIsComplete
  <2>2. CASE Certifiable(a)
    <3>1. /\ pc' = [pc EXCEPT ![c] = "reread"] /\ sources' = [sources EXCEPT ![c] = SourcesOf(a)]
      BY <1>6, <2>2 DEF Reread
    <3>2. /\ sources'[c] = SourcesOf(a) /\ asset'[c] = a
          /\ \A d \in Callers \ {c} : pc'[d] = pc[d] /\ sources'[d] = sources[d] /\ asset'[d] = asset[d]
      BY <2>1, <3>1 DEF LedgerInv, TypeOK
    <3>3. Proper(a, SourcesOf(a)) /\ OnRecord(a, SourcesOf(a))
      BY <1>1, <2>1, <2>2, SourcesGoForward
    <3>4. \A i \in DOMAIN certs : certs[i].asset = a => NoLater(certs[i].sources, SourcesOf(a))
      <4> SUFFICES ASSUME NEW i \in DOMAIN certs, certs[i].asset = a
                   PROVE  NoLater(certs[i].sources, SourcesOf(a))
        OBVIOUS
      <4>1. Proper(a, certs[i].sources) /\ OnRecord(a, certs[i].sources)
        BY DEF HistoryInv
      <4> QED
        BY <1>1, <2>1, <2>2, <4>1, SourcesGoForward
    <3> HIDE DEF a
    <3> QED
      BY <1>1, <2>1, <3>2, <3>3, <3>4, NoneIssued
  <2>3. CASE ~Certifiable(a)
    BY <1>2, <1>6, <2>3 DEF Reread, LedgerInv, TypeOK
  <2> QED
    BY <2>2, <2>3
<1>7. ASSUME NEW c \in Callers, Draft(c)
      PROVE  HistoryInv'
  <2>1. /\ UNCHANGED <<rows, certs, asset, sources>> /\ pc[c] = "reread"
        /\ \A d \in Callers \ {c} : pc'[d] = pc[d]
    BY <1>7 DEF Draft, LedgerInv, TypeOK
  <2> QED
    BY <1>2, <2>1
<1>8. ASSUME NEW c \in Callers, Insert(c)
      PROVE  HistoryInv'
  <2> DEFINE a == asset[c]
             n == Len(certs) + 1
  <2>1. /\ pc[c] = "insert" /\ UNCHANGED <<rows, asset, sources>>
        /\ \A d \in Callers : pc'[d] \notin {"reread", "insert"}
    BY <1>8 DEF Insert, LedgerInv, TypeOK, LockHeld, InTransaction
  <2>2. certs' = Append(certs, draft[c]) /\ certs \in Seq(Range(certs))
    BY <1>8, InsertAppends DEF LedgerInv, TypeOK
  <2>3. /\ Len(certs) \in Nat /\ DOMAIN certs = 1..Len(certs) /\ DOMAIN certs' = 1..n
        /\ certs'[n] = draft[c] /\ \A i \in DOMAIN certs : certs'[i] = certs[i]
    BY <2>2
  <2>4. draft[c].asset = a /\ draft[c].sources = sources[c]
    <3>1. draft[c] = [asset |-> asset[c], sources |-> sources[c],
                      number |-> draft[c].number, prev |-> draft[c].prev]
      BY <2>1 DEF LedgerInv, DraftIsComplete
    <3> DEFINE number == draft[c].number
               prev == draft[c].prev
    <3>2. draft[c] = [asset |-> asset[c], sources |-> sources[c], number |-> number, prev |-> prev]
      BY <3>1
    <3> HIDE DEF number, prev
    <3> QED
      BY <3>2
  <2>5. /\ Proper(a, sources[c]) /\ OnRecord(a, sources[c])
        /\ \A i \in DOMAIN certs : certs[i].asset = a =>
             NoLater(certs[i].sources, sources[c]) /\ certs[i].sources # sources[c]
    BY <2>1, IssuedIsNew DEF HistoryInv
  <2>6. \A i \in DOMAIN certs : /\ Proper(certs[i].asset, certs[i].sources)
                                /\ OnRecord(certs[i].asset, certs[i].sources)
                                /\ \A j \in DOMAIN certs : i < j /\ certs[i].asset = certs[j].asset =>
                                     /\ NoLater(certs[i].sources, certs[j].sources)
                                     /\ certs[i].sources # certs[j].sources
    BY DEF HistoryInv
  <2> HIDE DEF a, n
  <2>7. ASSUME NEW i \in DOMAIN certs'
        PROVE  /\ Proper(certs'[i].asset, certs'[i].sources)
               /\ OnRecord(certs'[i].asset, certs'[i].sources)
               /\ \A j \in DOMAIN certs' : i < j /\ certs'[i].asset = certs'[j].asset =>
                    /\ NoLater(certs'[i].sources, certs'[j].sources)
                    /\ certs'[i].sources # certs'[j].sources
    <3>1. CASE i \in DOMAIN certs
      <4>1. ASSUME NEW j \in DOMAIN certs', i < j, certs'[i].asset = certs'[j].asset
            PROVE  /\ NoLater(certs'[i].sources, certs'[j].sources)
                   /\ certs'[i].sources # certs'[j].sources
        <5>1. CASE j \in DOMAIN certs
          BY <2>3, <2>6, <3>1, <4>1, <5>1
        <5>2. CASE j = n
          BY <2>3, <2>4, <2>5, <3>1, <4>1, <5>2
        <5> QED
          BY <2>3, <5>1, <5>2 DEF n
      <4> QED
        BY <2>3, <2>6, <3>1, <4>1
    <3>2. CASE i = n
      <4>1. \A j \in DOMAIN certs' : ~(i < j)
        BY <2>3, <3>2 DEF n
      <4> QED
        BY <2>3, <2>4, <2>5, <3>2, <4>1
    <3> QED
      BY <2>3, <3>1, <3>2 DEF n
  <2>8. \A i \in DOMAIN certs' : OnRecord(certs[i].asset, certs[i].sources)'
    BY <2>1, <2>7 DEF OnRecord
  <2>9. RowsInv'
    BY <1>1, <2>1
  <2> QED
    BY <2>1, <2>7, <2>8, <2>9 DEF HistoryInv
<1>9. CASE UNCHANGED vars
  BY <1>2, <1>9 DEF vars
<1> QED
  BY <1>3, <1>4, <1>5, <1>6, <1>7, <1>8, <1>9 DEF Next, Call

(* One erasure has one certificate, whatever is sent, again or late, and however the
   calls interleave: of machines whose records say which wipe each is of
   (wipeKey and sameSources of certificate-ledger.ts). *)
THEOREM ErasuresCertifiedOnce == Spec => [](WipesAreNamed => OneCertificatePerErasure)
<1>1. Init => HistoryInv
  BY InitHistory
<1>2. LedgerInv /\ (WipesAreNamed => HistoryInv) /\ [Next]_vars => (WipesAreNamed => HistoryInv)'
  <2>1. WipesAreNamed' <=> WipesAreNamed
    OBVIOUS
  <2> QED
    BY <2>1, NextHistory
<1>3. LedgerInv /\ (WipesAreNamed => HistoryInv) => (WipesAreNamed => OneCertificatePerErasure)
  BY HistoryIsEnough DEF LedgerInv
<1> QED
  BY <1>1, <1>2, <1>3, LedgerInvariant, PTL DEF Spec

-----------------------------------------------------------------------------
(* The rows after row t *)

(* The place before place n is t, or that of a row between them; none lies between
   it and n. *)
LEMMA BeforeIs ==
  ASSUME ChainTypeOK, NEW t \in Nat, NEW n \in Nat, t < n
  PROVE  /\ Before(n, t) = t \/ \E s \in table : s.seq = Before(n, t)
         /\ Before(n, t) \in t..(n - 1)
         /\ \A s \in table : t < s.seq /\ s.seq < n => Before(n, t) >= s.seq
<1> DEFINE S == {t} \cup {r.seq : r \in {s \in table : t < s.seq /\ s.seq < n}}
<1>1. issued \in Nat /\ \A r \in table : r.seq \in 1..issued
  BY DEF ChainTypeOK
<1>2. t + issued \in Nat /\ S \in SUBSET (0..(t + issued)) /\ S # {}
  BY <1>1
<1>3. Greatest(S) \in S /\ \A y \in S : Greatest(S) >= y
  <2> HIDE DEF S
  <2> QED
    BY <1>2, GreatestIs
<1>4. Before(n, t) = Greatest(S)
  BY DEF Before
<1>5. \A y \in S : y \in t..(n - 1)
  BY <1>1
<1> HIDE DEF S
<1>6. Before(n, t) \in S /\ Before(n, t) \in t..(n - 1)
  BY <1>3, <1>4, <1>5
<1>7. \A s \in table : t < s.seq /\ s.seq < n => s.seq \in S
  BY DEF S
<1> QED
  BY <1>3, <1>4, <1>6, <1>7 DEF S

(* A batch holds, with a row, every row between it and row t. *)
LEMMA BatchIsPrefix ==
  ASSUME ChainTypeOK, TableFacts, NEW t \in Nat,
         NEW r \in BatchAfter(t), NEW s \in table, t < s.seq, s.seq <= r.seq
  PROVE  s \in BatchAfter(t)
<1> DEFINE upTo(n) == {u \in table : t < u.seq /\ u.seq <= n}
<1>1. issued \in Nat /\ \A u \in table : u.seq \in 1..issued
  BY DEF ChainTypeOK
<1>2. r \in table /\ Cardinality(upTo(r.seq)) <= Batch
  BY DEF BatchAfter
<1>3. upTo(s.seq) \subseteq upTo(r.seq)
  BY <1>1, <1>2
<1>4. IsFiniteSet(upTo(r.seq))
  BY FS_Subset DEF TableFacts
<1>5. /\ Cardinality(upTo(s.seq)) \in Nat /\ Cardinality(upTo(r.seq)) \in Nat
      /\ Cardinality(upTo(s.seq)) <= Cardinality(upTo(r.seq))
  BY <1>3, <1>4, FS_Subset, FS_CardinalityType
<1>6. Cardinality(upTo(s.seq)) <= Batch
  BY <1>2, <1>5, ChainAssumption
<1> QED
  BY <1>6, <1>1 DEF BatchAfter

(* A batch that is not full holds every row after row t. *)
LEMMA ShortBatchIsRest ==
  ASSUME ChainTypeOK, TableFacts, NEW t \in Nat, Cardinality(BatchAfter(t)) < Batch,
         NEW s \in table, t < s.seq
  PROVE  s \in BatchAfter(t)
<1> SUFFICES ASSUME s \notin BatchAfter(t)
             PROVE  FALSE
  OBVIOUS
<1> DEFINE upTo(n) == {u \in table : t < u.seq /\ u.seq <= n}
           left == {u.seq : u \in {v \in table : t < v.seq /\ v \notin BatchAfter(t)}}
<1>1. issued \in Nat /\ \A u \in table : u.seq \in 1..issued
  BY DEF ChainTypeOK
<1>2. left \in SUBSET Nat /\ left # {}
  BY <1>1
<1>3. PICK n \in left : \A m \in left : n <= m
  BY <1>2, LeastNumber
<1>4. PICK u \in table : t < u.seq /\ u \notin BatchAfter(t) /\ u.seq = n
  OBVIOUS
<1>5. IsFiniteSet(BatchAfter(t)) /\ IsFiniteSet(upTo(n))
  BY FS_Subset DEF TableFacts, BatchAfter
<1>6. upTo(n) \subseteq BatchAfter(t) \cup {u}
  <2> SUFFICES ASSUME NEW v \in table, t < v.seq, v.seq <= n, v \notin BatchAfter(t)
               PROVE  v = u
    OBVIOUS
  <2>1. v.seq \in left
    OBVIOUS
  <2>2. n <= v.seq
    BY <2>1, <1>3
  <2>3. v.seq = n
    BY <2>2, <1>1, <1>2
  <2> QED
    BY <2>3, <1>4 DEF TableFacts
<1>7. /\ IsFiniteSet(BatchAfter(t) \cup {u})
      /\ Cardinality(BatchAfter(t) \cup {u}) = Cardinality(BatchAfter(t)) + 1
  BY <1>4, <1>5, FS_AddElement
<1>8. Cardinality(upTo(n)) <= Cardinality(BatchAfter(t)) + 1
  BY <1>6, <1>7, FS_Subset
<1>9. Cardinality(upTo(n)) \in Nat /\ Cardinality(BatchAfter(t)) \in Nat
  BY <1>5, FS_CardinalityType
<1>10. Cardinality(upTo(u.seq)) <= Batch
  BY <1>4, <1>8, <1>9, ChainAssumption
<1> QED
  BY <1>4, <1>10, <1>1 DEF BatchAfter

-----------------------------------------------------------------------------
(* A batch of the walk *)

(* A row that stays bad for the walk, or one after it that is left, does not
   follow. *)
LEMMA BadIsFound ==
  ASSUME ChainTypeOK, TableFacts, NEW t \in Nat, NEW n \in Nat, StaysBad(n, t)
  PROVE  \E r \in table : /\ n <= r.seq /\ ~Follows(r, t)
                           /\ \A s \in table : n <= s.seq => r.seq <= s.seq
<1> DEFINE later == {r.seq : r \in {s \in table : n <= s.seq}}
<1>1. issued \in Nat /\ \A r \in table : r.seq \in 1..issued
  BY DEF ChainTypeOK
<1>2. t < n /\ n <= issued
  BY DEF StaysBad
<1>3. PICK last \in table : last.seq = issued
  BY <1>1, <1>2 DEF TableFacts
<1>4. later \in SUBSET Nat /\ later # {}
  BY <1>1, <1>2, <1>3
<1>5. PICK m \in later : \A k \in later : m <= k
  BY <1>4, LeastNumber
<1>6. PICK r \in table : n <= r.seq /\ r.seq = m
  OBVIOUS
<1>7. \A s \in table : n <= s.seq => r.seq <= s.seq
  BY <1>5, <1>6
<1>8. r.prev = r.seq - 1 /\ r.seq \in Nat
  BY <1>1, <1>6 DEF TableFacts
<1>85. t < r.seq
  BY <1>2, <1>6, <1>8
<1>9. /\ Before(r.seq, t) = t \/ \E s \in table : s.seq = Before(r.seq, t)
      /\ Before(r.seq, t) \in t..(r.seq - 1)
  BY <1>8, <1>85, BeforeIs
<1>10. ~Follows(r, t)
  <2>1. CASE r.seq = n
    <3>1. r.good => n - 1 # t /\ \A s \in table : s.seq # n - 1
      BY <2>1, <1>6 DEF StaysBad
    <3> QED
      BY <3>1, <2>1, <1>8, <1>9 DEF Follows
  <2>2. CASE r.seq # n
    <3>1. Before(r.seq, t) < n
      BY <1>1, <1>2, <1>6, <1>7, <1>8, <1>9
    <3> QED
      BY <3>1, <2>2, <1>2, <1>6, <1>8, <1>9 DEF Follows
  <2> QED
    BY <2>1, <2>2
<1> QED
  BY <1>6, <1>7, <1>10

(* While nobody edits the table, every row follows. *)
LEMMA UneditedFollows ==
  ASSUME ChainTypeOK, TableFacts, tampers = 0, NEW t \in Nat, NEW r \in table, t < r.seq
  PROVE  Follows(r, t)
<1>1. issued \in Nat /\ r.seq \in 1..issued
  BY DEF ChainTypeOK
<1>2. r.good
  BY <1>1 DEF TableFacts
<1>3. /\ Before(r.seq, t) \in t..(r.seq - 1)
      /\ \A s \in table : t < s.seq /\ s.seq < r.seq => Before(r.seq, t) >= s.seq
  BY <1>1, BeforeIs
<1>4. CASE t = r.seq - 1
  BY <1>1, <1>2, <1>3, <1>4 DEF Follows, TableFacts
<1>5. CASE t < r.seq - 1
  <2>1. PICK s \in table : s.seq = r.seq - 1
    BY <1>1, <1>5 DEF TableFacts
  <2>2. Before(r.seq, t) = r.seq - 1
    BY <2>1, <1>1, <1>3, <1>5
  <2> QED
    BY <2>2, <1>2 DEF Follows, TableFacts
<1> QED
  BY <1>1, <1>4, <1>5

(* What one batch does to the walk: it stops before a row that stays bad, and says
   so; and it comes to the end of an unedited table. *)
LEMMA BatchEffect ==
  ASSUME ChainTypeOK, TableFacts, WalkBatch
  PROVE  /\ walk' \in [phase : {"walking", "walked"}, full : {walk.full}, through : Nat,
                       broken : Nat, bad : {walk.bad}]
         /\ \A n \in Nat : StaysBad(n, walk.through) =>
              StaysBad(n, walk'.through) /\ (walk'.phase = "walked" => walk'.broken # 0)
         /\ tampers = 0 /\ walk.through <= issued =>
              /\ walk'.broken = 0 /\ walk'.through <= issued
              /\ walk'.phase = "walked" => walk'.through = issued
<1> DEFINE t     == walk.through
           batch == BatchAfter(t)
           bad   == {r.seq : r \in {s \in batch : ~Follows(s, t)}}
           good  == {r.seq : r \in {s \in batch : \A n \in bad : s.seq < n}}
           new   == Greatest({t} \cup good)
           short == Cardinality(batch) < Batch
<1>1. /\ walk' = [walk EXCEPT !.through = new,
                              !.broken  = IF bad = {} THEN 0 ELSE Least(bad),
                              !.phase   = IF bad # {} \/ short THEN "walked" ELSE "walking"]
      /\ walk.phase = "walking"
  BY DEF WalkBatch
<1>2. /\ t \in Nat /\ issued \in Nat
      /\ walk \in [phase : {"none", "walking", "walked", "ended"}, full : BOOLEAN,
                   through : Nat, broken : Nat, bad : Nat]
      /\ \A r \in table : r.seq \in 1..issued
  BY DEF ChainTypeOK
<1>3. batch \subseteq table /\ \A r \in batch : t < r.seq
  BY DEF BatchAfter
<1>4. good \subseteq 1..issued /\ bad \subseteq 1..issued
  BY <1>2, <1>3
<1>5. t + issued \in Nat /\ {t} \cup good \in SUBSET (0..(t + issued))
  BY <1>2, <1>4
<1>6. new \in {t} \cup good /\ (\A y \in {t} \cup good : new >= y)
  <2> DEFINE S == {t} \cup good
  <2>1. S # {} /\ S \in SUBSET (0..(t + issued))
    BY <1>5
  <2> HIDE DEF S
  <2>2. Greatest(S) \in S /\ \A y \in S : Greatest(S) >= y
    BY <1>5, <2>1, GreatestIs
  <2> QED
    BY <2>2 DEF S
<1>7. bad # {} => Least(bad) \in bad
  <2> HIDE DEF bad
  <2> QED
    BY <1>2, <1>4, LeastIs
<1> HIDE DEF new, bad, good, short
<1>8. new \in Nat /\ (bad # {} => Least(bad) \in 1..issued)
  <2>1. \A y \in {t} \cup good : y \in Nat
    BY <1>2, <1>4
  <2>2. bad # {} => Least(bad) \in 1..issued
    BY <1>4, <1>7
  <2> QED
    BY <1>6, <2>1, <2>2
<1>9. walk' \in [phase : {"walking", "walked"}, full : {walk.full}, through : Nat,
                 broken : Nat, bad : {walk.bad}]
  <2> DEFINE broken == IF bad = {} THEN 0 ELSE Least(bad)
             phase  == IF bad # {} \/ short THEN "walked" ELSE "walking"
  <2>1. broken \in Nat
    <3>1. CASE bad = {}
      BY <3>1
    <3>2. CASE bad # {}
      BY <3>2, <1>2, <1>8
    <3> QED
      BY <3>1, <3>2
  <2>2. phase \in {"walking", "walked"}
    OBVIOUS
  <2>3. walk' = [walk EXCEPT !.through = new, !.broken = broken, !.phase = phase]
    BY <1>1
  <2> HIDE DEF broken, phase
  <2> QED
    BY <2>1, <2>2, <2>3, <1>2, <1>8
<1>10. /\ walk'.through = new
       /\ walk'.broken = IF bad = {} THEN 0 ELSE Least(bad)
       /\ walk'.phase = "walked" => bad # {} \/ short
  BY <1>1, <1>2
<1>11. ASSUME NEW n \in Nat, StaysBad(n, t)
       PROVE  StaysBad(n, new) /\ (walk'.phase = "walked" => walk'.broken # 0)
  <2>1. PICK r \in table : /\ n <= r.seq /\ ~Follows(r, t)
                           /\ \A s \in table : n <= s.seq => r.seq <= s.seq
    BY <1>2, <1>11, BadIsFound
  <2>2. t < n /\ n <= issued /\ t < r.seq
    BY <1>2, <1>11, <2>1 DEF StaysBad
  <2>3. ASSUME NEW s \in batch, s.seq \in good
        PROVE  s.seq < n
    <3> SUFFICES ASSUME n <= s.seq PROVE FALSE
      BY <1>2, <1>3
    <3>1. r.seq <= s.seq
      BY <2>1, <1>3
    <3>2. r \in batch
      BY <1>2, <2>2, <3>1, BatchIsPrefix
    <3>3. r.seq \in bad
      BY <3>2, <2>1 DEF bad
    <3>4. s.seq < r.seq
      BY <2>3, <3>3 DEF good
    <3> QED
      BY <3>1, <3>4, <1>2, <1>3
  <2>4. new = t \/ \E s \in batch : s.seq = new /\ s.seq \in good
    BY <1>6 DEF good
  <2>5. new < n /\ (new = t \/ \E s \in table : s.seq = new)
    BY <2>2, <2>3, <2>4, <1>3
  <2>6. StaysBad(n, new)
    BY <2>5, <1>11, <1>2 DEF StaysBad
  <2>7. short => bad # {}
    BY <2>1, <2>2, <1>2, ShortBatchIsRest DEF short, bad
  <2> QED
    BY <2>6, <2>7, <1>7, <1>8, <1>10
<1>12. ASSUME tampers = 0, t <= issued
       PROVE  /\ walk'.broken = 0 /\ new <= issued
              /\ walk'.phase = "walked" => new = issued
  <2>1. bad = {}
    BY <1>2, <1>3, <1>12, UneditedFollows DEF bad
  <2>2. new <= issued
    BY <1>2, <1>4, <1>6, <1>12
  <2>3. ASSUME short, t < issued
        PROVE  issued \in good
    <3>1. PICK s \in table : s.seq = issued
      BY <1>2, <2>3 DEF TableFacts
    <3>2. s \in batch
      BY <1>2, <2>3, <3>1, ShortBatchIsRest DEF short
    <3> QED
      BY <3>1, <3>2, <2>1 DEF good
  <2>4. short => new >= issued
    BY <2>3, <1>2, <1>6, <1>12
  <2> QED
    BY <2>1, <2>2, <2>4, <1>2, <1>8, <1>10
<1> QED
  BY <1>9, <1>10, <1>11, <1>12

-----------------------------------------------------------------------------
(* The world's steps *)

(* The place a walk from the first certificate will not get past. *)
LEMMA FirstBadStays ==
  ASSUME ChainTypeOK, TableFacts
  PROVE  /\ FirstBad \in Nat
         /\ FirstBad # 0 => StaysBad(FirstBad, 0)
         /\ tampers = 0 => FirstBad = 0
<1> DEFINE bad == {r.seq : r \in {s \in table : ~Follows(s, 0)}}
<1>1. issued \in Nat /\ \A r \in table : r.seq \in 1..issued
  BY DEF ChainTypeOK
<1>2. bad \subseteq 1..issued /\ FirstBad = IF bad = {} THEN 0 ELSE Least(bad)
  BY <1>1 DEF FirstBad
<1>3. tampers = 0 => bad = {}
  BY <1>1, UneditedFollows
<1>4. ASSUME bad # {}
      PROVE  FirstBad \in Nat /\ FirstBad # 0 /\ StaysBad(FirstBad, 0)
  <2>1. Least(bad) \in bad
    <3> HIDE DEF bad
    <3> QED
      BY <1>1, <1>2, <1>4, LeastIs
  <2>2. PICK r \in table : r.seq = FirstBad /\ ~Follows(r, 0)
    BY <2>1, <1>2, <1>4
  <2>3. /\ Before(r.seq, 0) = 0 \/ \E s \in table : s.seq = Before(r.seq, 0)
        /\ Before(r.seq, 0) \in 0..(r.seq - 1)
        /\ \A s \in table : 0 < s.seq /\ s.seq < r.seq => Before(r.seq, 0) >= s.seq
    BY <1>1, BeforeIs
  <2>4. r.good => r.seq - 1 # 0 /\ \A s \in table : s.seq # r.seq - 1
    BY <2>2, <2>3, <1>1 DEF Follows, TableFacts
  <2>5. \A s \in table : s.seq = r.seq => s = r
    BY DEF TableFacts
  <2> QED
    BY <2>2, <2>4, <2>5, <1>1 DEF StaysBad
<1> QED
  BY <1>2, <1>3, <1>4

(* Issuing and editing leave the table as TableFacts says, and undo no damage. *)
LEMMA TableKept ==
  ASSUME ChainTypeOK, TableFacts, Issue \/ \E r \in table : Tamper(r)
  PROVE  /\ table' \in SUBSET [seq : 1..issued', prev : 0..issued', good : BOOLEAN]
         /\ issued' \in Nat /\ issued <= issued' /\ tampers' \in Nat
         /\ TableFacts'
         /\ tampers' = 0 => tampers = 0
         /\ \A n \in Nat, t \in Nat : StaysBad(n, t) => StaysBad(n, t)'
<1>1. /\ issued \in Nat /\ tampers \in Nat
      /\ table \in SUBSET [seq : 1..issued, prev : 0..issued, good : BOOLEAN]
  BY DEF ChainTypeOK
<1>2. CASE Issue
  <2> DEFINE S == {0} \cup {r.seq : r \in table}
             new == [seq |-> issued + 1, good |-> TRUE, prev |-> issued]
  <2>1. S \in SUBSET (0..issued) /\ S # {}
    BY <1>1
  <2>2. issued \in S
    BY <1>1 DEF TableFacts
  <2>3. Greatest(S) = issued
    <3> HIDE DEF S
    <3>1. Greatest(S) \in S /\ \A y \in S : Greatest(S) >= y
      BY <1>1, <2>1, GreatestIs
    <3>2. Greatest(S) \in 0..issued
      BY <3>1, <2>1
    <3>3. Greatest(S) >= issued
      BY <3>1, <2>2
    <3> QED
      BY <3>2, <3>3, <1>1
  <2>4. table' = table \cup {new} /\ issued' = issued + 1 /\ tampers' = tampers
    BY <1>2, <2>3 DEF Issue
  <2>5. IsFiniteSet(table')
    BY <2>4, FS_AddElement DEF TableFacts
  <2>55. new.seq = issued + 1 /\ new.good /\ new.prev = issued
    OBVIOUS
  <2>56. \A r \in table : r.seq \in 1..issued /\ r.prev \in 0..issued
    BY <1>1
  <2>6. new \in table' /\ \A r \in table' : r \in table \/ r = new
    BY <2>4
  <2>7. new \in [seq : 1..issued', prev : 0..issued', good : BOOLEAN]
    BY <2>4, <1>1
  <2>75. [seq : 1..issued, prev : 0..issued, good : BOOLEAN] \subseteq
           [seq : 1..issued', prev : 0..issued', good : BOOLEAN]
    BY <2>4, <1>1
  <2> HIDE DEF new
  <2>8. table' \in SUBSET [seq : 1..issued', prev : 0..issued', good : BOOLEAN]
    BY <2>6, <2>7, <2>75, <1>1
  <2>9. \A r \in table' : r.prev = r.seq - 1
    BY <2>6, <2>55, <1>1 DEF TableFacts
  <2>10. \A r, s \in table' : r.seq = s.seq => r = s
    BY <2>6, <2>55, <2>56, <1>1 DEF TableFacts
  <2>11. \E r \in table' : r.seq = issued'
    BY <2>4, <2>6, <2>55
  <2>12. tampers' = 0 => \A n \in 1..issued' : \E r \in table' : r.seq = n /\ r.good
    <3> SUFFICES ASSUME tampers = 0, NEW n \in 1..issued'
                 PROVE  \E r \in table' : r.seq = n /\ r.good
      BY <2>4
    <3>1. CASE n = issued + 1
      BY <3>1, <2>6, <2>55
    <3>2. CASE n # issued + 1
      <4>1. n \in 1..issued
        BY <3>2, <2>4, <1>1
      <4> QED
        BY <4>1, <2>4 DEF TableFacts
    <3> QED
      BY <3>1, <3>2
  <2>13. ASSUME NEW n \in Nat, NEW t \in Nat, StaysBad(n, t)
         PROVE  StaysBad(n, t)'
    <3>1. \A r \in table' : r.seq = n \/ r.seq = n - 1 => r \in table
      BY <2>13, <2>6, <2>55, <1>1 DEF StaysBad
    <3> QED
      BY <3>1, <2>13, <2>4, <1>1 DEF StaysBad
  <2>14. TableFacts'
    BY <2>5, <2>9, <2>10, <2>11, <2>12 DEF TableFacts
  <2> QED
    BY <2>4, <2>8, <2>13, <2>14, <1>1
<1>3. ASSUME NEW r \in table, Tamper(r)
      PROVE  /\ table' \in SUBSET [seq : 1..issued', prev : 0..issued', good : BOOLEAN]
             /\ issued' = issued /\ tampers' = tampers + 1
             /\ TableFacts'
             /\ \A n \in Nat, t \in Nat : StaysBad(n, t) => StaysBad(n, t)'
  <2> DEFINE bad == [r EXCEPT !.good = FALSE]
  <2>1. issued' = issued /\ tampers' = tampers + 1
    BY <1>3 DEF Tamper
  <2>2. \/ table' = (table \ {r}) \cup {bad}
        \/ table' = table \ {r} /\ \E s \in table : s.seq > r.seq
    BY <1>3 DEF Tamper
  <2>3. /\ bad.seq = r.seq /\ bad.prev = r.prev /\ bad.good = FALSE
        /\ bad \in [seq : 1..issued, prev : 0..issued, good : BOOLEAN]
    BY <1>1
  <2>4. IsFiniteSet(table')
    <3>1. IsFiniteSet(table \ {r})
      BY FS_RemoveElement DEF TableFacts
    <3> HIDE DEF bad
    <3> QED
      BY <3>1, <2>2, FS_AddElement
  <2> HIDE DEF bad
  <2>5. \A s \in table' : \E u \in table : s.seq = u.seq /\ s.prev = u.prev /\ (s.good => s = u)
    BY <2>2, <2>3
  <2>6. table' \in SUBSET [seq : 1..issued', prev : 0..issued', good : BOOLEAN]
    BY <2>1, <2>2, <2>3, <1>1
  <2>7. \A s, u \in table' : s.seq = u.seq => s = u
    BY <2>2, <2>3 DEF TableFacts
  <2>8. issued # 0 => \E s \in table' : s.seq = issued
    <3> SUFFICES ASSUME issued # 0 PROVE \E s \in table' : s.seq = issued
      OBVIOUS
    <3>1. PICK last \in table : last.seq = issued
      BY DEF TableFacts
    <3>2. CASE table' = (table \ {r}) \cup {bad}
      BY <3>1, <3>2, <2>3
    <3>3. CASE table' = table \ {r} /\ \E s \in table : s.seq > r.seq
      <4>1. last # r
        BY <3>1, <3>3, <1>1
      <4> QED
        BY <4>1, <3>1, <3>3
    <3> QED
      BY <3>2, <3>3, <2>2
  <2>9. TableFacts'
    BY <2>1, <2>4, <2>5, <2>7, <2>8, <1>1 DEF TableFacts
  <2>10. ASSUME NEW n \in Nat, NEW t \in Nat, StaysBad(n, t)
         PROVE  StaysBad(n, t)'
    BY <2>10, <2>1, <2>5 DEF StaysBad
  <2> QED
    BY <2>1, <2>6, <2>9, <2>10
<1> QED
  BY <1>1, <1>2, <1>3

-----------------------------------------------------------------------------
(* Walks that begin *)

(* A walk that begins: going on, it goes on from an unbroken chain; from the first
   certificate, it will stop before what is bad by now. *)
LEMMA NewWalkFacts ==
  ASSUME ChainInv, NEW full \in BOOLEAN, walk' = NewWalk(full),
         UNCHANGED <<world, chain, seen>>
  PROVE  /\ walk' \in [phase : {"none", "walking", "walked", "ended"}, full : BOOLEAN,
                       through : Nat, broken : Nat, bad : Nat]
         /\ WalkFacts'
         /\ walk'.phase # "walked" /\ (tampers = 0 => walk'.phase = "walking")
<1> DEFINE phase   == IF ~full /\ chain.broken # 0 THEN "ended" ELSE "walking"
           through == IF full THEN 0 ELSE chain.through
           bad     == IF full THEN FirstBad ELSE seen
<1>1. walk' = [phase |-> phase, full |-> full, through |-> through, broken |-> 0, bad |-> bad]
  BY DEF NewWalk
<1>2. /\ FirstBad \in Nat /\ (FirstBad # 0 => StaysBad(FirstBad, 0))
      /\ tampers = 0 => FirstBad = 0
  BY FirstBadStays DEF ChainInv
<1>3. /\ seen \in Nat /\ chain.through \in Nat /\ issued \in Nat
      /\ seen # 0 => chain.broken # 0
      /\ tampers = 0 => chain.broken = 0 /\ seen = 0 /\ chain.through <= issued
  BY DEF ChainInv, ChainTypeOK, ChainFacts
<1>4. through \in Nat /\ bad \in Nat /\ phase \in {"walking", "ended"}
  BY <1>2, <1>3
<1>5. phase = "walking" => (~full => chain.broken = 0 /\ bad = seen)
                           /\ (bad # 0 => StaysBad(bad, through))
  BY <1>2, <1>3
<1>6. tampers = 0 => bad = 0 /\ through <= issued /\ phase = "walking"
  BY <1>2, <1>3
<1>7. /\ table' = table /\ issued' = issued /\ tampers' = tampers
      /\ chain' = chain /\ seen' = seen
  BY DEF world
<1>8. \A n, t : StaysBad(n, t)' <=> StaysBad(n, t)
  BY <1>7 DEF StaysBad
<1> HIDE DEF phase, through, bad
<1>9. /\ walk'.phase = phase /\ walk'.full = full /\ walk'.through = through
      /\ walk'.broken = 0 /\ walk'.bad = bad
  BY <1>1
<1>10. WalkFacts'
  BY <1>4, <1>5, <1>6, <1>7, <1>8, <1>9 DEF WalkFacts
<1> QED
  BY <1>1, <1>4, <1>6, <1>9, <1>10

-----------------------------------------------------------------------------
(* The inductive invariant *)

(* The initial states satisfy it. *)
LEMMA InitChain == ChainInit => ChainInv
<1> SUFFICES ASSUME ChainInit PROVE ChainInv
  OBVIOUS
<1> USE DEF ChainInit, Unknown, NoWalk
<1>1. ChainTypeOK
  BY DEF ChainTypeOK
<1>2. TableFacts
  BY FS_EmptySet DEF TableFacts
<1>3. ChainFacts /\ WalkFacts /\ CheckFacts /\ NoFalseAlarm
  BY DEF ChainFacts, WalkFacts, CheckFacts, NoFalseAlarm
<1> QED
  BY <1>1, <1>2, <1>3 DEF ChainInv

(* An answer to a check of an unedited table: two walks reached the certificate, or
   the chain covers it. *)
LEMMA AnswerIsValid ==
  ASSUME ChainInv, NEW c \in Checks, tampers = 0, Covers(target[c]) \/ GivesUp(c)
  PROVE  Verdict(target[c]) = "valid"
<1>1. /\ target[c] \in Nat /\ attempt[c] \in Nat /\ chain.through \in Nat
      /\ chain.broken = 0
      /\ attempt[c] >= 2 => chain.through >= target[c]
  BY DEF ChainInv, ChainTypeOK, ChainFacts, CheckFacts
<1>2. chain.through >= target[c]
  BY <1>1 DEF Covers, GivesUp
<1> QED
  BY <1>1, <1>2 DEF Verdict

(* Every step keeps the invariant. *)
LEMMA NextChain == ChainInv /\ [ChainNext]_chainVars => ChainInv'
<1> SUFFICES ASSUME ChainInv, [ChainNext]_chainVars
             PROVE  ChainInv'
  OBVIOUS
<1> USE DEF ChainInv
<1>1. CASE Issue \/ \E r \in table : Tamper(r)
  <2>1. UNCHANGED <<chain, expired, walk, seen, stage, target, attempt, answer>>
    BY <1>1 DEF Issue, Tamper, checks
  <2>2. /\ table' \in SUBSET [seq : 1..issued', prev : 0..issued', good : BOOLEAN]
        /\ issued' \in Nat /\ issued <= issued' /\ tampers' \in Nat
        /\ TableFacts' /\ (tampers' = 0 => tampers = 0)
        /\ \A n \in Nat, t \in Nat : StaysBad(n, t) => StaysBad(n, t)'
    BY <1>1, TableKept
  <2>3. troubles' = troubles
    BY <1>1 DEF Issue, Tamper
  <2>4. ChainTypeOK'
    BY <2>1, <2>2, <2>3 DEF ChainTypeOK
  <2>5. issued \in Nat /\ chain.through \in Nat /\ walk.through \in Nat /\ walk.bad \in Nat
        /\ \A c \in Checks : target[c] \in Nat
    BY DEF ChainTypeOK
  <2>6. ChainFacts'
    BY <2>1, <2>2, <2>5 DEF ChainFacts
  <2>7. WalkFacts'
    BY <2>1, <2>2, <2>5 DEF WalkFacts
  <2>8. CheckFacts' /\ NoFalseAlarm'
    BY <2>1, <2>2, <2>5 DEF CheckFacts, NoFalseAlarm
  <2> QED
    BY <2>2, <2>4, <2>6, <2>7, <2>8
<1>2. ASSUME UNCHANGED <<table, issued, tampers>>
      PROVE  /\ TableFacts'
             /\ \A n, t : StaysBad(n, t)' <=> StaysBad(n, t)
  BY <1>2 DEF TableFacts, StaysBad
<1>3. CASE Expire
  <2>1. UNCHANGED <<table, issued, tampers, troubles, chain, walk, seen, stage, target, attempt, answer>>
        /\ expired' \in BOOLEAN
    BY <1>3 DEF Expire, world, checks
  <2>2. ChainTypeOK' /\ ChainFacts' /\ CheckFacts' /\ NoFalseAlarm'
    BY <2>1 DEF ChainTypeOK, ChainFacts, CheckFacts, NoFalseAlarm
  <2>3. WalkFacts'
    BY <2>1, <1>2 DEF WalkFacts
  <2> QED
    BY <2>1, <2>2, <2>3, <1>2
<1>4. CASE Restart
  <2>1. /\ UNCHANGED <<table, issued, tampers>> /\ troubles' = troubles + 1
        /\ chain' = Unknown /\ expired' = FALSE /\ walk' = NoWalk /\ seen' = 0
        /\ stage' = [c \in Checks |-> "idle"] /\ answer' = [c \in Checks |-> "none"]
        /\ target' = [c \in Checks |-> 0] /\ attempt' = [c \in Checks |-> 0]
    BY <1>4 DEF Restart
  <2>15. /\ chain' \in [known : BOOLEAN, through : Nat, broken : Nat]
         /\ walk' \in [phase : {"none", "walking", "walked", "ended"}, full : BOOLEAN,
                       through : Nat, broken : Nat, bad : Nat]
    BY <2>1 DEF Unknown, NoWalk
  <2>16. /\ stage' \in [Checks -> {"idle", "looking", "waiting"}]
         /\ target' \in [Checks -> Nat] /\ attempt' \in [Checks -> Nat]
         /\ answer' \in [Checks -> {"none", "valid", "invalid", "failed"}]
    BY <2>1
  <2>17. /\ issued' \in Nat /\ tampers' \in Nat /\ troubles' \in Nat /\ seen' \in Nat
         /\ expired' \in BOOLEAN
         /\ table' \in SUBSET [seq : 1..issued', prev : 0..issued', good : BOOLEAN]
    <3>1. table' \in SUBSET [seq : 1..issued', prev : 0..issued', good : BOOLEAN]
      BY <2>1 DEF ChainTypeOK
    <3>2. issued \in Nat /\ tampers \in Nat /\ troubles \in Nat
      BY DEF ChainTypeOK
    <3>3. issued' \in Nat /\ tampers' \in Nat /\ troubles' \in Nat /\ seen' \in Nat
      BY <3>2, <2>1
    <3>4. expired' \in BOOLEAN
      BY <2>1
    <3> QED
      BY <3>1, <3>3, <3>4
  <2>2. ChainTypeOK'
    BY <2>15, <2>16, <2>17 DEF ChainTypeOK
  <2>3. ChainFacts' /\ WalkFacts' /\ CheckFacts' /\ NoFalseAlarm'
    BY <2>1 DEF ChainTypeOK, ChainFacts, WalkFacts, CheckFacts, NoFalseAlarm, Unknown, NoWalk
  <2> QED
    BY <2>1, <2>2, <2>3, <1>2
<1>5. CASE WalkBatch
  <2>1. UNCHANGED <<table, issued, tampers, troubles, chain, expired, seen, stage, target, attempt, answer>>
        /\ walk.phase = "walking"
    BY <1>5 DEF WalkBatch, world, checks
  <2>2. /\ walk' \in [phase : {"walking", "walked"}, full : {walk.full}, through : Nat,
                      broken : Nat, bad : {walk.bad}]
        /\ \A n \in Nat : StaysBad(n, walk.through) =>
             StaysBad(n, walk'.through) /\ (walk'.phase = "walked" => walk'.broken # 0)
        /\ tampers = 0 /\ walk.through <= issued =>
             /\ walk'.broken = 0 /\ walk'.through <= issued
             /\ walk'.phase = "walked" => walk'.through = issued
    BY <1>5, BatchEffect
  <2>3. /\ walk'.phase \in {"walking", "walked"} /\ walk'.full = walk.full
        /\ walk'.through \in Nat /\ walk'.broken \in Nat /\ walk'.bad = walk.bad
        /\ walk.full \in BOOLEAN /\ walk.bad \in Nat
    BY <2>2 DEF ChainTypeOK
  <2>4. walk' \in [phase : {"none", "walking", "walked", "ended"}, full : BOOLEAN,
                   through : Nat, broken : Nat, bad : Nat]
    BY <2>2, <2>3
  <2>5. ChainTypeOK' /\ ChainFacts' /\ NoFalseAlarm'
    BY <2>1, <2>4 DEF ChainTypeOK, ChainFacts, NoFalseAlarm
  <2>6. WalkFacts'
    BY <2>1, <2>2, <2>3, <1>2 DEF WalkFacts
  <2>7. CheckFacts'
    <3>1. tampers = 0 => walk.through <= issued
      BY DEF WalkFacts
    <3>2. tampers = 0 /\ walk'.phase = "walked" => walk'.through = issued
      BY <2>2, <3>1
    <3> QED
      BY <2>1, <2>3, <3>2 DEF CheckFacts, ChainTypeOK
  <2> QED
    BY <2>1, <2>5, <2>6, <2>7, <1>2
<1>6. CASE WalkKept
  <2>1. /\ UNCHANGED <<table, issued, tampers, troubles, stage, target, attempt, answer>>
        /\ walk.phase = "walked" /\ seen' = walk.bad
        /\ chain' = [known |-> TRUE, through |-> walk.through, broken |-> walk.broken]
        /\ expired' = (expired /\ ~walk.full)
        /\ walk' = [walk EXCEPT !.phase = "ended"]
    BY <1>6 DEF WalkKept, world, checks
  <2>2. walk \in [phase : {"none", "walking", "walked", "ended"}, full : BOOLEAN,
                  through : Nat, broken : Nat, bad : Nat]
    BY DEF ChainTypeOK
  <2>3. /\ walk'.phase = "ended" /\ walk'.full = walk.full /\ walk'.through = walk.through
        /\ walk'.broken = walk.broken /\ walk'.bad = walk.bad
        /\ walk' \in [phase : {"none", "walking", "walked", "ended"}, full : BOOLEAN,
                      through : Nat, broken : Nat, bad : Nat]
    BY <2>1, <2>2
  <2>4. /\ chain'.known /\ chain'.through = walk.through /\ chain'.broken = walk.broken
        /\ chain' \in [known : BOOLEAN, through : Nat, broken : Nat]
    BY <2>1, <2>2
  <2>5. expired' \in BOOLEAN
    BY <2>1, <2>2 DEF ChainTypeOK
  <2>6. ChainTypeOK' /\ NoFalseAlarm'
    BY <2>1, <2>2, <2>3, <2>4, <2>5 DEF ChainTypeOK, NoFalseAlarm
  <2>7. ChainFacts'
    BY <2>1, <2>4 DEF ChainFacts, WalkFacts, StaysBad
  <2>8. WalkFacts'
    BY <2>1, <2>2, <2>3, <2>4 DEF WalkFacts
  <2>9. CheckFacts'
    <3> SUFFICES ASSUME tampers = 0, NEW c \in Checks
                 PROVE  /\ stage[c] = "idle" => attempt[c] = 0
                        /\ target[c] <= issued
                        /\ attempt[c] >= 1 => walk.through >= target[c]
                        /\ attempt[c] >= 2 => walk.through >= target[c]
      BY <2>1, <2>3, <2>4 DEF CheckFacts
    <3> QED
      BY <2>1 DEF CheckFacts, ChainTypeOK
  <2> QED
    BY <2>1, <2>6, <2>7, <2>8, <2>9, <1>2
<1>7. CASE WalkOver
  <2>1. /\ UNCHANGED <<table, issued, tampers, troubles, chain, expired, seen, target, answer>>
        /\ walk.phase = "ended" /\ walk' = NoWalk
        /\ stage' = [c \in Checks |-> IF stage[c] = "waiting" THEN "looking" ELSE stage[c]]
        /\ attempt' = [c \in Checks |-> IF stage[c] = "waiting" THEN attempt[c] + 1 ELSE attempt[c]]
    BY <1>7 DEF WalkOver, world
  <2>2. ChainTypeOK'
    BY <2>1 DEF ChainTypeOK, NoWalk
  <2>3. ChainFacts' /\ WalkFacts' /\ NoFalseAlarm'
    BY <2>1 DEF ChainFacts, WalkFacts, NoFalseAlarm, NoWalk, ChainTypeOK
  <2>4. CheckFacts'
    <3> SUFFICES ASSUME tampers = 0, NEW c \in Checks
                 PROVE  /\ stage'[c] = "idle" => attempt'[c] = 0
                        /\ target[c] <= issued
                        /\ attempt'[c] >= 2 => chain.known /\ chain.through >= target[c]
      BY <2>1 DEF CheckFacts, NoWalk
    <3>1. /\ chain.known /\ chain.through >= walk.through
          /\ chain.through \in Nat /\ walk.through \in Nat
          /\ target[c] \in Nat /\ attempt[c] \in Nat
      BY <2>1 DEF WalkFacts, ChainTypeOK
    <3>2. /\ stage'[c] = "idle" => attempt'[c] = 0
          /\ target[c] <= issued
          /\ attempt[c] >= 1 => walk.through >= target[c]
          /\ attempt'[c] >= 2 => attempt[c] >= 1
      BY <2>1, <3>1 DEF CheckFacts
    <3> QED
      BY <3>1, <3>2
  <2> QED
    BY <2>1, <2>2, <2>3, <2>4, <1>2
<1>8. CASE WalkFails
  <2>1. /\ UNCHANGED <<table, issued, tampers, chain, expired, seen>>
        /\ troubles' = troubles + 1 /\ walk' = NoWalk
        /\ stage' = [c \in Checks |-> IF stage[c] = "waiting" THEN "idle" ELSE stage[c]]
        /\ target' = [c \in Checks |-> IF stage[c] = "waiting" THEN 0 ELSE target[c]]
        /\ attempt' = [c \in Checks |-> IF stage[c] = "waiting" THEN 0 ELSE attempt[c]]
        /\ answer' = [c \in Checks |-> IF stage[c] = "waiting" THEN "failed" ELSE answer[c]]
    BY <1>8 DEF WalkFails
  <2>2. ChainTypeOK'
    BY <2>1 DEF ChainTypeOK, NoWalk
  <2>3. ChainFacts' /\ WalkFacts' /\ NoFalseAlarm'
    BY <2>1 DEF ChainFacts, WalkFacts, NoFalseAlarm, NoWalk, ChainTypeOK
  <2>4. CheckFacts'
    BY <2>1 DEF CheckFacts, NoWalk, ChainTypeOK
  <2> QED
    BY <2>1, <2>2, <2>3, <2>4, <1>2
<1>9. ASSUME NEW c \in Checks, Answer(c)
      PROVE  ChainInv'
  <2>1. /\ UNCHANGED <<table, issued, tampers, troubles, chain, expired, seen>>
        /\ answer' = [answer EXCEPT ![c] = Verdict(target[c])]
        /\ stage' = [stage EXCEPT ![c] = "idle"]
        /\ target' = [target EXCEPT ![c] = 0] /\ attempt' = [attempt EXCEPT ![c] = 0]
        /\ walk' = walk \/ walk' = NewWalk(TRUE)
        /\ UNCHANGED <<world, chain, seen>>
        /\ Covers(target[c]) \/ GivesUp(c)
    BY <1>9 DEF Answer, world
  <2>2. /\ walk' \in [phase : {"none", "walking", "walked", "ended"}, full : BOOLEAN,
                      through : Nat, broken : Nat, bad : Nat]
        /\ WalkFacts'
        /\ walk' = walk \/ (tampers = 0 => walk'.phase = "walking")
    <3>1. CASE walk' = walk
      BY <3>1, <2>1, <1>2 DEF WalkFacts, ChainTypeOK
    <3>2. CASE walk' = NewWalk(TRUE)
      BY <3>2, <2>1, NewWalkFacts
    <3> QED
      BY <2>1, <3>1, <3>2
  <2>3. ChainTypeOK'
    BY <2>1, <2>2 DEF ChainTypeOK, Verdict
  <2>4. ChainFacts'
    BY <2>1 DEF ChainFacts
  <2>5. CheckFacts'
    BY <2>1, <2>2 DEF CheckFacts, ChainTypeOK
  <2>6. NoFalseAlarm'
    BY <2>1, AnswerIsValid DEF NoFalseAlarm, ChainTypeOK
  <2> QED
    BY <2>1, <2>2, <2>3, <2>4, <2>5, <2>6, <1>2
<1>10. ASSUME NEW c \in Checks, Join(c)
       PROVE  ChainInv'
  <2>1. /\ UNCHANGED <<table, issued, tampers, troubles, chain, expired, seen, target, attempt, answer>>
        /\ stage' = [stage EXCEPT ![c] = "waiting"]
        /\ walk' = walk \/ walk' = NewWalk(~chain.known \/ expired)
        /\ UNCHANGED <<world, chain, seen>>
    BY <1>10 DEF Join, world
  <2>2. /\ walk' \in [phase : {"none", "walking", "walked", "ended"}, full : BOOLEAN,
                      through : Nat, broken : Nat, bad : Nat]
        /\ WalkFacts'
        /\ walk' = walk \/ (tampers = 0 => walk'.phase = "walking")
    <3>1. CASE walk' = walk
      BY <3>1, <2>1, <1>2 DEF WalkFacts, ChainTypeOK
    <3>2. CASE walk' = NewWalk(~chain.known \/ expired)
      <4>1. (~chain.known \/ expired) \in BOOLEAN
        OBVIOUS
      <4> QED
        BY <3>2, <4>1, <2>1, NewWalkFacts
    <3> QED
      BY <2>1, <3>1, <3>2
  <2>3. ChainTypeOK'
    BY <2>1, <2>2 DEF ChainTypeOK
  <2>4. ChainFacts' /\ NoFalseAlarm'
    BY <2>1 DEF ChainFacts, NoFalseAlarm
  <2>5. CheckFacts'
    BY <2>1, <2>2 DEF CheckFacts, ChainTypeOK
  <2> QED
    BY <2>1, <2>2, <2>3, <2>4, <2>5, <1>2
<1>11. ASSUME NEW c \in Checks, NEW r \in table, Check(c, r)
       PROVE  ChainInv'
  <2>1. /\ UNCHANGED <<table, issued, tampers, troubles, chain, expired, walk, seen, attempt>>
        /\ target' = [target EXCEPT ![c] = IF r.good THEN r.seq ELSE 0]
        /\ stage' = [stage EXCEPT ![c] = IF r.good THEN "looking" ELSE "idle"]
        /\ answer' = [answer EXCEPT ![c] = IF r.good THEN "none" ELSE "invalid"]
        /\ stage[c] = "idle"
    BY <1>11 DEF Check, world
  <2>2. /\ issued \in Nat /\ r.seq \in 1..issued /\ r.good \in BOOLEAN
        /\ tampers = 0 => r.good
    <3>1. issued \in Nat /\ r.seq \in 1..issued /\ r.good \in BOOLEAN
      BY DEF ChainTypeOK
    <3> QED
      BY <3>1 DEF TableFacts
  <2>3. ChainTypeOK'
    BY <2>1, <2>2 DEF ChainTypeOK
  <2>4. ChainFacts'
    BY <2>1 DEF ChainFacts
  <2>5. WalkFacts'
    BY <2>1, <1>2 DEF WalkFacts
  <2>6. CheckFacts'
    BY <2>1, <2>2 DEF CheckFacts, ChainTypeOK
  <2>7. NoFalseAlarm'
    BY <2>1, <2>2 DEF NoFalseAlarm, ChainTypeOK
  <2> QED
    BY <2>1, <2>3, <2>4, <2>5, <2>6, <2>7, <1>2
<1>12. CASE UNCHANGED chainVars
  <2>1. UNCHANGED <<table, issued, tampers, troubles, chain, expired, walk, seen, stage, target, attempt, answer>>
    BY <1>12 DEF chainVars
  <2> QED
    BY <2>1, <1>2 DEF ChainTypeOK, ChainFacts, WalkFacts, CheckFacts, NoFalseAlarm
<1> QED
  BY <1>1, <1>3, <1>4, <1>5, <1>6, <1>7, <1>8, <1>9, <1>10, <1>11, <1>12 DEF ChainNext, Walk

-----------------------------------------------------------------------------
(* The theorems *)

(* ChainInv is inductive. *)
THEOREM ChainInvariant == ChainSpec => []ChainInv
<1>1. ChainInit => ChainInv
  BY InitChain
<1>2. ChainInv /\ [ChainNext]_chainVars => ChainInv'
  BY NextChain
<1> QED
  BY <1>1, <1>2, PTL DEF ChainSpec

(* The state of the process, and the table, have their types. *)
THEOREM ChainTypes == ChainSpec => []ChainTypeOK
<1>1. ChainInv => ChainTypeOK
  BY DEF ChainInv
<1> QED
  BY <1>1, ChainInvariant, PTL

(* As long as nobody edits the table, no check answers that a certificate in it is
   not genuine: certificates may be issued while a walk runs, checks may join a
   walk that began before their certificate was, and the public check still never
   cries wolf. *)
THEOREM NoFalseAlarms == ChainSpec => []NoFalseAlarm
<1>1. ChainInv => NoFalseAlarm
  BY DEF ChainInv
<1> QED
  BY <1>1, ChainInvariant, PTL

(* Whatever is edited, no check vouches for a certificate at or after a row that was
   bad when the last walk from the first certificate began. *)
THEOREM NothingBadVouchedFor == ChainSpec => VouchedFor
<1> DEFINE Vouched == \A c \in Checks : answer'[c] = "valid" /\ answer[c] # "valid" =>
                        seen = 0 \/ target[c] < seen
<1>1. ASSUME ChainInv, [ChainNext]_chainVars
      PROVE  [Vouched]_chainVars
  <2> SUFFICES ASSUME NEW c \in Checks, answer'[c] = "valid", answer[c] # "valid"
               PROVE  seen = 0 \/ target[c] < seen
    OBVIOUS
  <2>1. answer \in [Checks -> {"none", "valid", "invalid", "failed"}]
    BY <1>1 DEF ChainInv, ChainTypeOK
  <2>2. ASSUME NEW d \in Checks, NEW r \in table, Check(d, r)
        PROVE  FALSE
    BY <2>1, <2>2 DEF Check
  <2>3. ASSUME NEW d \in Checks, Answer(d)
        PROVE  seen = 0 \/ target[c] < seen
    <3>1. answer' = [answer EXCEPT ![d] = Verdict(target[d])]
      BY <2>3 DEF Answer
    <3>2. d = c /\ Verdict(target[c]) = "valid"
      BY <2>1, <3>1
    <3>3. ~(target[c] > chain.through)
      BY <3>2 DEF Verdict
    <3>4. /\ target[c] \in Nat /\ chain.through \in Nat /\ seen \in Nat
          /\ seen # 0 => chain.through < seen
      BY <1>1 DEF ChainInv, ChainTypeOK, ChainFacts
    <3> QED
      BY <3>3, <3>4
  <2>4. ASSUME WalkFails \/ Restart
        PROVE  FALSE
    BY <2>1, <2>4 DEF WalkFails, Restart
  <2>5. ASSUME \/ UNCHANGED chainVars \/ Issue \/ Expire \/ Walk
               \/ (\E r \in table : Tamper(r)) \/ (\E d \in Checks : Join(d))
        PROVE  FALSE
    BY <2>5 DEF chainVars, Issue, Expire, Walk, WalkBatch, WalkKept, WalkOver, Tamper, Join, checks
  <2> QED
    BY <1>1, <2>2, <2>3, <2>4, <2>5 DEF ChainNext
<1>2. ChainInv /\ [ChainNext]_chainVars => [Vouched]_chainVars
  BY <1>1
<1> QED
  BY <1>2, ChainInvariant, PTL DEF ChainSpec, VouchedFor
=============================================================================
