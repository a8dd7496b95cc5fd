------------------------- MODULE OfflineUploadProofs -------------------------
(***************************************************************************)
(* What the phone lets go of has landed, and an audit is recorded once, for*)
(* any number of writes, uploads, retries and acts of other people:        *)
(* UploadInv is inductive, and gives TypeOK, AuditOnce and CompletedLanded.*)
(* QuietInv, inductive on top of it, says of every state in which nobody   *)
(* else had a hand and no upload outlived its connection what the waiting  *)
(* writes will leave of each device; once none waits, QuietAgrees.         *)
(***************************************************************************)
EXTENDS OfflineUpload, SequenceTheorems, TLAPS

\* A step takes nothing the server has, except with the device it belongs to.
Keeps ==
  /\ \A i \in DOMAIN writes : i \in DOMAIN writes' /\ writes'[i] = writes[i]
  /\ deleted \subseteq deleted' /\ refused \subseteq refused'
  /\ \A d \in Devices : There(d) => There(d)' \/ d \in deleted'
  /\ \A i \in rows : i \in rows' \/ writes[i].device \in deleted'

\* The half of QueueFacts that is about what the server has.
RowFacts ==
  /\ \A i \in rows : writes[i].op \in Ops \ OnDevice /\ There(writes[i].device)
  /\ \A i \in refused : writes[i].op # "create"

(* A queued write has the fields of a write. *)
LEMMA WriteFields ==
  ASSUME TypeOK, NEW i \in DOMAIN writes
  PROVE  /\ writes[i] \in Write /\ i \in 1..Len(writes) /\ i \in Ids
         /\ writes[i].op \in Ops /\ writes[i].device \in Devices
         /\ writes[i].lot \in Homes /\ writes[i].of \in Ids \cup {0}
<1>1. Len(writes) \in Nat /\ DOMAIN writes = 1..Len(writes) /\ MaxWrites \in Nat
  BY LenProperties, UploadAssumption DEF TypeOK
<1>2. writes[i] \in Write
  BY <1>1, ElementOfSeq DEF TypeOK
<1> QED
  BY <1>1, <1>2 DEF Write, Ids, TypeOK

(* What has landed stays so. *)
LEMMA KeepsLanded ==
  ASSUME TypeOK, Keeps, NEW i \in DOMAIN writes, Landed(i)
  PROVE  Landed(i)'
BY WriteFields DEF Keeps, Landed

(* What is rooted stays so, among more of the writes too. *)
LEMMA KeepsRooted ==
  ASSUME TypeOK, Keeps, NEW d \in Devices, NEW m \in Int, NEW n \in Int, m <= n, Rooted(d, m)
  PROVE  Rooted(d, n)'
<1>1. CASE There(d) \/ d \in deleted
  BY <1>1 DEF Keeps, Rooted
<1>2. CASE \E j \in DOMAIN writes : j <= m /\ writes[j].op = "create" /\ writes[j].device = d
  <2>1. PICK j \in DOMAIN writes : j <= m /\ writes[j].op = "create" /\ writes[j].device = d
    BY <1>2
  <2>2. j \in Int
    BY WriteFields DEF Ids
  <2>3. j \in DOMAIN writes' /\ j <= n /\ writes'[j] = writes[j]
    BY <2>1, <2>2 DEF Keeps
  <2> QED
    BY <2>1, <2>3 DEF Rooted
<1> QED
  BY <1>1, <1>2 DEF Rooted

(* A step of the server or of other people leaves the phone's side of it true. *)
LEMMA Carried ==
  ASSUME UploadInv, TypeOK', RowFacts', Keeps, UNCHANGED <<writes, next, seen>>
  PROVE  CompletedLanded' /\ QueueFacts'
<1> USE DEF UploadInv
<1>1. Len(writes) \in Nat /\ DOMAIN writes = 1..Len(writes) /\ next \in 1..(Len(writes) + 1)
  BY LenProperties DEF TypeOK
<1>2. CompletedLanded'
  <2>1. \A i \in 1..(next - 1) : i \in DOMAIN writes /\ Landed(i)
    BY <1>1 DEF CompletedLanded
  <2> QED
    BY <2>1, KeepsLanded DEF CompletedLanded
<1>3. ASSUME NEW d \in Devices, seen[d] # Absent
      PROVE  Rooted(d, Len(writes))'
  <2>0. Len(writes) \in Int
    BY <1>1
  <2>1. PICK n \in Int : n = Len(writes)
    BY <2>0
  <2>2. Rooted(d, n)'
    BY <1>3, <2>1, KeepsRooted DEF QueueFacts
  <2> QED
    BY <2>1, <2>2 DEF Rooted
<1>4. ASSUME NEW i \in DOMAIN writes, writes[i].op # "create"
      PROVE  Rooted(writes[i].device, i - 1)'
  <2>1. PICK d \in Devices : d = writes[i].device
    BY WriteFields
  <2>2. i - 1 \in Int /\ Rooted(d, i - 1)
    BY <1>1, <1>4, <2>1 DEF QueueFacts
  <2>3. Rooted(d, i - 1)'
    BY <2>2, KeepsRooted
  <2> QED
    BY <2>1, <2>3 DEF Rooted
<1>5. QueueFacts'
  BY <1>3, <1>4 DEF QueueFacts, RowFacts
<1> QED
  BY <1>2, <1>5

(* A step of one upload, of write i, keeps the facts about uploads when it has landed
   the write it answers 200 for. *)
LEMMA Onward ==
  ASSUME UploadInv, Keeps, UNCHANGED <<writes, next, waits>>,
         NEW r \in Requests, NEW i, req[r].write = i, req'[r].write = i,
         req[r].step # "idle", req'[r].step # "idle", req'[r].step = "ok" => Landed(i)',
         \A s \in Requests \ {r} : req'[s] = req[s]
  PROVE  FlightFacts'
<1> USE DEF UploadInv
<1>1. ASSUME NEW s \in Requests
      PROVE  /\ req'[s].step # "idle" => req'[s].write \in DOMAIN writes' /\ req'[s].write <= next'
             /\ req'[s].step = "ok" => Landed(req[s].write)'
             /\ waits' = s => req'[s].step # "idle" /\ req'[s].write = next'
  <2>1. CASE s = r
    BY <2>1 DEF FlightFacts, Landed
  <2>2. CASE s # r
    <3>1. PICK j : j = req[s].write
      OBVIOUS
    <3>2. req'[s] = req[s]
      BY <2>2
    <3>3. req[s].step = "ok" => Landed(j)'
      BY <3>1, KeepsLanded DEF FlightFacts
    <3> QED
      BY <3>1, <3>2, <3>3 DEF FlightFacts, Landed
  <2> QED
    BY <2>1, <2>2
<1> QED
  BY <1>1 DEF FlightFacts, Landed

(* Nor does a step that starts no upload, and none of whose uploads moves on. *)
LEMMA Still ==
  ASSUME UploadInv, Keeps, next' = next, waits' \in {waits, Nobody},
         \A s \in Requests : req'[s] \in {req[s], Idle}, waits' = Nobody \/ req' = req
  PROVE  FlightFacts'
<1> USE DEF UploadInv
<1>1. ASSUME NEW s \in Requests
      PROVE  /\ req'[s].step # "idle" => req'[s].write \in DOMAIN writes' /\ req'[s].write <= next'
             /\ req'[s].step = "ok" => Landed(req[s].write)'
             /\ waits' = s => req'[s].step # "idle" /\ req'[s].write = next'
  <2>1. CASE req'[s] = Idle
    BY <2>1, UploadAssumption DEF Idle, FlightFacts
  <2>2. CASE req'[s] = req[s]
    <3>1. PICK j : j = req[s].write
      OBVIOUS
    <3>3. req[s].step = "ok" => Landed(j)'
      BY <3>1, KeepsLanded DEF FlightFacts
    <3> QED
      BY <2>2, <3>1, <3>3, UploadAssumption DEF FlightFacts, Landed, Keeps
  <2> QED
    BY <2>1, <2>2
<1> QED
  BY <1>1 DEF FlightFacts, Landed

-----------------------------------------------------------------------------
(* The phone *)

(* What Queue does to the queue. *)
LEMMA QueueAppends ==
  ASSUME TypeOK, NEW ws \in Seq(Write), Queue(ws)
  PROVE  /\ writes' \in Seq(Write) /\ Len(writes') = Len(writes) + Len(ws)
         /\ Len(writes) \in Nat /\ Len(ws) \in Nat /\ Len(writes') <= MaxWrites
         /\ DOMAIN writes = 1..Len(writes) /\ DOMAIN writes' = 1..Len(writes')
         /\ \A i \in DOMAIN writes : i \in DOMAIN writes' /\ writes'[i] = writes[i]
         /\ \A k \in 1..Len(ws) : writes'[Len(writes) + k] = ws[k]
         /\ \A i \in DOMAIN writes' \ DOMAIN writes :
              i - Len(writes) \in 1..Len(ws) /\ writes'[i] = ws[i - Len(writes)]
<1>1. writes \in Seq(Write) /\ writes' = writes \o ws /\ Len(writes) + Len(ws) <= MaxWrites
  BY DEF TypeOK, Queue
<1>2. Len(writes) \in Nat /\ DOMAIN writes = 1..Len(writes)
  BY <1>1, LenProperties
<1>3. Len(ws) \in Nat
  BY LenProperties
<1>4. /\ writes' \in Seq(Write) /\ Len(writes') = Len(writes) + Len(ws)
      /\ \A i \in 1..(Len(writes) + Len(ws)) :
           writes'[i] = IF i <= Len(writes) THEN writes[i] ELSE ws[i - Len(writes)]
  BY <1>1, ConcatProperties
<1>5. DOMAIN writes' = 1..Len(writes')
  BY <1>4, LenProperties
<1> QED
  BY <1>1, <1>2, <1>3, <1>4, <1>5

(* A form that queues ws on the phone, and only puts what it knows of where it is rooted. *)
LEMMA FormKeeps ==
  ASSUME UploadInv, NEW ws \in Seq(Write), Queue(ws), seen' \in [Devices -> Place],
         \A d \in Devices : seen'[d] # Absent =>
           seen[d] # Absent \/ (ws[1].op = "create" /\ ws[1].device = d /\ Len(ws) >= 1),
         \A k \in 1..Len(ws) : ws[k].op # "create" =>
           \/ seen[ws[k].device] # Absent
           \/ k > 1 /\ ws[1].op = "create" /\ ws[1].device = ws[k].device
  PROVE  UploadInv'
<1> USE DEF UploadInv
<1> DEFINE L == Len(writes)
<1>1. /\ writes' \in Seq(Write) /\ Len(writes') = Len(writes) + Len(ws)
      /\ Len(writes) \in Nat /\ Len(ws) \in Nat /\ Len(writes') <= MaxWrites
      /\ DOMAIN writes = 1..Len(writes) /\ DOMAIN writes' = 1..Len(writes')
      /\ \A i \in DOMAIN writes : i \in DOMAIN writes' /\ writes'[i] = writes[i]
      /\ \A k \in 1..Len(ws) : writes'[Len(writes) + k] = ws[k]
      /\ \A i \in DOMAIN writes' \ DOMAIN writes :
           i - Len(writes) \in 1..Len(ws) /\ writes'[i] = ws[i - Len(writes)]
  BY QueueAppends
<1>2. UNCHANGED <<next, listed, waits, req, stock, outside, crossed, world, troubles>>
  BY DEF Queue
<1>3. Keeps
  BY <1>1, <1>2 DEF Keeps, There, outside, stock
<1>4. TypeOK'
  <2>1. next' \in 1..(Len(writes') + 1)
    BY <1>1, <1>2 DEF TypeOK
  <2>2. (rows \cup refused)' \subseteq DOMAIN writes'
    BY <1>1, <1>2 DEF TypeOK, stock
  <2> QED
    BY <1>1, <1>2, <2>1, <2>2 DEF TypeOK, stock, outside
<1>5. AuditOnce'
  <2>1. rows \subseteq DOMAIN writes
    BY DEF TypeOK
  <2> QED
    BY <1>1, <1>2, <2>1 DEF AuditOnce, stock
<1>6. CompletedLanded'
  <2>1. \A i \in 1..(next - 1) : i \in DOMAIN writes /\ Landed(i)
    BY <1>1 DEF CompletedLanded, TypeOK
  <2> QED
    BY <1>2, <1>3, <2>1, KeepsLanded DEF CompletedLanded
<1>7. ASSUME NEW d \in Devices, NEW n \in Int, n >= L, seen[d] # Absent
      PROVE  Rooted(d, n)'
  <2>1. L \in Int
    BY <1>1
  <2>2. PICK m \in Int : m = Len(writes)
    BY <2>1
  <2>3. Rooted(d, m)
    BY <1>7, <2>2 DEF QueueFacts
  <2> QED
    BY <1>7, <1>3, <2>2, <2>3, KeepsRooted
<1>8. ASSUME NEW n \in Int, n > L, NEW d, ws[1].op = "create", ws[1].device = d, Len(ws) >= 1
      PROVE  Rooted(d, n)'
  <2>1. L + 1 \in DOMAIN writes' /\ L + 1 <= n /\ writes'[L + 1] = ws[1]
    BY <1>1, <1>8
  <2> QED
    BY <2>1, <1>8 DEF Rooted
<1>9. ASSUME NEW d \in Devices, seen'[d] # Absent
      PROVE  Rooted(d, Len(writes))'
  <2>0. Len(writes') \in Int
    BY <1>1
  <2>1. PICK n \in Int : n = Len(writes')
    BY <2>0
  <2>2. Rooted(d, n)'
    <3>1. CASE seen[d] # Absent
      BY <3>1, <2>1, <1>1, <1>7
    <3>2. CASE ws[1].op = "create" /\ ws[1].device = d /\ Len(ws) >= 1
      BY <3>2, <2>1, <1>1, <1>8
    <3> QED
      BY <3>1, <3>2, <1>9
  <2> QED
    BY <2>1, <2>2 DEF Rooted
<1>10. ASSUME NEW i \in DOMAIN writes', writes'[i].op # "create"
       PROVE  Rooted(writes[i].device, i - 1)'
  <2>1. CASE i \in DOMAIN writes
    <3>1. PICK d \in Devices : d = writes[i].device
      BY <2>1, WriteFields
    <3>2. i - 1 \in Int /\ Rooted(d, i - 1)
      BY <1>1, <1>10, <2>1, <3>1 DEF QueueFacts
    <3>3. Rooted(d, i - 1)'
      BY <1>3, <3>2, KeepsRooted
    <3> QED
      BY <1>1, <2>1, <3>1, <3>3 DEF Rooted
  <2>2. CASE i \notin DOMAIN writes
    <3>0. i \in Int /\ i - L \in 1..Len(ws) /\ writes'[i] = ws[i - L] /\ i > L
      BY <1>1, <2>2
    <3>1. i - 1 \in Int /\ i - 1 >= L
      BY <3>0, <1>1
    <3>2. \E k \in 1..Len(ws) : k = i - L /\ writes'[i] = ws[k]
      BY <3>0
    <3>3. PICK k \in 1..Len(ws) : k = i - L /\ writes'[i] = ws[k]
      BY <3>2
    <3>4. ws[k] \in Write
      BY ElementOfSeq
    <3>5. ws[k].device \in Devices
      BY <3>4 DEF Write
    <3>6. PICK d \in Devices : d = ws[k].device
      BY <3>5
    <3>7. Rooted(d, i - 1)'
      <4>1. CASE seen[d] # Absent
        BY <4>1, <3>1, <1>7
      <4>2. CASE k > 1 /\ ws[1].op = "create" /\ ws[1].device = d
        <5>1. i - 1 > L /\ Len(ws) >= 1
          BY <4>2, <3>0, <3>3, <1>1
        <5> QED
          BY <4>2, <3>1, <5>1, <1>8
      <4> QED
        BY <4>1, <4>2, <3>3, <3>6, <1>10
    <3> QED
      BY <3>3, <3>6, <3>7 DEF Rooted
  <2> QED
    BY <2>1, <2>2
<1>11. QueueFacts'
  <2>1. rows \cup refused \subseteq DOMAIN writes
    BY DEF TypeOK
  <2>2. RowFacts'
    BY <1>1, <1>2, <2>1 DEF QueueFacts, RowFacts, There, stock
  <2> QED
    BY <2>2, <1>9, <1>10 DEF QueueFacts, RowFacts
<1>12. FlightFacts'
  BY <1>2, <1>3, Still
<1> QED
  BY <1>4, <1>5, <1>6, <1>11, <1>12

(* A write put in the queue has the fields of a write. *)
LEMMA PutIsWrite ==
  ASSUME NEW op \in Ops, NEW d \in Devices, NEW l \in Homes, NEW claim \in BOOLEAN, NEW n \in Ids
  PROVE  /\ Put(op, d, l, claim) \in Write
         /\ Put(op, d, l, claim).op = op /\ Put(op, d, l, claim).device = d
         /\ [Put(op, d, l, claim) EXCEPT !.of = n] \in Write
         /\ [Put(op, d, l, claim) EXCEPT !.of = n].op = op
         /\ [Put(op, d, l, claim) EXCEPT !.of = n].device = d
BY DEF Put, Write

(* The three forms of the phone. *)
LEMMA ScansStep == ASSUME UploadInv, Scans PROVE UploadInv'
<1> USE DEF UploadInv
<1>1. seen \in [Devices -> Place] /\ listed \subseteq Lots
  BY DEF TypeOK
<1>2. ASSUME NEW d \in Devices, NEW l \in Lots, ReceiveNew(d, l)
      PROVE  UploadInv'
  <2> DEFINE a == Put("create", d, l, FALSE)
             b == Put("scan", d, NoLot, FALSE)
  <2>1. a \in Write /\ b \in Write /\ a.op = "create" /\ a.device = d /\ b.device = d
    BY PutIsWrite, UploadAssumption DEF Ops, Homes, Put, Write
  <2>2. seen' \in [Devices -> Place] /\ \A e \in Devices : seen'[e] # Absent => seen[e] # Absent \/ e = d
    BY <1>1, <1>2 DEF ReceiveNew, Place, Places, Homes
  <2>3. Queue(<<a, b>>)
    BY <1>2 DEF ReceiveNew
  <2> HIDE DEF a, b
  <2>4. <<a, b>> \in Seq(Write) /\ Len(<<a, b>>) = 2 /\ <<a, b>>[1] = a /\ <<a, b>>[2] = b
    BY <2>1
  <2>5. PICK ws \in Seq(Write) : ws = <<a, b>>
    BY <2>4
  <2>6. \A k \in 1..Len(ws) : ws[k].op # "create" =>
          k > 1 /\ ws[1].op = "create" /\ ws[1].device = ws[k].device
    BY <2>1, <2>4, <2>5
  <2>7. Queue(ws) /\ Len(ws) >= 1 /\ ws[1].op = "create" /\ ws[1].device = d
    BY <2>1, <2>3, <2>4, <2>5
  <2> QED
    BY <2>2, <2>6, <2>7, FormKeeps
<1>3. ASSUME NEW d \in Devices, NEW l \in Lots \cup {NoLot}, ScanKnown(d, l)
      PROVE  UploadInv'
  <2> DEFINE a == Put("scan", d, NoLot, FALSE)
             b == Put("move", d, l, FALSE)
  <2>1. a \in Write /\ b \in Write /\ a.device = d /\ b.device = d
    BY PutIsWrite, UploadAssumption DEF Ops, Homes, Put, Write
  <2>2. /\ seen[d] # Absent /\ seen' \in [Devices -> Place]
        /\ \A e \in Devices : seen'[e] # Absent => seen[e] # Absent
    BY <1>1, <1>3 DEF ScanKnown, Place, Places, Homes
  <2>3. Queue(<<a>>) \/ Queue(<<a, b>>)
    BY <1>3 DEF ScanKnown
  <2> HIDE DEF a, b
  <2>4. /\ <<a>> \in Seq(Write) /\ \A k \in 1..Len(<<a>>) : <<a>>[k].device = d
        /\ <<a, b>> \in Seq(Write) /\ \A k \in 1..Len(<<a, b>>) : <<a, b>>[k].device = d
    BY <2>1
  <2>5. PICK ws \in Seq(Write) : Queue(ws) /\ \A k \in 1..Len(ws) : ws[k].device = d
    BY <2>3, <2>4
  <2> QED
    BY <2>2, <2>5, FormKeeps
<1>4. ASSUME NEW d \in Devices, NEW claim \in BOOLEAN, RecordAudit(d, claim)
      PROVE  UploadInv'
  <2>1. PICK n : n = Len(writes) + 1
    OBVIOUS
  <2> DEFINE a == Put("audit", d, NoLot, claim)
             b == [Put("grade", d, NoLot, claim) EXCEPT !.of = n]
  <2>2. Queue(<<a, b>>) /\ seen' = [seen EXCEPT ![d].status = n] /\ seen[d] # Absent
    BY <1>4, <2>1 DEF RecordAudit
  <2>3. n \in Ids
    <3>1. Len(writes) \in Nat /\ MaxWrites \in Nat
      BY UploadAssumption, LenProperties DEF TypeOK
    <3>2. Len(<<a, b>>) = 2
      BY DEF Put
    <3>3. Len(writes) + 2 <= MaxWrites
      BY <2>2, <3>2 DEF Queue
    <3> QED
      BY <3>1, <3>3, <2>1 DEF Ids
  <2>4. a \in Write /\ b \in Write /\ a.device = d /\ b.device = d
    BY <2>3, PutIsWrite, UploadAssumption DEF Ops, Homes, Put, Write
  <2>5. seen' \in [Devices -> Place] /\ \A e \in Devices : seen'[e] # Absent => seen[e] # Absent
    BY <1>1, <2>2, <2>3 DEF Place, Places, Homes
  <2> HIDE DEF a, b
  <2>6. <<a, b>> \in Seq(Write) /\ \A k \in 1..Len(<<a, b>>) : <<a, b>>[k].device = d
    BY <2>4
  <2>7. PICK ws \in Seq(Write) : Queue(ws) /\ \A k \in 1..Len(ws) : ws[k].device = d
    BY <2>2, <2>6
  <2> QED
    BY <2>2, <2>5, <2>7, FormKeeps
<1> QED
  BY <1>2, <1>3, <1>4 DEF Scans

(* The phone takes the server's state. *)
LEMMA SyncDownStep == ASSUME UploadInv, SyncDown PROVE UploadInv'
<1> USE DEF UploadInv
<1>1. /\ UNCHANGED <<writes, next, waits, req, stock, outside, crossed, world, troubles>>
      /\ \A d \in Devices : seen'[d] \in {device[d], Absent} /\ (seen'[d] # Absent => device[d].lot \in Lots)
      /\ listed' \subseteq Lots
  BY DEF SyncDown
<1>2. TypeOK'
  <2>1. seen' = [d \in Devices |-> seen'[d]]
    BY DEF SyncDown
  <2>2. device \in [Devices -> Place] /\ Absent \in Place
    BY DEF TypeOK, Absent, Place, Places
  <2>3. seen' \in [Devices -> Place]
    BY <1>1, <2>1, <2>2
  <2> QED
    BY <1>1, <2>2, <2>3 DEF TypeOK, stock, outside
<1>3. Keeps
  BY <1>1 DEF Keeps, There, stock, outside
<1>4. AuditOnce' /\ CompletedLanded'
  BY <1>1 DEF AuditOnce, CompletedLanded, Landed, There, stock, outside
<1>5. QueueFacts'
  <2>1. \A d \in Devices : seen'[d] # Absent => There(d)
    BY <1>1, UploadAssumption DEF There
  <2> QED
    BY <1>1, <2>1 DEF QueueFacts, Rooted, There, stock, outside
<1>6. FlightFacts'
  BY <1>1, <1>3, Still
<1> QED
  BY <1>2, <1>4, <1>5, <1>6

(* The phone sends the next write. *)
LEMMA UploadDataStep ==
  ASSUME UploadInv, NEW r \in Requests, UploadData(r)
  PROVE  UploadInv'
<1> USE DEF UploadInv
<1>1. UNCHANGED <<writes, next, seen, listed, stock, outside, crossed, world, troubles>>
  BY DEF UploadData
<1>2. Len(writes) \in Nat /\ DOMAIN writes = 1..Len(writes) /\ next \in 1..(Len(writes) + 1)
  BY LenProperties DEF TypeOK
<1>3. next \in DOMAIN writes /\ next \in Ids
  BY <1>2, UploadAssumption DEF UploadData, Waiting, Ids, TypeOK
<1>4. /\ req \in [Requests -> Flight] /\ waits' = r
      /\ req' = [req EXCEPT ![r] = [Idle EXCEPT !.write = next, !.step = "check"]]
  BY DEF UploadData, TypeOK
<1>5. /\ req'[r].write = next /\ req'[r].step = "check" /\ req' \in [Requests -> Flight]
      /\ \A s \in Requests \ {r} : req'[s] = req[s]
  BY <1>3, <1>4 DEF Idle, Flight, Homes
<1>6. TypeOK'
  BY <1>1, <1>4, <1>5 DEF TypeOK, stock, outside
<1>7. Keeps
  BY <1>1 DEF Keeps, There, stock, outside
<1>8. AuditOnce' /\ CompletedLanded' /\ QueueFacts'
  BY <1>1 DEF AuditOnce, CompletedLanded, QueueFacts, Rooted, Landed, There, stock, outside
<1>9. FlightFacts'
  <2>1. \A s \in Requests : waits # s
    BY UploadAssumption DEF UploadData
  <2>2. ASSUME NEW s \in Requests
        PROVE  /\ req'[s].step # "idle" => req'[s].write \in DOMAIN writes' /\ req'[s].write <= next'
               /\ req'[s].step = "ok" => Landed(req[s].write)'
               /\ waits' = s => req'[s].step # "idle" /\ req'[s].write = next'
    <3>1. CASE s = r
      BY <3>1, <1>1, <1>2, <1>3, <1>4, <1>5
    <3>2. CASE s # r
      BY <3>2, <1>1, <1>4, <1>5 DEF FlightFacts, Landed, There, stock, outside
    <3> QED
      BY <3>1, <3>2
  <2> QED
    BY <2>2 DEF FlightFacts, Landed
<1> QED
  BY <1>6, <1>8, <1>9

(* The answer is heard: only an answer of 200 to the upload the phone waits for, which
   is one of its next write, lets go of it. *)
LEMMA AnswerStep ==
  ASSUME UploadInv, NEW r \in Requests, Answer(r)
  PROVE  UploadInv'
<1> USE DEF UploadInv
<1>1. /\ UNCHANGED <<writes, seen, listed, stock, outside, crossed, world, troubles>>
      /\ req' = [req EXCEPT ![r] = Idle] /\ req \in [Requests -> Flight]
  BY DEF Answer, TypeOK
<1>2. Len(writes) \in Nat /\ DOMAIN writes = 1..Len(writes) /\ next \in 1..(Len(writes) + 1)
  BY LenProperties DEF TypeOK
<1>3. req'[r] = Idle /\ \A s \in Requests \ {r} : req'[s] = req[s]
  BY <1>1
<1>4. Idle \in Flight /\ req' \in [Requests -> Flight]
  BY <1>1 DEF Idle, Flight, Homes
<1>5. CASE Completes(r)
  <2>1. /\ waits = r /\ req[r].write = next /\ next \in DOMAIN writes
        /\ next' = next + 1 /\ waits' = Nobody
    BY <1>5 DEF Answer, Completes, FlightFacts
  <2>2. PICK i \in DOMAIN writes : i = next /\ Landed(i)
    BY <1>5, <2>1 DEF Completes, FlightFacts, Landed
  <2>3. TypeOK'
    <3>1. next' \in 1..(Len(writes) + 1)
      BY <1>2, <2>1
    <3> QED
      BY <1>1, <1>4, <2>1, <3>1 DEF TypeOK, stock, outside
  <2>4. CompletedLanded'
    <3>1. \A j \in 1..(next' - 1) : j = i \/ j \in 1..(next - 1)
      BY <1>2, <2>1, <2>2
    <3>2. \A j \in 1..(next' - 1) : Landed(j)
      BY <2>2, <3>1 DEF CompletedLanded
    <3> QED
      BY <1>1, <3>2 DEF CompletedLanded, Landed, There, stock, outside
  <2>5. AuditOnce' /\ QueueFacts'
    BY <1>1 DEF AuditOnce, QueueFacts, Rooted, There, stock, outside
  <2>6. FlightFacts'
    <3>1. ASSUME NEW s \in Requests
          PROVE  /\ req'[s].step # "idle" => req'[s].write \in DOMAIN writes' /\ req'[s].write <= next'
                 /\ req'[s].step = "ok" => Landed(req[s].write)'
                 /\ waits' # s
      <4>1. CASE s = r
        BY <4>1, <1>3, <2>1, UploadAssumption DEF Idle
      <4>2. CASE s # r
        <5>1. req'[s] = req[s] /\ (req[s].step # "idle" => req[s].write \in DOMAIN writes /\ req[s].write <= next)
          BY <4>2, <1>3 DEF FlightFacts
        <5>2. req[s].step # "idle" => req[s].write \in Int /\ req[s].write <= next'
          BY <1>2, <2>1, <5>1
        <5>3. req[s].step = "ok" => Landed(req[s].write)'
          BY <1>1, <5>1 DEF FlightFacts, Landed, There, stock, outside
        <5> QED
          BY <1>1, <2>1, <5>1, <5>2, <5>3, UploadAssumption
      <4> QED
        BY <4>1, <4>2
    <3> QED
      BY <3>1 DEF FlightFacts, Landed
  <2> QED
    BY <2>3, <2>4, <2>5, <2>6
<1>6. CASE ~Completes(r)
  <2>1. next' = next /\ waits' = IF waits = r THEN Nobody ELSE waits
    BY <1>6 DEF Answer
  <2>2. TypeOK'
    BY <1>1, <1>4, <2>1 DEF TypeOK, stock, outside
  <2>3. AuditOnce' /\ CompletedLanded' /\ QueueFacts'
    BY <1>1, <2>1 DEF AuditOnce, CompletedLanded, QueueFacts, Rooted, Landed, There, stock, outside
  <2>4. FlightFacts'
    <3>1. ASSUME NEW s \in Requests
          PROVE  /\ req'[s].step # "idle" => req'[s].write \in DOMAIN writes' /\ req'[s].write <= next'
                 /\ req'[s].step = "ok" => Landed(req[s].write)'
                 /\ waits' = s => req'[s].step # "idle" /\ req'[s].write = next'
      <4>1. CASE s = r
        BY <4>1, <1>3, <2>1, UploadAssumption DEF Idle
      <4>2. CASE s # r
        BY <4>2, <1>1, <1>3, <2>1, UploadAssumption DEF FlightFacts, Landed, There, stock, outside
      <4> QED
        BY <4>1, <4>2
    <3> QED
      BY <3>1 DEF FlightFacts, Landed
  <2> QED
    BY <2>2, <2>3, <2>4
<1> QED
  BY <1>5, <1>6

-----------------------------------------------------------------------------
(* The server *)

(* What the steps of an upload of write i have in common. *)
LEMMA UploadOf ==
  ASSUME UploadInv, NEW r \in Requests, req[r].step # "idle"
  PROVE  /\ req[r] \in Flight /\ req[r].write \in DOMAIN writes /\ req[r].write \in Ids
         /\ req[r].write <= next /\ req[r].lot # Unknown /\ req[r].lot \in Homes
         /\ Entry(r) = writes[req[r].write] /\ Entry(r) \in Write /\ Entry(r).op \in Ops
         /\ Entry(r).device \in Devices /\ Entry(r).lot \in Homes /\ Entry(r).of \in Ids \cup {0}
<1> USE DEF UploadInv
<1>1. req[r] \in Flight
  BY DEF TypeOK
<1>2. req[r].write \in DOMAIN writes /\ req[r].write <= next
  BY DEF FlightFacts
<1>3. PICK i \in DOMAIN writes : i = req[r].write
  BY <1>2
<1> QED
  BY <1>1, <1>2, <1>3, WriteFields, UploadAssumption DEF Entry, Flight, Homes

(* The conclusion of every step of an upload. *)
LEMMA UploadStep ==
  ASSUME UploadInv, TypeOK', AuditOnce', RowFacts', Keeps, UNCHANGED <<writes, next, seen, waits>>,
         NEW r \in Requests, NEW i, req[r].write = i, req'[r].write = i,
         req[r].step # "idle", req'[r].step # "idle", req'[r].step = "ok" => Landed(i)',
         \A s \in Requests \ {r} : req'[s] = req[s]
  PROVE  UploadInv'
<1>1. CompletedLanded' /\ QueueFacts'
  BY Carried
<1>2. FlightFacts'
  BY Onward
<1> QED
  BY <1>1, <1>2 DEF UploadInv

(* The checks before the write: what is skipped is there, or was refused. *)
LEMMA CheckStep ==
  ASSUME UploadInv, NEW r \in Requests, Check(r)
  PROVE  UploadInv'
<1>1. PICK i \in DOMAIN writes : i = req[r].write /\ Entry(r) = writes[i]
  BY UploadOf DEF Check
<1>2. /\ req[r] \in Flight /\ Entry(r).lot \in Homes /\ req[r].step = "check"
      /\ req \in [Requests -> Flight]
  BY UploadOf DEF Check, UploadInv, TypeOK
<1>3. UNCHANGED <<phone, device, rows, events, outside, crossed, world, troubles>>
  BY DEF Check
<1>4. /\ req' \in [Requests -> Flight] /\ req'[r].write = i /\ req'[r].step # "idle"
      /\ \A s \in Requests \ {r} : req'[s] = req[s]
  <2>1. \/ \E step \in {"failed", "ok"} : req' = [req EXCEPT ![r].step = step]
        \/ \E step \in {"sanitise", "write"} :
             req' = [req EXCEPT ![r].trimmed = Trims(Entry(r)), ![r].lot = Entry(r).lot, ![r].step = step]
    BY DEF Check, Goto
  <2>2. Trims(Entry(r)) \in BOOLEAN
    BY DEF Trims
  <2> QED
    BY <1>1, <1>2, <2>1, <2>2 DEF Flight
<1>5. refused' = refused \/ (refused' = refused \cup {i} /\ writes[i].op # "create")
  BY <1>1 DEF Check, Ungranted
<1>6. TypeOK'
  BY <1>1, <1>3, <1>4, <1>5 DEF UploadInv, TypeOK, phone, outside
<1>7. Keeps
  BY <1>3, <1>5 DEF Keeps, There, phone, outside
<1>8. RowFacts' /\ AuditOnce'
  BY <1>3, <1>5 DEF UploadInv, AuditOnce, QueueFacts, RowFacts, There, phone
<1>9. req'[r].step = "ok" => i \in rows \/ i \in refused'
  <2>1. ASSUME NEW step, req' = [req EXCEPT ![r].step = step]
        PROVE  req'[r].step = step
    BY <1>2, <2>1 DEF Flight
  <2>2. ASSUME NEW step, req' = [req EXCEPT ![r].trimmed = Trims(Entry(r)), ![r].lot = Entry(r).lot,
                                            ![r].step = step]
        PROVE  req'[r].step = step
    BY <1>2, <2>2 DEF Flight
  <2>3. CASE Goto(r, "failed")
    BY <2>1, <2>3 DEF Goto
  <2>4. CASE i \in rows \/ i \in refused'
    BY <2>4
  <2>5. CASE \E step \in {"sanitise", "write"} :
               req' = [req EXCEPT ![r].trimmed = Trims(Entry(r)), ![r].lot = Entry(r).lot,
                                  ![r].step = step]
    BY <2>2, <2>5
  <2> QED
    BY <1>1, <2>3, <2>4, <2>5 DEF Check, Skipped
<1>10. req'[r].step = "ok" => Landed(i)'
  BY <1>3, <1>9 DEF Landed
<1> QED
  BY <1>1, <1>2, <1>3, <1>4, <1>6, <1>7, <1>8, <1>10, UploadStep DEF phone

(* A lot that is gone is taken out of the write. *)
LEMMA SanitizeStep ==
  ASSUME UploadInv, NEW r \in Requests, SanitizeAssetFks(r)
  PROVE  UploadInv'
<1>1. PICK i \in DOMAIN writes : i = req[r].write
  BY UploadOf DEF SanitizeAssetFks
<1>2. /\ req[r] \in Flight /\ req[r].step = "sanitise" /\ req \in [Requests -> Flight]
      /\ UNCHANGED <<phone, stock, outside, crossed, world, troubles>>
  BY UploadOf DEF SanitizeAssetFks, UploadInv, TypeOK
<1>3. PICK l \in Homes : req' = [req EXCEPT ![r].step = "write", ![r].lot = l]
  BY <1>2 DEF SanitizeAssetFks, Homes, Flight
<1>4. /\ req' \in [Requests -> Flight] /\ req'[r].write = i /\ req'[r].step = "write"
      /\ \A s \in Requests \ {r} : req'[s] = req[s]
  <2>1. [[req[r] EXCEPT !.step = "write"] EXCEPT !.lot = l] \in Flight
    BY <1>2 DEF Flight
  <2>2. req'[r] = [[req[r] EXCEPT !.step = "write"] EXCEPT !.lot = l]
    BY <1>2, <1>3
  <2>3. req'[r].write = i /\ req'[r].step = "write"
    BY <1>1, <1>2, <2>2 DEF Flight
  <2> QED
    BY <1>2, <1>3, <2>1, <2>2, <2>3
<1>5. TypeOK'
  BY <1>2, <1>4 DEF UploadInv, TypeOK, phone, stock, outside
<1>6. Keeps /\ RowFacts' /\ AuditOnce'
  BY <1>2 DEF UploadInv, AuditOnce, QueueFacts, RowFacts, Keeps, There, phone, stock, outside
<1> QED
  BY <1>1, <1>2, <1>4, <1>5, <1>6, UploadStep DEF phone

(* What moving an upload on does. *)
LEMMA GotoEffect ==
  ASSUME UploadInv, NEW r \in Requests, NEW step \in {"ok", "failed"}, Goto(r, step)
  PROVE  /\ req' \in [Requests -> Flight] /\ req'[r].write = req[r].write /\ req'[r].step = step
         /\ \A s \in Requests \ {r} : req'[s] = req[s]
<1>1. req \in [Requests -> Flight] /\ req[r] \in Flight
  BY DEF UploadInv, TypeOK
<1> QED
  BY <1>1 DEF Goto, Flight

(* The write of an upload that only moves a device to a lot, or changes its status. *)
LEMMA DeviceChange ==
  ASSUME UploadInv, UNCHANGED <<phone, rows, events, refused, outside, crossed, world, troubles>>,
         req' \in [Requests -> Flight], NEW d \in Devices,
         \/ device' = device
         \/ \E l \in Homes : device' = [device EXCEPT ![d].lot = l]
         \/ There(d) /\ \E n \in Ids \cup {0} : device' = [device EXCEPT ![d].status = n]
  PROVE  /\ TypeOK' /\ AuditOnce' /\ RowFacts' /\ Keeps
         /\ \A l \in Homes : device' = [device EXCEPT ![d].lot = l] => There(d)'
         /\ There(d) => There(d)'
<1> USE DEF UploadInv
<1>1. device \in [Devices -> Place] /\ device[d] \in Place
  BY DEF TypeOK
<1>2. Unknown \notin Homes
  BY UploadAssumption DEF Homes
<1>3. ASSUME NEW l \in Homes, device' = [device EXCEPT ![d].lot = l]
      PROVE  device' \in [Devices -> Place] /\ There(d)' /\ \A e \in Devices : There(e) => There(e)'
  <2>1. [device[d] EXCEPT !.lot = l] \in Place /\ [device[d] EXCEPT !.lot = l].lot = l
    BY <1>1 DEF Place, Places
  <2>2. device'[d] = [device[d] EXCEPT !.lot = l] /\ \A e \in Devices \ {d} : device'[e] = device[e]
    BY <1>1, <1>3
  <2> QED
    BY <1>1, <1>2, <1>3, <2>1, <2>2 DEF There
<1>4. ASSUME NEW n \in Ids \cup {0}, device' = [device EXCEPT ![d].status = n]
      PROVE  device' \in [Devices -> Place] /\ \A e \in Devices : There(e) => There(e)'
  <2>1. /\ [device[d] EXCEPT !.status = n] \in Place
        /\ [device[d] EXCEPT !.status = n].lot = device[d].lot
    BY <1>1 DEF Place
  <2>2. device'[d] = [device[d] EXCEPT !.status = n] /\ \A e \in Devices \ {d} : device'[e] = device[e]
    BY <1>1, <1>4
  <2> QED
    BY <1>1, <1>4, <2>1, <2>2 DEF There
<1>5. device' \in [Devices -> Place] /\ \A e \in Devices : There(e) => There(e)'
  BY <1>1, <1>3, <1>4 DEF There
<1>6. TypeOK'
  BY <1>5 DEF TypeOK, phone, outside
<1>7. Keeps
  BY <1>5 DEF Keeps, phone, outside
<1>8. AuditOnce'
  BY DEF AuditOnce, phone
<1>9. RowFacts'
  <2>1. \A i \in rows : writes[i].device \in Devices
    BY WriteFields DEF TypeOK
  <2>2. ASSUME NEW i \in rows
        PROVE  There(writes[i].device)'
    <3>1. PICK e \in Devices : e = writes[i].device
      BY <2>1
    <3>2. There(e)'
      BY <1>5, <3>1 DEF QueueFacts, There
    <3> QED
      BY <3>1, <3>2 DEF There, phone
  <2> QED
    BY <2>2 DEF QueueFacts, RowFacts, phone
<1> QED
  BY <1>3, <1>5, <1>6, <1>7, <1>8, <1>9

(* A new device is written. *)
LEMMA WriteDeviceStep ==
  ASSUME UploadInv, NEW r \in Requests, WriteDevice(r)
  PROVE  UploadInv'
<1>1. PICK i \in DOMAIN writes : i = req[r].write /\ Entry(r) = writes[i]
  BY UploadOf DEF WriteDevice
<1>2. PICK d \in Devices : d = Entry(r).device
  BY UploadOf DEF WriteDevice
<1>3. req[r].lot \in Homes /\ req[r].step = "write" /\ writes[i].op = "create"
  BY <1>1, UploadOf DEF WriteDevice
<1>4. UNCHANGED <<phone, rows, events, refused, outside, crossed, world, troubles>>
  BY DEF WriteDevice
<1>5. \/ Goto(r, "ok") /\ device' = [device EXCEPT ![d].lot = req[r].lot]
      \/ Goto(r, "failed") /\ device' = device
  BY <1>2 DEF WriteDevice
<1>6. /\ req' \in [Requests -> Flight] /\ req'[r].write = i /\ req'[r].step \in {"ok", "failed"}
      /\ \A s \in Requests \ {r} : req'[s] = req[s]
      /\ req'[r].step = "ok" => device' = [device EXCEPT ![d].lot = req[r].lot]
  BY <1>1, <1>5, GotoEffect
<1>7. /\ TypeOK' /\ AuditOnce' /\ RowFacts' /\ Keeps
      /\ \A l \in Homes : device' = [device EXCEPT ![d].lot = l] => There(d)'
  BY <1>3, <1>4, <1>5, <1>6, DeviceChange
<1>8. req'[r].step = "ok" => Landed(i)'
  <2>1. req'[r].step = "ok" => There(d)'
    BY <1>3, <1>6, <1>7
  <2> QED
    BY <1>1, <1>2, <1>3, <1>4, <2>1 DEF Landed, OnDevice, There, phone
<1> QED
  BY <1>1, <1>3, <1>4, <1>6, <1>7, <1>8, UploadStep DEF phone

(* A write to a device that is not there, other than a new device's, is to one somebody
   deleted: the new device's own write came before it, so it has landed. *)
LEMMA GoneIsDeleted ==
  ASSUME UploadInv, NEW i \in DOMAIN writes, i <= next,
         writes[i].op # "create", ~There(writes[i].device)
  PROVE  writes[i].device \in deleted
<1> USE DEF UploadInv
<1>1. Rooted(writes[i].device, i - 1)
  BY DEF QueueFacts
<1>2. ASSUME NEW j \in DOMAIN writes, j <= i - 1,
             writes[j].op = "create", writes[j].device = writes[i].device
      PROVE  writes[i].device \in deleted
  <2>1. j \in Ids /\ i \in Ids /\ next \in Int
    BY WriteFields DEF TypeOK
  <2>2. j \in 1..(next - 1)
    BY <1>2, <2>1 DEF Ids
  <2>3. Landed(j)
    BY <2>2 DEF CompletedLanded
  <2> QED
    BY <1>2, <2>3 DEF Landed, QueueFacts, OnDevice
<1> QED
  BY <1>1, <1>2 DEF Rooted

(* A device is moved or graded; where it is gone, nothing is written. *)
LEMMA PatchDeviceStep ==
  ASSUME UploadInv, NEW r \in Requests, PatchDevice(r)
  PROVE  UploadInv'
<1>1. PICK i \in DOMAIN writes : i = req[r].write /\ Entry(r) = writes[i] /\ i <= next
  BY UploadOf DEF PatchDevice
<1>2. PICK d \in Devices : d = Entry(r).device
  BY UploadOf DEF PatchDevice
<1>3. /\ req[r].lot \in Homes /\ req[r].step = "write" /\ Entry(r).of \in Ids \cup {0}
      /\ writes[i].op \in {"move", "grade"}
  BY <1>1, UploadOf DEF PatchDevice
<1>4. UNCHANGED <<phone, rows, events, refused, outside, crossed, world, troubles>>
  BY DEF PatchDevice
<1>5. \/ device' = device
      \/ \E l \in Homes : device' = [device EXCEPT ![d].lot = l]
      \/ There(d) /\ \E n \in Ids \cup {0} : device' = [device EXCEPT ![d].status = n]
  BY <1>2, <1>3 DEF PatchDevice, Moved
<1>6. /\ req' \in [Requests -> Flight] /\ req'[r].write = i /\ req'[r].step \in {"ok", "failed"}
      /\ \A s \in Requests \ {r} : req'[s] = req[s]
  BY <1>1, GotoEffect DEF PatchDevice
<1>7. TypeOK' /\ AuditOnce' /\ RowFacts' /\ Keeps /\ (There(d) => There(d)')
  BY <1>4, <1>5, <1>6, DeviceChange
<1>8. Landed(i)'
  <2>1. CASE There(d)
    BY <1>1, <1>2, <1>3, <1>4, <1>7, <2>1 DEF Landed, OnDevice, There, phone
  <2>2. CASE ~There(d)
    BY <1>1, <1>2, <1>3, <1>4, <2>2, GoneIsDeleted DEF Landed, phone, outside
  <2> QED
    BY <2>1, <2>2
<1> QED
  BY <1>1, <1>3, <1>4, <1>6, <1>7, <1>8, UploadStep DEF phone

(* A scan's row is inserted. *)
LEMMA WriteEventStep ==
  ASSUME UploadInv, NEW r \in Requests, WriteEvent(r)
  PROVE  UploadInv'
<1>1. PICK i \in DOMAIN writes : i = req[r].write /\ Entry(r) = writes[i]
  BY UploadOf DEF WriteEvent
<1>2. /\ req[r].step = "write" /\ writes[i].op = "scan"
      /\ UNCHANGED <<phone, device, events, refused, outside, crossed, world, troubles>>
  BY <1>1 DEF WriteEvent
<1>3. \/ Goto(r, "ok") /\ There(writes[i].device) /\ rows' = rows \cup {i}
      \/ Goto(r, "failed") /\ rows' = rows
  BY <1>1 DEF WriteEvent
<1>4. /\ req' \in [Requests -> Flight] /\ req'[r].write = i /\ req'[r].step \in {"ok", "failed"}
      /\ \A s \in Requests \ {r} : req'[s] = req[s]
      /\ req'[r].step = "ok" => i \in rows'
  BY <1>1, <1>3, GotoEffect
<1>5. TypeOK'
  BY <1>2, <1>3, <1>4 DEF UploadInv, TypeOK, phone, outside
<1>6. Keeps
  BY <1>2, <1>3 DEF Keeps, There, phone, outside
<1>7. RowFacts' /\ AuditOnce'
  BY <1>2, <1>3 DEF UploadInv, AuditOnce, QueueFacts, RowFacts, There, phone, Ops, OnDevice
<1>8. req'[r].step = "ok" => Landed(i)'
  BY <1>4 DEF Landed
<1> QED
  BY <1>1, <1>2, <1>4, <1>5, <1>6, <1>7, <1>8, UploadStep DEF phone

(* An audit, its device's status and its event are written together, or not at all. *)
LEMMA WriteAuditStep ==
  ASSUME UploadInv, NEW r \in Requests, WriteAudit(r)
  PROVE  UploadInv'
<1> USE DEF UploadInv
<1>1. PICK i \in DOMAIN writes : i = req[r].write /\ Entry(r) = writes[i]
  BY UploadOf DEF WriteAudit
<1>2. PICK d \in Devices : d = writes[i].device
  BY WriteFields
<1>3. /\ req[r].step = "write" /\ writes[i].op = "audit" /\ i \in Ids
      /\ UNCHANGED <<phone, refused, outside, crossed, world, troubles>>
  BY <1>1, WriteFields DEF WriteAudit
<1>4. CASE There(d) /\ i \notin rows
  <2>1. /\ Goto(r, "ok") /\ rows' = rows \cup {i} /\ events' = [events EXCEPT ![i] = @ + 1]
        /\ device' = device \/ device' = [device EXCEPT ![d].status = i]
    BY <1>1, <1>2, <1>4 DEF WriteAudit, Inserts
  <2>2. /\ req' \in [Requests -> Flight] /\ req'[r].write = i /\ req'[r].step = "ok"
        /\ \A s \in Requests \ {r} : req'[s] = req[s]
    BY <1>1, <2>1, GotoEffect
  <2>3. device \in [Devices -> Place] /\ device[d] \in Place
    BY DEF TypeOK
  <2>4. device' \in [Devices -> Place] /\ \A e \in Devices : device'[e].lot = device[e].lot
    <3>1. /\ [device[d] EXCEPT !.status = i] \in Place
          /\ [device[d] EXCEPT !.status = i].lot = device[d].lot
      BY <1>3, <2>3 DEF Place
    <3> QED
      BY <2>1, <2>3, <3>1
  <2>5. events \in [Ids -> 0..1] /\ events[i] = 0
    BY <1>3, <1>4 DEF TypeOK, AuditOnce
  <2>6. events' \in [Ids -> 0..1] /\ events'[i] = 1 /\ \A j \in Ids \ {i} : events'[j] = events[j]
    BY <1>3, <2>1, <2>5
  <2>7. TypeOK'
    BY <1>3, <2>1, <2>2, <2>4, <2>6 DEF TypeOK, phone, outside
  <2>8. Keeps
    BY <1>3, <2>1, <2>4 DEF Keeps, There, phone, outside
  <2>9. AuditOnce'
    BY <1>3, <2>1, <2>6 DEF AuditOnce, phone
  <2>10. RowFacts'
    <3>1. \A j \in rows : writes[j].device \in Devices
      BY WriteFields DEF TypeOK
    <3> QED
      BY <1>2, <1>3, <1>4, <2>1, <2>4, <3>1 DEF QueueFacts, RowFacts, There, phone, Ops, OnDevice
  <2>11. Landed(i)'
    BY <2>1 DEF Landed
  <2> QED
    BY <1>1, <1>3, <2>2, <2>7, <2>8, <2>9, <2>10, <2>11, UploadStep DEF phone
<1>5. CASE ~ (There(d) /\ i \notin rows)
  <2>1. /\ rows' = rows /\ events' = events /\ device' = device
        /\ Goto(r, "failed") \/ (Goto(r, "ok") /\ i \in rows)
    BY <1>1, <1>2, <1>5 DEF WriteAudit, Inserts
  <2>2. /\ req' \in [Requests -> Flight] /\ req'[r].write = i /\ req'[r].step \in {"ok", "failed"}
        /\ \A s \in Requests \ {r} : req'[s] = req[s]
        /\ req'[r].step = "ok" => i \in rows
    BY <1>1, <2>1, GotoEffect
  <2>3. TypeOK'
    BY <1>3, <2>1, <2>2 DEF TypeOK, phone, outside
  <2>4. Keeps /\ RowFacts' /\ AuditOnce'
    BY <1>3, <2>1 DEF AuditOnce, QueueFacts, RowFacts, Keeps, There, phone, outside
  <2>5. req'[r].step = "ok" => Landed(i)'
    BY <2>1, <2>2 DEF Landed
  <2> QED
    BY <1>1, <1>3, <2>2, <2>3, <2>4, <2>5, UploadStep DEF phone
<1> QED
  BY <1>4, <1>5

-----------------------------------------------------------------------------
(* The network and other people *)

(* A broken connection or a restart of the server loses uploads, and nothing else. *)
LEMMA TroubleStep ==
  ASSUME UploadInv, BreakConnection \/ RestartServer
  PROVE  UploadInv'
<1> USE DEF UploadInv
<1>1. /\ UNCHANGED <<writes, next, seen, listed, stock, outside, world>>
      /\ waits' = Nobody /\ crossed' \in BOOLEAN /\ troubles' \in 0..MaxTroubles
      /\ req' = req \/ req' = [r \in Requests |-> Idle]
  <2>1. crossed \in BOOLEAN /\ troubles \in 0..MaxTroubles /\ MaxTroubles \in Nat
    BY UploadAssumption DEF TypeOK
  <2>2. CASE BreakConnection
    <3>1. crossed' \in BOOLEAN
      BY <2>2, Zenon DEF BreakConnection
    <3> QED
      BY <2>1, <2>2, <3>1 DEF BreakConnection, Trouble
  <2>3. CASE RestartServer
    BY <2>1, <2>3 DEF RestartServer, Trouble
  <2> QED
    BY <2>2, <2>3
<1>2. TypeOK'
  <2>1. Idle \in Flight
    BY DEF Idle, Flight, Homes
  <2> QED
    BY <1>1, <2>1 DEF TypeOK, stock, outside
<1>3. Keeps /\ RowFacts' /\ AuditOnce'
  BY <1>1 DEF AuditOnce, QueueFacts, RowFacts, Keeps, There, stock, outside
<1>4. CompletedLanded' /\ QueueFacts'
  BY <1>1, <1>2, <1>3, Carried
<1>5. FlightFacts'
  BY <1>1, <1>3, Still
<1> QED
  BY <1>2, <1>3, <1>4, <1>5

(* Devices that go take their rows, and their audits' events, with them. *)
LEMMA CascadeEffect ==
  ASSUME UploadInv, NEW ds \in SUBSET Devices, Cascade(ds), UNCHANGED <<phone, refused>>
  PROVE  /\ device' \in [Devices -> Place] /\ events' \in [Ids -> 0..1]
         /\ rows' \subseteq rows /\ deleted' \subseteq Devices
         /\ Keeps /\ RowFacts' /\ AuditOnce'
<1> USE DEF UploadInv
<1> DEFINE lost == {i \in rows : writes[i].device \in ds}
<1>1. /\ device' = [d \in Devices |-> IF d \in ds THEN Absent ELSE device[d]]
      /\ rows' = rows \ lost
      /\ events' = [i \in Ids |-> IF i \in lost THEN 0 ELSE events[i]]
      /\ deleted' = deleted \cup ds
  BY DEF Cascade
<1>2. device \in [Devices -> Place] /\ events \in [Ids -> 0..1] /\ deleted \subseteq Devices
  BY DEF TypeOK
<1>3. Absent \in Place
  BY DEF Absent, Place, Places
<1>4. device' \in [Devices -> Place] /\ events' \in [Ids -> 0..1]
  BY <1>1, <1>2, <1>3
<1>5. \A d \in Devices \ ds : device'[d] = device[d]
  BY <1>1
<1>6. Keeps
  BY <1>1, <1>5 DEF Keeps, There, phone
<1>7. AuditOnce'
  BY <1>1 DEF AuditOnce, phone
<1>8. RowFacts'
  <2>1. \A i \in rows : writes[i].device \in Devices
    BY WriteFields DEF TypeOK
  <2>2. \A i \in rows' : i \in rows /\ writes[i].device \in Devices \ ds
    BY <1>1, <2>1
  <2> QED
    BY <1>5, <2>2 DEF QueueFacts, RowFacts, There, phone
<1> QED
  BY <1>1, <1>2, <1>4, <1>6, <1>7, <1>8

(* Whatever another person does. *)
LEMMA OthersStep == ASSUME UploadInv, Others PROVE UploadInv'
<1> USE DEF UploadInv
<1>1. UNCHANGED <<phone, req, refused, crossed, world, troubles>> /\ others' \in 0..MaxOthers
  <2>1. \E flag \in Flags : Someone(flag)
    BY DEF Others, DeleteDevice, Refile, DeleteLot, ReassignLot, Regrant, Flags
  <2> QED
    BY <2>1, UploadAssumption DEF Someone, TypeOK
<1>2. \/ /\ \E ds \in SUBSET Devices : Cascade(ds)
         /\ owner' \in [Lots -> {"ours", "theirs", "gone"}] /\ UNCHANGED <<rivals, grants>>
      \/ /\ UNCHANGED <<device, rows, events, deleted>>
         /\ owner' \in [Lots -> {"ours", "theirs", "gone"}]
         /\ rivals' \subseteq Devices /\ grants' \subseteq {"audit", "wipe"}
  <2>1. /\ owner \in [Lots -> {"ours", "theirs", "gone"}]
        /\ rivals \subseteq Devices /\ grants \subseteq {"audit", "wipe"}
    BY DEF TypeOK
  <2>2. ASSUME NEW d \in Devices, DeleteDevice(d)
        PROVE  <1>2!1
    BY <2>1, <2>2 DEF DeleteDevice
  <2>3. ASSUME NEW d \in Devices, Refile(d)
        PROVE  <1>2!2
    BY <2>1, <2>3 DEF Refile
  <2>4. ASSUME NEW l \in Lots, DeleteLot(l)
        PROVE  <1>2!1
    <3>1. {d \in Devices : device[d].lot = l} \in SUBSET Devices
      OBVIOUS
    <3> QED
      BY <2>1, <2>4, <3>1 DEF DeleteLot
  <2>5. ASSUME NEW l \in Lots, ReassignLot(l)
        PROVE  <1>2!2
    BY <2>1, <2>5 DEF ReassignLot
  <2>6. ASSUME NEW g \in {"audit", "wipe"}, Regrant(g)
        PROVE  <1>2!2
    BY <2>1, <2>6 DEF Regrant
  <2> QED
    BY <2>2, <2>3, <2>4, <2>5, <2>6 DEF Others
<1>3. TypeOK' /\ Keeps /\ RowFacts' /\ AuditOnce'
  <2>1. CASE <1>2!1
    <3>1. PICK ds \in SUBSET Devices : Cascade(ds)
      BY <2>1
    <3>2. /\ device' \in [Devices -> Place] /\ events' \in [Ids -> 0..1]
          /\ rows' \subseteq rows /\ deleted' \subseteq Devices
          /\ Keeps /\ RowFacts' /\ AuditOnce'
      BY <1>1, <3>1, CascadeEffect
    <3> QED
      BY <1>1, <2>1, <3>2 DEF TypeOK, phone
  <2>2. CASE <1>2!2
    <3>1. TypeOK'
      BY <1>1, <2>2 DEF TypeOK, phone
    <3>2. Keeps /\ RowFacts' /\ AuditOnce'
      BY <1>1, <2>2 DEF AuditOnce, QueueFacts, RowFacts, Keeps, There, phone
    <3> QED
      BY <3>1, <3>2
  <2> QED
    BY <1>2, <2>1, <2>2
<1>4. CompletedLanded' /\ QueueFacts'
  BY <1>1, <1>3, Carried DEF phone
<1>5. FlightFacts'
  BY <1>1, <1>3, Still DEF phone
<1> QED
  BY <1>3, <1>4, <1>5

-----------------------------------------------------------------------------
(* The theorems *)

(* The invariant holds when the phone goes offline. *)
LEMMA InitInv == Init => UploadInv
<1> SUFFICES ASSUME Init PROVE UploadInv
  OBVIOUS
<1>1. MaxWrites \in Nat /\ MaxTroubles \in Nat /\ MaxOthers \in Nat
  BY UploadAssumption
<1>2. Idle \in Flight /\ Absent \in Place /\ [Absent EXCEPT !.lot = FirstLot] \in Place
  BY UploadAssumption DEF Idle, Flight, Absent, Place, Places, Homes
<1>3. device \in [Devices -> Place] /\ \A d \in Devices : device[d] # Absent => There(d)
  BY <1>2, UploadAssumption DEF Init, There, Absent
<1>4. writes = <<>> /\ writes \in Seq(Write) /\ Len(writes) = 0 /\ DOMAIN writes = {} /\ next = 1
  BY EmptySeq DEF Init
<1>5. TypeOK
  <2>1. seen = device /\ req \in [Requests -> Flight]
    BY <1>2 DEF Init
  <2>2. next \in 1..(Len(writes) + 1) /\ Len(writes) <= MaxWrites
    BY <1>1, <1>4
  <2>3. events \in [Ids -> 0..1] /\ rows \cup refused \subseteq DOMAIN writes
    BY DEF Init
  <2>4. owner \in [Lots -> {"ours", "theirs", "gone"}] /\ listed \subseteq Lots
    BY DEF Init
  <2>5. /\ waits \in Requests \cup {Nobody} /\ world \in Worlds
        /\ rivals \cup deleted \subseteq Devices /\ grants \subseteq {"audit", "wipe"}
    BY DEF Init
  <2>6. troubles \in 0..MaxTroubles /\ others \in 0..MaxOthers
    BY <1>1 DEF Init
  <2>7. crossed \in BOOLEAN
    BY DEF Init
  <2> QED
    BY <1>3, <1>4, <2>1, <2>2, <2>3, <2>4, <2>5, <2>6, <2>7 DEF TypeOK
<1>6. AuditOnce /\ CompletedLanded
  BY <1>4 DEF Init, AuditOnce, CompletedLanded
<1>7. QueueFacts
  BY <1>3, <1>4 DEF Init, QueueFacts, Rooted
<1>8. FlightFacts
  BY UploadAssumption DEF Init, FlightFacts, Idle
<1> QED
  BY <1>5, <1>6, <1>7, <1>8 DEF UploadInv

(* Every step keeps it. *)
LEMMA StepInv == UploadInv /\ [Next]_vars => UploadInv'
<1> SUFFICES ASSUME UploadInv, [Next]_vars PROVE UploadInv'
  OBVIOUS
<1>1. CASE Scans
  BY <1>1, ScansStep
<1>2. CASE SyncDown
  BY <1>2, SyncDownStep
<1>3. CASE Others
  BY <1>3, OthersStep
<1>4. CASE BreakConnection \/ RestartServer
  BY <1>4, TroubleStep
<1>5. ASSUME NEW r \in Requests, Upload(r)
      PROVE  UploadInv'
  BY <1>5, UploadDataStep, AnswerStep, CheckStep, SanitizeStep, WriteDeviceStep,
     PatchDeviceStep, WriteEventStep, WriteAuditStep DEF Upload
<1>6. CASE UNCHANGED vars
  <2>1. Keeps /\ TypeOK' /\ RowFacts' /\ AuditOnce'
    BY <1>6 DEF UploadInv, TypeOK, AuditOnce, QueueFacts, RowFacts, Keeps, There,
                vars, phone, stock, outside
  <2>2. CompletedLanded' /\ QueueFacts'
    BY <1>6, <2>1, Carried DEF vars, phone
  <2>3. FlightFacts'
    BY <1>6, <2>1, Still DEF vars, phone
  <2> QED
    BY <2>1, <2>2, <2>3 DEF UploadInv
<1> QED
  BY <1>1, <1>2, <1>3, <1>4, <1>5, <1>6 DEF Next

(* The server's rows, the phone's queue and the uploads in flight agree, for every
   number of writes, uploads, retries and acts of other people. *)
THEOREM UploadInvariant == Spec => []UploadInv
<1>1. Init => UploadInv
  BY InitInv
<1>2. UploadInv /\ [Next]_vars => UploadInv'
  BY StepInv
<1> QED
  BY <1>1, <1>2, PTL DEF Spec

(* The types. *)
THEOREM TypeCorrectness == Spec => []TypeOK
<1>1. UploadInv => TypeOK
  BY DEF UploadInv
<1> QED
  BY <1>1, UploadInvariant, PTL

(* applyBatch: however often an audit is sent, and however many uploads of it run at
   once, its row and its AUDITED event are there together, once, or neither is. *)
THEOREM AuditsOnce == Spec => []AuditOnce
<1>1. UploadInv => AuditOnce
  BY DEF UploadInv
<1> QED
  BY <1>1, UploadInvariant, PTL

(* uploadData: every write the phone has completed is on the server, or its device was
   deleted there, or the account had not the grant. *)
THEOREM NothingLetGo == Spec => []CompletedLanded
<1>1. UploadInv => CompletedLanded
  BY DEF UploadInv
<1> QED
  BY <1>1, UploadInvariant, PTL

-----------------------------------------------------------------------------
(* The phone and the server agree once nothing waits *)

\* What says where a device is, and what says its outcome.
Placing == {"create", "move"}

Marking == {"audit", "grade"}

Sets(w, d, ops) == w.device = d /\ w.op \in ops

Pending == next..Len(writes)

\* Of the writes not let go of, i is the last that sets this of d.
Final(i, d, ops) ==
  i \in Pending /\ Sets(writes[i], d, ops) /\ \A j \in Pending : j > i => ~Sets(writes[j], d, ops)

Settled(d, ops) == \A i \in Pending : ~Sets(writes[i], d, ops)

\* What the phone shows is what its last write will leave, or what the server has.
LotFollows(d) ==
  \/ \E i \in Pending : Final(i, d, Placing) /\ writes[i].lot = seen[d].lot
  \/ Settled(d, Placing) /\ device[d].lot = seen[d].lot

MarkFollows(d) ==
  \/ \E i \in Pending : Final(i, d, Marking) /\ writes[i].op = "grade" /\ writes[i].of = seen[d].status
  \/ Settled(d, Marking) /\ device[d].status = seen[d].status

Follows == \A d \in Devices : seen[d] # Absent => LotFollows(d) /\ MarkFollows(d)

\* A device is there from the start or from the phone.
Origins ==
  \A d \in Devices : IF There(d) THEN d \in Stocked \/ \E i \in DOMAIN writes : writes[i].device = d
                                 ELSE device[d] = Absent

\* Nobody else had a hand in it.
Alone == deleted = {} /\ refused = {} /\ grants = {"audit", "wipe"} /\ \A l \in Lots : owner[l] = "ours"

\* What the server has of a write that it answered 200.
Taken(w) ==
  /\ w.op \in Placing => device[w.device].lot = w.lot
  /\ w.op = "grade" => device[w.device].status = w.of

\* The only upload that may still write is the one the phone waits for.
OneWriter ==
  \A r \in Requests :
    /\ req[r].step \in {"check", "sanitise", "write"} => waits = r
    /\ req[r].step \in {"sanitise", "write"} => req[r].lot = writes[req[r].write].lot
    /\ req[r].step = "ok" /\ waits = r => Taken(writes[req[r].write])

Undisturbed == others = 0 /\ ~crossed

QuietFacts == Follows /\ Origins /\ Alone /\ OneWriter

QuietInv == Undisturbed => QuietFacts

-----------------------------------------------------------------------------
(* The numbers of the writes. *)
LEMMA Numbers ==
  ASSUME UploadInv
  PROVE  /\ Len(writes) \in Nat /\ DOMAIN writes = 1..Len(writes) /\ next \in 1..(Len(writes) + 1)
         /\ \A i \in Pending : i \in DOMAIN writes /\ i \in Nat
BY LenProperties DEF UploadInv, TypeOK, Pending

(* A step that leaves the queue, the phone and the devices alone. *)
LEMMA SameView ==
  ASSUME Follows, Origins, UNCHANGED <<writes, next, seen, device>>
  PROVE  Follows' /\ Origins'
<1>1. Follows'
  <2>1. \A d \in Devices : LotFollows(d) => LotFollows(d)'
    BY DEF LotFollows, Settled, Final, Pending
  <2>2. \A d \in Devices : MarkFollows(d) => MarkFollows(d)'
    BY DEF MarkFollows, Settled, Final, Pending
  <2> QED BY <2>1, <2>2 DEF Follows
<1>2. Origins'
  BY DEF Origins, There
<1> QED BY <1>1, <1>2

(* Writes that do not set this of d, added to the queue. *)
LEMMA OthersQueued ==
  ASSUME UploadInv, UploadInv', next' = next, NEW d, NEW ops,
         \A i \in DOMAIN writes : i \in DOMAIN writes' /\ writes'[i] = writes[i],
         \A i \in DOMAIN writes' \ DOMAIN writes : ~Sets(writes'[i], d, ops)
  PROVE  /\ \A i \in Pending : Final(i, d, ops) => Final(i, d, ops)'
         /\ Settled(d, ops) => Settled(d, ops)'
         /\ Pending \subseteq Pending'
<1>1. Len(writes) \in Nat /\ DOMAIN writes = 1..Len(writes) /\ next \in 1..(Len(writes) + 1)
  BY Numbers
<1>2. Len(writes') \in Nat /\ DOMAIN writes' = 1..Len(writes')
  BY LenProperties DEF UploadInv, TypeOK
<1>3. PICK m \in Nat, n \in Nat : m = Len(writes) /\ n = Len(writes')
  BY <1>1, <1>2
<1>4. m <= n
  <2>1. CASE m = 0
    BY <2>1
  <2>2. CASE m # 0
    BY <2>2, <1>1, <1>2, <1>3
  <2> QED BY <2>1, <2>2
<1>5. Pending = next..m /\ Pending' = next..n
  BY <1>3 DEF Pending
<1>6. \A i \in next..n : (i \in next..m /\ writes'[i] = writes[i]) \/ ~Sets(writes'[i], d, ops)
  BY <1>1, <1>2, <1>3, <1>4
<1>7. \A i \in next..m : i \in next..n /\ writes'[i] = writes[i]
  BY <1>1, <1>2, <1>3, <1>4
<1>8. ASSUME NEW i \in Pending, Final(i, d, ops)
      PROVE  Final(i, d, ops)'
  <2>1. i \in next..m /\ i \in Pending' /\ writes'[i] = writes[i]
    BY <1>5, <1>7
  <2>2. Sets(writes'[i], d, ops)
    BY <1>8, <2>1 DEF Final
  <2>3. \A j \in next..n : j > i => ~Sets(writes'[j], d, ops)
    BY <1>5, <1>6, <1>8 DEF Final
  <2> QED
    BY <1>5, <2>1, <2>2, <2>3 DEF Final, Sets
<1> QED
  BY <1>5, <1>6, <1>7, <1>8 DEF Settled, Sets

(* The device of the next write, with what that write sets of it. *)
LEMMA DeviceSet ==
  ASSUME UploadInv, Follows, Origins, UNCHANGED <<writes, next, seen>>,
         NEW i \in DOMAIN writes, i = next, NEW d \in Devices, d = writes[i].device,
         \/ writes[i].op \in Placing /\ \E l \in Homes : device' = [device EXCEPT ![d].lot = l]
         \/ writes[i].op \in Marking /\ There(d) /\ \E n \in Ids \cup {0} : device' = [device EXCEPT ![d].status = n]
  PROVE  Follows' /\ Origins'
<1>1. device \in [Devices -> Place] /\ i \in Pending /\ i \in Nat
  BY Numbers DEF UploadInv, TypeOK, Pending
<1>2. /\ \A e \in Devices \ {d} : device'[e] = device[e]
      /\ writes[i].op \in Placing => device'[d].status = device[d].status /\ Sets(writes[i], d, Placing)
      /\ writes[i].op \in Marking => device'[d].lot = device[d].lot /\ Sets(writes[i], d, Marking)
      /\ There(d)'
  <2>1. ASSUME writes[i].op \in Placing, NEW l \in Homes, device' = [device EXCEPT ![d].lot = l]
        PROVE  /\ \A e \in Devices \ {d} : device'[e] = device[e]
               /\ device'[d].status = device[d].status /\ device'[d].lot = l
    BY <1>1, <2>1 DEF Place
  <2>2. ASSUME NEW n \in Ids \cup {0}, device' = [device EXCEPT ![d].status = n]
        PROVE  /\ \A e \in Devices \ {d} : device'[e] = device[e]
               /\ device'[d].lot = device[d].lot
    BY <1>1, <2>2 DEF Place
  <2>3. Unknown \notin Homes /\ Placing \cap Marking = {}
    BY UploadAssumption DEF Homes, Placing, Marking
  <2>4. CASE writes[i].op \in Placing
    BY <2>1, <2>3, <2>4 DEF There, Sets
  <2>5. CASE writes[i].op \in Marking
    BY <2>2, <2>3, <2>5 DEF There, Sets
  <2> QED BY <2>4, <2>5
<1>3. \A e \in Devices, ops \in {Placing, Marking} :
        /\ \A j \in Pending : Final(j, e, ops) => Final(j, e, ops)'
        /\ Settled(e, ops) => Settled(e, ops)'
  BY DEF Final, Settled, Pending
<1>4. Pending' = Pending
  BY DEF Pending
<1>5. ASSUME NEW e \in Devices, LotFollows(e)
      PROVE  LotFollows(e)'
  <2>1. CASE Settled(e, Placing) /\ device[e].lot = seen[e].lot
    <3>1. device'[e].lot = device[e].lot
      BY <1>1, <1>2, <2>1 DEF Settled
    <3> QED BY <1>3, <2>1, <3>1 DEF LotFollows
  <2>2. CASE \E j \in Pending : Final(j, e, Placing) /\ writes[j].lot = seen[e].lot
    BY <1>3, <1>4, <2>2 DEF LotFollows
  <2> QED BY <1>5, <2>1, <2>2 DEF LotFollows
<1>6. ASSUME NEW e \in Devices, MarkFollows(e)
      PROVE  MarkFollows(e)'
  <2>1. CASE Settled(e, Marking) /\ device[e].status = seen[e].status
    <3>1. device'[e].status = device[e].status
      BY <1>1, <1>2, <2>1 DEF Settled
    <3> QED BY <1>3, <2>1, <3>1 DEF MarkFollows
  <2>2. CASE \E j \in Pending : Final(j, e, Marking) /\ writes[j].op = "grade" /\ writes[j].of = seen[e].status
    BY <1>3, <1>4, <2>2 DEF MarkFollows
  <2> QED BY <1>6, <2>1, <2>2 DEF MarkFollows
<1>7. Follows'
  BY <1>5, <1>6 DEF Follows
<1>8. Origins'
  <2>1. ASSUME NEW e \in Devices \ {d}
        PROVE  There(e)' <=> There(e)
    BY <1>2 DEF There
  <2> QED BY <1>2, <2>1 DEF Origins
<1> QED BY <1>7, <1>8

(* The upload r of the next write moves on, and nothing else changes but a device. *)
LEMMA OneMoves ==
  ASSUME UploadInv, UploadInv', OneWriter, UNCHANGED <<writes, next, waits>>,
         NEW r \in Requests, waits = r, req'[r].write = req[r].write,
         \A s \in Requests \ {r} : req'[s] = req[s],
         req'[r].step \in {"sanitise", "write"} => req'[r].lot = writes[req[r].write].lot,
         req'[r].step = "ok" => Taken(writes[req[r].write])'
  PROVE  OneWriter'
<1>1. r # Nobody
  BY UploadAssumption
<1>2. ASSUME NEW s \in Requests
      PROVE  /\ req'[s].step \in {"check", "sanitise", "write"} => waits' = s
             /\ req'[s].step \in {"sanitise", "write"} => req'[s].lot = writes'[req'[s].write].lot
             /\ req'[s].step = "ok" /\ waits' = s => Taken(writes[req[s].write])'
  <2>1. CASE s = r
    BY <2>1 DEF Taken
  <2>2. CASE s # r
    BY <2>2 DEF OneWriter
  <2> QED BY <2>1, <2>2
<1> QED BY <1>2 DEF OneWriter, Taken

-----------------------------------------------------------------------------
(* The forms *)

(* Of n writes added to m, the last that sets this of d is the last of all. *)
LEMMA LastQueued ==
  ASSUME NEW m \in Nat, NEW n \in Nat, next \in 1..(m + 1), next' = next, Len(writes') = m + n,
         NEW k \in 1..n, NEW d, NEW ops, Sets(writes'[m + k], d, ops),
         \A j \in 1..n : j > k => ~Sets(writes'[m + j], d, ops)
  PROVE  \E i \in Pending' : i = m + k /\ Final(i, d, ops)'
<1>1. Pending' = next..(m + n) /\ m + k \in next..(m + n)
  BY DEF Pending
<1>2. ASSUME NEW j \in next..(m + n), j > m + k
      PROVE  ~Sets(writes'[j], d, ops)
  <2>1. j - m \in 1..n /\ j - m > k /\ j = m + (j - m)
    BY <1>2
  <2> QED BY <2>1
<1>3. Final(m + k, d, ops)'
  BY <1>1, <1>2 DEF Final, Sets
<1> QED
  BY <1>1, <1>3

(* A form that queues ws for d: what d shows is what ws leaves, or as it was. *)
LEMMA FormFollows ==
  ASSUME UploadInv, UploadInv', QuietFacts, NEW ws \in Seq(Write), Queue(ws), UNCHANGED device,
         NEW d \in Devices, \A k \in 1..Len(ws) : ws[k].device = d,
         \A e \in Devices \ {d} : seen'[e] = seen[e],
         \/ LotFollows(d) /\ seen'[d].lot = seen[d].lot /\ \A k \in 1..Len(ws) : ws[k].op \notin Placing
         \/ \E k \in 1..Len(ws) : /\ ws[k].op \in Placing /\ ws[k].lot = seen'[d].lot
                                  /\ \A j \in 1..Len(ws) : j > k => ws[j].op \notin Placing,
         \/ MarkFollows(d) /\ seen'[d].status = seen[d].status /\ \A k \in 1..Len(ws) : ws[k].op \notin Marking
         \/ \E k \in 1..Len(ws) : /\ ws[k].op = "grade" /\ ws[k].of = seen'[d].status
                                  /\ \A j \in 1..Len(ws) : j > k => ws[j].op \notin Marking
  PROVE  QuietFacts'
<1>1. /\ \A i \in DOMAIN writes : i \in DOMAIN writes' /\ writes'[i] = writes[i]
      /\ \A i \in DOMAIN writes' \ DOMAIN writes :
           i - Len(writes) \in 1..Len(ws) /\ writes'[i] = ws[i - Len(writes)]
      /\ \A k \in 1..Len(ws) : writes'[Len(writes) + k] = ws[k]
      /\ Len(writes') = Len(writes) + Len(ws) /\ DOMAIN writes' = 1..Len(writes')
      /\ Len(ws) \in Nat /\ Len(writes) \in Nat /\ DOMAIN writes = 1..Len(writes)
  BY QueueAppends DEF UploadInv
<1>2. UNCHANGED <<next, waits, req, stock, outside, crossed>>
  BY DEF Queue
<1>3. Pending \subseteq Pending' /\ \A i \in Pending : writes'[i] = writes[i]
  <2>1. PICK m \in Nat, n \in Nat : m = Len(writes) /\ n = Len(ws)
    BY <1>1
  <2>2. next \in 1..(m + 1)
    BY <2>1, Numbers
  <2>3. Pending = next..m /\ Pending' = next..(m + n)
    BY <1>1, <1>2, <2>1 DEF Pending
  <2>4. next..m \subseteq next..(m + n) /\ next..m \subseteq 1..m
    BY <2>1, <2>2
  <2> QED BY <1>1, <2>1, <2>3, <2>4
<1>4. ASSUME NEW e \in Devices, e # d, seen[e] # Absent
      PROVE  LotFollows(e)' /\ MarkFollows(e)'
  <2>1. \A i \in DOMAIN writes' \ DOMAIN writes : writes'[i].device # e
    BY <1>1, <1>4
  <2>2. /\ \A i \in Pending : Final(i, e, Placing) => Final(i, e, Placing)'
        /\ Settled(e, Placing) => Settled(e, Placing)'
    BY <1>1, <1>2, <2>1, OthersQueued DEF Placing, Sets
  <2>3. /\ \A i \in Pending : Final(i, e, Marking) => Final(i, e, Marking)'
        /\ Settled(e, Marking) => Settled(e, Marking)'
    BY <1>1, <1>2, <2>1, OthersQueued DEF Marking, Sets
  <2>4. LotFollows(e) /\ MarkFollows(e) /\ seen'[e] = seen[e]
    BY <1>4 DEF QuietFacts, Follows
  <2>5. LotFollows(e)'
    BY <1>3, <2>2, <2>4 DEF LotFollows
  <2>6. MarkFollows(e)'
    BY <1>3, <2>3, <2>4 DEF MarkFollows
  <2> QED BY <2>5, <2>6
<1>5. LotFollows(d)'
  <2>1. CASE LotFollows(d) /\ seen'[d].lot = seen[d].lot /\ \A k \in 1..Len(ws) : ws[k].op \notin Placing
    <3>1. \A i \in DOMAIN writes' \ DOMAIN writes : ~Sets(writes'[i], d, Placing)
      BY <1>1, <2>1 DEF Sets
    <3>2. /\ \A i \in Pending : Final(i, d, Placing) => Final(i, d, Placing)'
          /\ Settled(d, Placing) => Settled(d, Placing)'
      BY <1>1, <1>2, <3>1, OthersQueued DEF Placing
    <3> QED BY <1>3, <2>1, <3>2 DEF LotFollows
  <2>2. ASSUME NEW k \in 1..Len(ws), ws[k].op \in Placing, ws[k].lot = seen'[d].lot,
               \A j \in 1..Len(ws) : j > k => ws[j].op \notin Placing
        PROVE  LotFollows(d)'
    <3>1. \E i \in Pending' : Final(i, d, Placing)' /\ writes'[i] = ws[k]
      <4>1. PICK ops : ops = Placing
        OBVIOUS
      <4>2. PICK m \in Nat, n \in Nat : m = Len(writes) /\ n = Len(ws)
        BY <1>1
      <4>3. /\ next \in 1..(m + 1) /\ Len(writes') = m + n /\ next' = next
            /\ Sets(writes'[m + k], d, ops) /\ k \in 1..n
            /\ \A j \in 1..n : j > k => ~Sets(writes'[m + j], d, ops)
        BY <1>1, <1>2, <2>2, <4>1, <4>2, Numbers DEF Sets
      <4>4. \E i \in Pending' : i = m + k /\ Final(i, d, ops)'
        BY <4>3, LastQueued
      <4>5. writes'[m + k] = ws[k]
        BY <1>1, <4>2
      <4> QED BY <4>1, <4>4, <4>5 DEF Final, Sets, Placing
    <3> QED BY <2>2, <3>1 DEF LotFollows
  <2> QED BY <2>1, <2>2
<1>6. MarkFollows(d)'
  <2>1. CASE MarkFollows(d) /\ seen'[d].status = seen[d].status /\ \A k \in 1..Len(ws) : ws[k].op \notin Marking
    <3>1. \A i \in DOMAIN writes' \ DOMAIN writes : ~Sets(writes'[i], d, Marking)
      BY <1>1, <2>1 DEF Sets
    <3>2. /\ \A i \in Pending : Final(i, d, Marking) => Final(i, d, Marking)'
          /\ Settled(d, Marking) => Settled(d, Marking)'
      BY <1>1, <1>2, <3>1, OthersQueued DEF Marking
    <3> QED BY <1>3, <2>1, <3>2 DEF MarkFollows
  <2>2. ASSUME NEW k \in 1..Len(ws), ws[k].op = "grade", ws[k].of = seen'[d].status,
               \A j \in 1..Len(ws) : j > k => ws[j].op \notin Marking
        PROVE  MarkFollows(d)'
    <3>1. ws[k].op \in Marking
      BY <2>2 DEF Marking
    <3>2. \E i \in Pending' : Final(i, d, Marking)' /\ writes'[i] = ws[k]
      <4>1. PICK ops : ops = Marking
        OBVIOUS
      <4>2. PICK m \in Nat, n \in Nat : m = Len(writes) /\ n = Len(ws)
        BY <1>1
      <4>3. /\ next \in 1..(m + 1) /\ Len(writes') = m + n /\ next' = next
            /\ Sets(writes'[m + k], d, ops) /\ k \in 1..n
            /\ \A j \in 1..n : j > k => ~Sets(writes'[m + j], d, ops)
        BY <1>1, <1>2, <2>2, <3>1, <4>1, <4>2, Numbers DEF Sets
      <4>4. \E i \in Pending' : i = m + k /\ Final(i, d, ops)'
        BY <4>3, LastQueued
      <4>5. writes'[m + k] = ws[k]
        BY <1>1, <4>2
      <4> QED BY <4>1, <4>4, <4>5 DEF Final, Sets, Marking
    <3> QED BY <2>2, <3>2 DEF MarkFollows
  <2> QED BY <2>1, <2>2
<1>7. Follows'
  BY <1>4, <1>5, <1>6 DEF Follows
<1>8. Origins'
  <2>1. \A e \in Devices : There(e)' <=> There(e)
    BY DEF There
  <2> QED
    BY <1>1, <2>1 DEF QuietFacts, Origins
<1>9. OneWriter'
  <2>1. \A s \in Requests : req[s].step # "idle" => req[s].write \in DOMAIN writes
    BY DEF UploadInv, FlightFacts
  <2> QED BY <1>1, <1>2, <2>1 DEF QuietFacts, OneWriter, Taken
<1> QED
  BY <1>2, <1>7, <1>8, <1>9 DEF QuietFacts, Alone, outside, stock

(* The forms keep the facts. *)
LEMMA ScansQuiet ==
  ASSUME UploadInv, UploadInv', QuietFacts, Scans
  PROVE  QuietFacts'
<1>1. /\ seen \in [Devices -> Place] /\ listed \subseteq Lots
      /\ \A d \in Devices : seen[d] # Absent => LotFollows(d) /\ MarkFollows(d)
  BY DEF UploadInv, TypeOK, QuietFacts, Follows
<1>2. ASSUME NEW ws, Queue(ws)
      PROVE  UNCHANGED device
  BY <1>2 DEF Queue, stock
<1>3. ASSUME NEW d \in Devices, NEW l \in Lots, ReceiveNew(d, l)
      PROVE  QuietFacts'
  <2> DEFINE a == Put("create", d, l, FALSE)
             b == Put("scan", d, NoLot, FALSE)
  <2>1. /\ a \in Write /\ b \in Write /\ a.op = "create" /\ a.device = d /\ a.lot = l
        /\ b.op = "scan" /\ b.device = d
    BY PutIsWrite, UploadAssumption DEF Ops, Homes, Put, Write
  <2>2. Queue(<<a, b>>)
    BY <1>3 DEF ReceiveNew
  <2>3. seen'[d].lot = l /\ seen'[d].status = seen[d].status /\ \A e \in Devices \ {d} : seen'[e] = seen[e]
    BY <1>1, <1>3 DEF ReceiveNew, Place
  <2>4. MarkFollows(d)
    <3>1. \A i \in Pending : ~Sets(writes[i], d, Marking)
      BY <1>3, Numbers DEF ReceiveNew, Sets
    <3>2. ~There(d) /\ device[d] = seen[d]
      BY <1>3 DEF ReceiveNew, QuietFacts, Origins
    <3> QED BY <3>1, <3>2 DEF MarkFollows, Settled
  <2> HIDE DEF a, b
  <2>5. <<a, b>> \in Seq(Write) /\ Len(<<a, b>>) = 2 /\ <<a, b>>[1] = a /\ <<a, b>>[2] = b
    BY <2>1
  <2>6. PICK ws \in Seq(Write) : ws = <<a, b>>
    BY <2>5
  <2>7. /\ Queue(ws) /\ Len(ws) = 2 /\ ws[1] = a /\ ws[2] = b
        /\ \A k \in 1..Len(ws) : k \in {1, 2}
    BY <2>2, <2>5, <2>6
  <2>8. /\ \A k \in 1..Len(ws) : ws[k].device = d /\ ws[k].op \notin Marking
        /\ 1 \in 1..Len(ws) /\ ws[1].op \in Placing /\ ws[1].lot = seen'[d].lot
        /\ \A j \in 1..Len(ws) : j > 1 => ws[j].op \notin Placing
    BY <2>1, <2>3, <2>7 DEF Placing, Marking
  <2> QED
    BY <1>2, <2>3, <2>4, <2>7, <2>8, FormFollows
<1>4. ASSUME NEW d \in Devices, NEW l \in Lots \cup {NoLot}, ScanKnown(d, l)
      PROVE  QuietFacts'
  <2> DEFINE a == Put("scan", d, NoLot, FALSE)
             b == Put("move", d, l, FALSE)
  <2>1. /\ a \in Write /\ b \in Write /\ a.op = "scan" /\ a.device = d
        /\ b.op = "move" /\ b.device = d /\ b.lot = l
    BY PutIsWrite, UploadAssumption DEF Ops, Homes, Put, Write
  <2>2. LotFollows(d) /\ MarkFollows(d)
    BY <1>1, <1>4 DEF ScanKnown
  <2>3. \/ Queue(<<a>>) /\ UNCHANGED seen
        \/ Queue(<<a, b>>) /\ seen' = [seen EXCEPT ![d].lot = l]
    BY <1>4 DEF ScanKnown
  <2> HIDE DEF a, b
  <2>4. CASE Queue(<<a>>) /\ UNCHANGED seen
    <3>0. <<a>> \in Seq(Write) /\ Len(<<a>>) = 1 /\ <<a>>[1] = a
      BY <2>1
    <3>1. PICK ws \in Seq(Write) : ws = <<a>>
      BY <3>0
    <3>2. Queue(ws) /\ Len(ws) = 1 /\ ws[1] = a /\ \A k \in 1..Len(ws) : k = 1
      BY <2>4, <3>0, <3>1
    <3>3. \A k \in 1..Len(ws) : ws[k].device = d /\ ws[k].op \notin Marking \cup Placing
      BY <2>1, <3>2 DEF Placing, Marking
    <3> QED
      BY <1>2, <2>2, <2>4, <3>2, <3>3, FormFollows
  <2>5. CASE Queue(<<a, b>>) /\ seen' = [seen EXCEPT ![d].lot = l]
    <3>1. <<a, b>> \in Seq(Write) /\ Len(<<a, b>>) = 2 /\ <<a, b>>[1] = a /\ <<a, b>>[2] = b
      BY <2>1
    <3>2. PICK ws \in Seq(Write) : ws = <<a, b>>
      BY <3>1
    <3>3. Queue(ws) /\ Len(ws) = 2 /\ ws[1] = a /\ ws[2] = b /\ \A k \in 1..Len(ws) : k \in {1, 2}
      BY <2>5, <3>1, <3>2
    <3>4. seen'[d].lot = l /\ seen'[d].status = seen[d].status /\ \A e \in Devices \ {d} : seen'[e] = seen[e]
      BY <1>1, <2>5 DEF Place
    <3>5. /\ \A k \in 1..Len(ws) : ws[k].device = d /\ ws[k].op \notin Marking
          /\ 2 \in 1..Len(ws) /\ ws[2].op \in Placing /\ ws[2].lot = seen'[d].lot
          /\ \A j \in 1..Len(ws) : j > 2 => ws[j].op \notin Placing
      BY <2>1, <3>3, <3>4 DEF Placing, Marking
    <3> QED
      BY <1>2, <2>2, <3>3, <3>4, <3>5, FormFollows
  <2> QED BY <2>3, <2>4, <2>5
<1>5. ASSUME NEW d \in Devices, NEW claim \in BOOLEAN, RecordAudit(d, claim)
      PROVE  QuietFacts'
  <2>1. PICK n : n = Len(writes) + 1
    OBVIOUS
  <2> DEFINE a == Put("audit", d, NoLot, claim)
             b == [Put("grade", d, NoLot, claim) EXCEPT !.of = n]
  <2>2. Queue(<<a, b>>) /\ seen' = [seen EXCEPT ![d].status = n] /\ seen[d] # Absent
    BY <1>5, <2>1 DEF RecordAudit
  <2>3. n \in Ids
    <3>1. Len(writes) \in Nat /\ MaxWrites \in Nat
      BY UploadAssumption, Numbers
    <3>2. Len(<<a, b>>) = 2
      BY DEF Put
    <3>3. Len(writes) + 2 <= MaxWrites
      BY <2>2, <3>2 DEF Queue
    <3> QED
      BY <3>1, <3>3, <2>1 DEF Ids
  <2>4. /\ a \in Write /\ b \in Write /\ a.op = "audit" /\ a.device = d
        /\ b.op = "grade" /\ b.device = d /\ b.of = n
    BY <2>3, PutIsWrite, UploadAssumption DEF Ops, Homes, Put, Write
  <2>5. LotFollows(d)
    BY <1>1, <2>2
  <2>6. seen'[d].lot = seen[d].lot /\ seen'[d].status = n /\ \A e \in Devices \ {d} : seen'[e] = seen[e]
    BY <1>1, <2>2 DEF Place
  <2> HIDE DEF a, b
  <2>7. <<a, b>> \in Seq(Write) /\ Len(<<a, b>>) = 2 /\ <<a, b>>[1] = a /\ <<a, b>>[2] = b
    BY <2>4
  <2>8. PICK ws \in Seq(Write) : ws = <<a, b>>
    BY <2>7
  <2>9. Queue(ws) /\ Len(ws) = 2 /\ ws[1] = a /\ ws[2] = b /\ \A k \in 1..Len(ws) : k \in {1, 2}
    BY <2>2, <2>7, <2>8
  <2>10. /\ \A k \in 1..Len(ws) : ws[k].device = d /\ ws[k].op \notin Placing
         /\ 2 \in 1..Len(ws) /\ ws[2].op = "grade" /\ ws[2].of = seen'[d].status
         /\ \A j \in 1..Len(ws) : j > 2 => ws[j].op \notin Marking
    BY <2>4, <2>6, <2>9 DEF Placing, Marking
  <2> QED
    BY <1>2, <2>5, <2>6, <2>9, <2>10, FormFollows
<1> QED
  BY <1>3, <1>4, <1>5 DEF Scans

-----------------------------------------------------------------------------
(* The upload *)

(* The phone takes the server's state, and shows that. *)
LEMMA SyncQuiet ==
  ASSUME UploadInv, UploadInv', QuietFacts, SyncDown
  PROVE  QuietFacts'
<1>1. /\ UNCHANGED <<writes, next, waits, req, stock, outside>> /\ next > Len(writes)
      /\ \A d \in Devices : seen'[d] \in {device[d], Absent}
  BY Numbers DEF SyncDown, Waiting
<1>2. Pending' = {} /\ device' = device
  BY <1>1, Numbers DEF Pending, stock
<1>3. Follows'
  BY <1>1, <1>2 DEF Follows, LotFollows, MarkFollows, Settled
<1>4. Origins' /\ Alone' /\ OneWriter'
  BY <1>1, <1>2 DEF QuietFacts, Origins, There, Alone, OneWriter, Taken, outside, stock
<1> QED
  BY <1>3, <1>4 DEF QuietFacts

(* A connection breaks with its upload answered, or the server starts again. *)
LEMMA TroubleQuiet ==
  ASSUME UploadInv, UploadInv', QuietFacts, ~crossed', BreakConnection \/ RestartServer
  PROVE  QuietFacts'
<1>1. UNCHANGED <<writes, next, seen, stock, outside>> /\ waits' = Nobody
  BY DEF BreakConnection, RestartServer, Trouble, outside
<1>2. Follows' /\ Origins'
  BY <1>1, SameView DEF QuietFacts, stock
<1>3. OneWriter'
  <2>1. CASE RestartServer
    BY <2>1, UploadAssumption DEF RestartServer, OneWriter, Idle
  <2>2. CASE BreakConnection
    <3>1. req' = req /\ waits # Nobody /\ req[waits].step \in {"ok", "failed"}
      BY <2>2 DEF BreakConnection
    <3>2. \A s \in Requests : req[s].step \notin {"check", "sanitise", "write"} /\ s # Nobody
      BY <3>1, UploadAssumption DEF QuietFacts, OneWriter
    <3> QED BY <1>1, <3>1, <3>2 DEF OneWriter
  <2> QED BY <2>1, <2>2
<1> QED
  BY <1>1, <1>2, <1>3 DEF QuietFacts, Alone, outside, stock

(* An upload starts: there was no other that may still write. *)
LEMMA StartQuiet ==
  ASSUME UploadInv, UploadInv', QuietFacts, NEW r \in Requests, UploadData(r)
  PROVE  QuietFacts'
<1>1. UNCHANGED <<writes, next, seen, stock, outside>> /\ waits = Nobody /\ waits' = r
  BY DEF UploadData
<1>2. Follows' /\ Origins'
  BY <1>1, SameView DEF QuietFacts, stock
<1>3. /\ req'[r].step = "check" /\ r # Nobody
      /\ \A s \in Requests \ {r} : req'[s] = req[s]
  BY UploadAssumption DEF UploadData, UploadInv, TypeOK, Idle
<1>4. \A s \in Requests : req[s].step \notin {"check", "sanitise", "write"}
  BY <1>1, UploadAssumption DEF QuietFacts, OneWriter
<1>5. OneWriter'
  BY <1>1, <1>3, <1>4 DEF OneWriter
<1> QED
  BY <1>1, <1>2, <1>5 DEF QuietFacts, Alone, outside, stock

(* The phone lets a write go that was answered 200: the server has what it sets. *)
LEMMA AnswerQuiet ==
  ASSUME UploadInv, UploadInv', QuietFacts, NEW r \in Requests, Answer(r)
  PROVE  QuietFacts'
<1>1. /\ UNCHANGED <<writes, seen, stock, outside>> /\ req[r].step \in {"ok", "failed"}
      /\ req'[r].step = "idle" /\ \A s \in Requests \ {r} : req'[s] = req[s]
  BY DEF Answer, UploadInv, TypeOK, Idle
<1>2. CASE ~Completes(r)
  <2>1. Follows' /\ Origins'
    BY <1>1, <1>2, SameView DEF QuietFacts, stock, Answer
  <2>2. waits' = IF waits = r THEN Nobody ELSE waits
    BY DEF Answer
  <2>3. OneWriter'
    BY <1>1, <2>2, UploadAssumption DEF QuietFacts, OneWriter, Taken, stock
  <2> QED
    BY <1>1, <2>1, <2>3 DEF QuietFacts, Alone, outside, stock
<1>3. CASE Completes(r)
  <2>1. next' = next + 1 /\ waits = r /\ waits' = Nobody /\ req[r].step = "ok" /\ device' = device
    BY <1>1, <1>3 DEF Answer, Completes, stock
  <2>2. req[r].write = next /\ next \in DOMAIN writes
    BY <2>1 DEF UploadInv, FlightFacts
  <2>3. PICK i \in Nat : i = next
    BY <2>2, Numbers
  <2>4. Taken(writes[i])
    BY <2>1, <2>2, <2>3 DEF QuietFacts, OneWriter
  <2>5. /\ Pending' = Pending \ {i} /\ i \in Pending
        /\ \A j \in Pending \ {i} : j > i
    BY <1>1, <2>1, <2>2, <2>3, Numbers DEF Pending
  <2>6. ASSUME NEW d, NEW ops
        PROVE  /\ \A j \in Pending \ {i} : Final(j, d, ops) => Final(j, d, ops)'
               /\ Final(i, d, ops) => Settled(d, ops)' /\ Sets(writes[i], d, ops)
               /\ Settled(d, ops) => Settled(d, ops)'
    BY <1>1, <2>5 DEF Final, Settled, Sets
  <2>7. ASSUME NEW d \in Devices, LotFollows(d)
        PROVE  LotFollows(d)'
    <3>1. CASE Settled(d, Placing) /\ device[d].lot = seen[d].lot
      BY <1>1, <2>1, <2>6, <3>1 DEF LotFollows, Placing
    <3>2. CASE Final(i, d, Placing) /\ writes[i].lot = seen[d].lot
      <4>1. device[d].lot = writes[i].lot
        BY <2>4, <3>2 DEF Taken, Final, Sets
      <4> QED BY <1>1, <2>1, <2>6, <3>2, <4>1 DEF LotFollows, Placing
    <3>3. ASSUME NEW j \in Pending \ {i}, Final(j, d, Placing), writes[j].lot = seen[d].lot
          PROVE  LotFollows(d)'
      BY <1>1, <2>5, <2>6, <3>3 DEF LotFollows, Placing
    <3> QED BY <2>7, <3>1, <3>2, <3>3 DEF LotFollows
  <2>8. ASSUME NEW d \in Devices, MarkFollows(d)
        PROVE  MarkFollows(d)'
    <3>1. CASE Settled(d, Marking) /\ device[d].status = seen[d].status
      BY <1>1, <2>1, <2>6, <3>1 DEF MarkFollows, Marking
    <3>2. CASE Final(i, d, Marking) /\ writes[i].op = "grade" /\ writes[i].of = seen[d].status
      <4>1. device[d].status = writes[i].of
        BY <2>4, <3>2 DEF Taken, Final, Sets
      <4> QED BY <1>1, <2>1, <2>6, <3>2, <4>1 DEF MarkFollows, Marking
    <3>3. ASSUME NEW j \in Pending \ {i}, Final(j, d, Marking), writes[j].op = "grade", writes[j].of = seen[d].status
          PROVE  MarkFollows(d)'
      BY <1>1, <2>5, <2>6, <3>3 DEF MarkFollows, Marking
    <3> QED BY <2>8, <3>1, <3>2, <3>3 DEF MarkFollows
  <2>9. Follows'
    BY <1>1, <2>7, <2>8 DEF QuietFacts, Follows
  <2>10. OneWriter'
    BY <1>1, <2>1, UploadAssumption DEF QuietFacts, OneWriter
  <2> QED
    BY <1>1, <2>1, <2>9, <2>10 DEF QuietFacts, Alone, Origins, There, outside, stock
<1> QED BY <1>2, <1>3

(* The checks pass a write on with its lot; the only ones they answer 200 for without
   writing it are of a row that is there. *)
LEMMA CheckQuiet ==
  ASSUME UploadInv, UploadInv', QuietFacts, NEW r \in Requests, Check(r)
  PROVE  QuietFacts'
<1>1. PICK i \in DOMAIN writes : i = req[r].write /\ Entry(r) = writes[i]
  BY UploadOf DEF Check
<1>2. /\ req[r].step = "check" /\ waits = r /\ req \in [Requests -> Flight]
      /\ UNCHANGED <<phone, device, outside, crossed>>
  BY DEF Check, QuietFacts, OneWriter, UploadInv, TypeOK
<1>3. ~Ungranted(writes[i])
  BY DEF Ungranted, QuietFacts, Alone
<1>4. /\ \A s \in Requests \ {r} : req'[s] = req[s]
      /\ req'[r].write = i
      /\ req'[r].step \in {"sanitise", "write"} => req'[r].lot = writes[i].lot
      /\ req'[r].step = "ok" => writes[i].op \notin OnDevice
      /\ refused' = refused
  <2>1. CASE Goto(r, "failed") /\ UNCHANGED refused
    BY <1>1, <1>2, <2>1 DEF Goto, Flight
  <2>2. CASE Skipped(i) /\ Goto(r, "ok") /\ UNCHANGED refused
    BY <1>1, <1>2, <2>2 DEF Goto, Skipped, Flight
  <2>3. ASSUME UNCHANGED refused, NEW step \in {"sanitise", "write"},
               req' = [req EXCEPT ![r].trimmed = Trims(Entry(r)), ![r].lot = Entry(r).lot, ![r].step = step]
        PROVE  <1>4!:
    <3>1. PICK trimmed, l : trimmed = Trims(Entry(r)) /\ l = Entry(r).lot
      OBVIOUS
    <3>2. req' = [req EXCEPT ![r].trimmed = trimmed, ![r].lot = l, ![r].step = step]
      BY <2>3, <3>1
    <3> QED
      BY <1>1, <1>2, <2>3, <3>1, <3>2 DEF Flight
  <2>4. \/ Goto(r, "failed") /\ UNCHANGED refused
        \/ Skipped(i) /\ Goto(r, "ok") /\ UNCHANGED refused
        \/ UNCHANGED refused /\ \E step \in {"sanitise", "write"} :
             req' = [req EXCEPT ![r].trimmed = Trims(Entry(r)), ![r].lot = Entry(r).lot, ![r].step = step]
    BY <1>1, <1>3 DEF Check
  <2> QED
    BY <1>1, <2>1, <2>2, <2>3, <2>4
<1>5. Follows' /\ Origins'
  BY <1>2, SameView DEF QuietFacts, phone
<1>6. req'[r].step = "ok" => Taken(writes[req[r].write])'
  BY <1>1, <1>2, <1>4 DEF Taken, Placing, OnDevice, phone
<1>7. OneWriter'
  BY <1>1, <1>2, <1>4, <1>6, OneMoves DEF QuietFacts, phone
<1> QED
  BY <1>2, <1>4, <1>5, <1>7 DEF QuietFacts, Alone, outside

(* No lot is gone, so none is taken out. *)
LEMMA SanitizeQuiet ==
  ASSUME UploadInv, UploadInv', QuietFacts, NEW r \in Requests, SanitizeAssetFks(r)
  PROVE  QuietFacts'
<1>1. PICK i \in DOMAIN writes : i = req[r].write
  BY UploadOf DEF SanitizeAssetFks
<1>2. /\ req[r].step = "sanitise" /\ waits = r /\ req[r].lot = writes[i].lot
      /\ req \in [Requests -> Flight] /\ UNCHANGED <<phone, stock, outside, crossed>>
  BY <1>1 DEF SanitizeAssetFks, QuietFacts, OneWriter, UploadInv, TypeOK
<1>3. Kept(req[r].lot)
  BY DEF Kept, QuietFacts, Alone
<1>4. /\ \A s \in Requests \ {r} : req'[s] = req[s]
      /\ req'[r].write = i /\ req'[r].lot = writes[i].lot /\ req'[r].step = "write"
  <2>1. req' = [req EXCEPT ![r].step = "write", ![r].lot = req[r].lot]
    BY <1>2, <1>3 DEF SanitizeAssetFks, Flight
  <2> QED BY <1>1, <1>2, <2>1 DEF Flight
<1>5. Follows' /\ Origins'
  BY <1>2, SameView DEF QuietFacts, phone, stock
<1>6. OneWriter'
  BY <1>1, <1>2, <1>4, OneMoves DEF QuietFacts, phone
<1> QED
  BY <1>2, <1>5, <1>6 DEF QuietFacts, Alone, outside, stock

(* The write of the upload that the phone waits for. *)
LEMMA WriterOf ==
  ASSUME UploadInv, QuietFacts, NEW r \in Requests, req[r].step = "write"
  PROVE  \E i \in DOMAIN writes, d \in Devices :
           /\ i = req[r].write /\ i = next /\ Entry(r) = writes[i] /\ d = writes[i].device
           /\ waits = r /\ req[r].lot = writes[i].lot /\ writes[i].lot \in Homes
           /\ writes[i].of \in Ids \cup {0} /\ LotStands(req[r].lot)
           /\ writes[i].op # "create" => There(d)
<1>1. PICK i \in DOMAIN writes : i = req[r].write /\ Entry(r) = writes[i]
  BY UploadOf
<1>2. waits = r /\ req[r].lot = writes[i].lot
  BY <1>1 DEF QuietFacts, OneWriter
<1>3. i = next
  BY <1>1, <1>2 DEF UploadInv, FlightFacts
<1>4. LotStands(req[r].lot)
  BY DEF LotStands, QuietFacts, Alone
<1>5. writes[i].op # "create" => There(writes[i].device)
  <2>1. i <= next
    BY <1>3, Numbers
  <2> QED BY <2>1, GoneIsDeleted DEF QuietFacts, Alone
<1> QED
  BY <1>1, <1>2, <1>3, <1>4, <1>5, WriteFields DEF UploadInv

(* The conclusion of every write of the upload that the phone waits for. *)
LEMMA WriteQuiet ==
  ASSUME UploadInv, UploadInv', QuietFacts, NEW r \in Requests, NEW i \in DOMAIN writes,
         i = req[r].write, waits = r, UNCHANGED <<phone, refused, outside, crossed>>, Follows', Origins',
         NEW step \in {"ok", "failed"}, Goto(r, step), step = "ok" => Taken(writes[i])'
  PROVE  QuietFacts'
<1>1. /\ req'[r].write = i /\ req'[r].step = step
      /\ \A s \in Requests \ {r} : req'[s] = req[s]
  BY GotoEffect
<1>2. req'[r].step = "ok" => Taken(writes[req[r].write])'
  BY <1>1 DEF Taken, phone
<1>3. OneWriter'
  BY <1>1, <1>2, OneMoves DEF QuietFacts, phone
<1> QED
  BY <1>3 DEF QuietFacts, Alone, outside

(* A new device is put where the phone put it. *)
LEMMA WriteDeviceQuiet ==
  ASSUME UploadInv, UploadInv', QuietFacts, NEW r \in Requests, WriteDevice(r)
  PROVE  QuietFacts'
<1>1. PICK i \in DOMAIN writes, d \in Devices :
        /\ i = req[r].write /\ i = next /\ Entry(r) = writes[i] /\ d = writes[i].device
        /\ waits = r /\ req[r].lot = writes[i].lot /\ writes[i].lot \in Homes
  BY WriterOf DEF WriteDevice
<1>2. /\ writes[i].op = "create" /\ device \in [Devices -> Place]
      /\ UNCHANGED <<phone, refused, outside, crossed>>
  BY <1>1 DEF WriteDevice, UploadInv, TypeOK
<1>3. CASE Goto(r, "ok") /\ device' = [device EXCEPT ![d].lot = writes[i].lot]
  <2>1. Follows' /\ Origins'
    BY <1>1, <1>2, <1>3, DeviceSet DEF Placing, QuietFacts, phone
  <2>2. device'[d].lot = writes[i].lot
    BY <1>2, <1>3 DEF Place
  <2>3. Taken(writes[i])'
    BY <1>1, <1>2, <2>2 DEF Taken, phone
  <2> QED BY <1>1, <1>2, <1>3, <2>1, <2>3, WriteQuiet
<1>4. CASE Goto(r, "failed") /\ device' = device
  <2>1. Follows' /\ Origins'
    BY <1>2, <1>4, SameView DEF QuietFacts, phone
  <2> QED BY <1>1, <1>2, <1>4, <2>1, WriteQuiet
<1> QED BY <1>1, <1>3, <1>4 DEF WriteDevice

(* A device that is moved or graded is there, and so is the lot. *)
LEMMA PatchDeviceQuiet ==
  ASSUME UploadInv, UploadInv', QuietFacts, NEW r \in Requests, PatchDevice(r)
  PROVE  QuietFacts'
<1>1. PICK i \in DOMAIN writes, d \in Devices :
        /\ i = req[r].write /\ i = next /\ Entry(r) = writes[i] /\ d = writes[i].device
        /\ waits = r /\ req[r].lot = writes[i].lot /\ writes[i].lot \in Homes
        /\ writes[i].of \in Ids \cup {0} /\ LotStands(req[r].lot)
        /\ writes[i].op # "create" => There(d)
  BY WriterOf DEF PatchDevice
<1>2. /\ writes[i].op \in {"move", "grade"} /\ device \in [Devices -> Place] /\ There(d)
      /\ UNCHANGED <<phone, refused, outside, crossed>>
  BY <1>1 DEF PatchDevice, UploadInv, TypeOK
<1>3. /\ Goto(r, "ok")
      /\ \/ writes[i].op = "move" /\ device' = [device EXCEPT ![d].lot = writes[i].lot]
         \/ writes[i].op = "grade" /\ device' = [device EXCEPT ![d].status = writes[i].of]
  BY <1>1, <1>2 DEF PatchDevice, Moved
<1>4. CASE writes[i].op = "move" /\ device' = [device EXCEPT ![d].lot = writes[i].lot]
  <2>1. Follows' /\ Origins'
    BY <1>1, <1>2, <1>4, DeviceSet DEF Placing, QuietFacts, phone
  <2>2. device'[d].lot = writes[i].lot
    BY <1>2, <1>4 DEF Place
  <2>3. Taken(writes[i])'
    BY <1>1, <1>2, <1>4, <2>2 DEF Taken, phone
  <2> QED BY <1>1, <1>2, <1>3, <2>1, <2>3, WriteQuiet
<1>5. CASE writes[i].op = "grade" /\ device' = [device EXCEPT ![d].status = writes[i].of]
  <2>1. Follows' /\ Origins'
    BY <1>1, <1>2, <1>5, DeviceSet DEF Marking, QuietFacts, phone
  <2>2. device'[d].status = writes[i].of
    BY <1>2, <1>5 DEF Place
  <2>3. Taken(writes[i])'
    BY <1>1, <1>2, <1>5, <2>2 DEF Taken, Placing, phone
  <2> QED BY <1>1, <1>2, <1>3, <2>1, <2>3, WriteQuiet
<1> QED BY <1>3, <1>4, <1>5

(* A scan's row says nothing of where a device is. *)
LEMMA WriteEventQuiet ==
  ASSUME UploadInv, UploadInv', QuietFacts, NEW r \in Requests, WriteEvent(r)
  PROVE  QuietFacts'
<1>1. PICK i \in DOMAIN writes :
        i = req[r].write /\ Entry(r) = writes[i] /\ waits = r
  BY WriterOf DEF WriteEvent
<1>2. /\ writes[i].op = "scan" /\ UNCHANGED <<phone, device, refused, outside, crossed>>
      /\ \E step \in {"ok", "failed"} : Goto(r, step)
  BY <1>1 DEF WriteEvent
<1>3. Follows' /\ Origins'
  BY <1>2, SameView DEF QuietFacts, phone
<1>4. Taken(writes[i])'
  BY <1>2 DEF Taken, Placing, phone
<1> QED BY <1>1, <1>2, <1>3, <1>4, WriteQuiet

(* The status an audit sets is set again by the grade that follows it. *)
LEMMA WriteAuditQuiet ==
  ASSUME UploadInv, UploadInv', QuietFacts, NEW r \in Requests, WriteAudit(r)
  PROVE  QuietFacts'
<1>1. PICK i \in DOMAIN writes, d \in Devices :
        /\ i = req[r].write /\ i = next /\ Entry(r) = writes[i] /\ d = writes[i].device
        /\ (waits = r) /\ (writes[i].op # "create" => There(d))
  BY WriterOf DEF WriteAudit
<1>2. /\ writes[i].op = "audit" /\ i \in Ids /\ There(d) /\ waits = r
      /\ UNCHANGED <<phone, refused, outside, crossed>>
      /\ device' = device \/ device' = [device EXCEPT ![d].status = i]
      /\ \E step \in {"ok", "failed"} : Goto(r, step)
  BY <1>1, WriteFields DEF WriteAudit, UploadInv
<1>3. Follows' /\ Origins'
  <2>1. CASE device' = device
    BY <1>2, <2>1, SameView DEF QuietFacts, phone
  <2>2. CASE device' = [device EXCEPT ![d].status = i]
    BY <1>1, <1>2, <2>2, DeviceSet DEF Marking, QuietFacts, phone
  <2> QED BY <1>2, <2>1, <2>2
<1>4. Taken(writes[i])'
  BY <1>2 DEF Taken, Placing, phone
<1> QED BY <1>1, <1>2, <1>3, <1>4, WriteQuiet

(* Anybody else's act ends the phone's being alone. *)
LEMMA OthersEnd == ASSUME UploadInv, Others PROVE others' # 0
<1>1. others \in Nat
  BY UploadAssumption DEF UploadInv, TypeOK
<1>2. \E flag \in Flags : Someone(flag)
  BY DEF Others, DeleteDevice, Refile, DeleteLot, ReassignLot, Regrant, Flags
<1> QED
  BY <1>1, <1>2 DEF Someone

(* The facts hold when the phone goes offline. *)
LEMMA QuietInit == Init => QuietInv
<1> SUFFICES ASSUME Init PROVE QuietFacts
  BY DEF QuietInv
<1>1. seen = device /\ writes = <<>> /\ DOMAIN writes = {} /\ Len(writes) = 0 /\ next = 1
  BY EmptySeq DEF Init
<1>2. Pending = {}
  BY <1>1 DEF Pending
<1>3. Follows
  BY <1>1, <1>2 DEF Follows, LotFollows, MarkFollows, Settled
<1>4. Origins
  <2>1. \A d \in Devices : device[d] = IF d \in Stocked THEN [Absent EXCEPT !.lot = FirstLot] ELSE Absent
    BY DEF Init
  <2> QED BY <1>1, <2>1, UploadAssumption DEF Origins, There, Absent, Init
<1>5. Alone /\ OneWriter
  BY UploadAssumption DEF Init, Alone, OneWriter, Idle
<1> QED BY <1>3, <1>4, <1>5 DEF QuietFacts

(* Every step keeps them, or somebody else's hand shows. *)
LEMMA QuietNext == UploadInv /\ UploadInv' /\ QuietInv /\ [Next]_vars => QuietInv'
<1> SUFFICES ASSUME UploadInv, UploadInv', QuietInv, [Next]_vars, Undisturbed'
             PROVE  QuietFacts'
  BY DEF QuietInv
<1>1. CASE Others
  BY <1>1, OthersEnd DEF Undisturbed
<1>2. CASE ~Others
  <2>1. UNCHANGED others /\ (crossed => crossed')
    <3>1. CASE BreakConnection
      BY <3>1 DEF BreakConnection, outside
    <3>2. CASE RestartServer
      BY <3>2 DEF RestartServer, outside
    <3>3. CASE Scans
      <4>1. \E ws : Queue(ws)
        BY <3>3 DEF Scans, ReceiveNew, ScanKnown, RecordAudit
      <4> QED BY <4>1 DEF Queue, outside
    <3>4. CASE SyncDown
      BY <3>4 DEF SyncDown, outside
    <3>5. ASSUME NEW r \in Requests, Upload(r)
          PROVE  others' = others /\ (crossed => crossed')
      BY <3>5 DEF Upload, UploadData, Answer, Check, SanitizeAssetFks, WriteDevice, PatchDevice,
                  WriteEvent, WriteAudit, outside
    <3>6. CASE UNCHANGED vars
      BY <3>6 DEF vars, outside
    <3> QED
      BY <1>2, <3>1, <3>2, <3>3, <3>4, <3>5, <3>6 DEF Next
  <2>2. QuietFacts /\ ~crossed'
    BY <2>1 DEF QuietInv, Undisturbed
  <2>3. CASE Scans
    BY <2>2, <2>3, ScansQuiet
  <2>4. CASE SyncDown
    BY <2>2, <2>4, SyncQuiet
  <2>5. CASE BreakConnection \/ RestartServer
    BY <2>2, <2>5, TroubleQuiet
  <2>6. ASSUME NEW r \in Requests, Upload(r)
        PROVE  QuietFacts'
    BY <2>2, <2>6, StartQuiet, AnswerQuiet, CheckQuiet, SanitizeQuiet, WriteDeviceQuiet,
       PatchDeviceQuiet, WriteEventQuiet, WriteAuditQuiet DEF Upload
  <2>7. CASE UNCHANGED vars
    <3>1. UNCHANGED <<phone, stock, outside>> /\ req' = req
      BY <2>7 DEF vars
    <3>2. Follows' /\ Origins'
      BY <2>2, <3>1, SameView DEF QuietFacts, phone, stock
    <3>3. OneWriter' /\ Alone'
      BY <2>2, <3>1 DEF QuietFacts, OneWriter, Taken, Alone, phone, stock, outside
    <3> QED BY <3>2, <3>3 DEF QuietFacts
  <2> QED
    BY <1>2, <2>3, <2>4, <2>5, <2>6, <2>7 DEF Next
<1> QED BY <1>1, <1>2

(* connector.ts, screen() and applyBatch: when nothing waits, nobody else had a hand in it
   and no upload outlived its connection, the server's devices are where the phone put
   them, with the outcome of the phone's last audit. *)
THEOREM PhoneAndServerAgree == Spec => []QuietAgrees
<1>1. Init => QuietInv
  BY QuietInit
<1>2. UploadInv /\ UploadInv' /\ QuietInv /\ [Next]_vars => QuietInv'
  BY QuietNext
<1>3. UploadInv /\ QuietInv => QuietAgrees
  <2> SUFFICES ASSUME UploadInv, QuietInv, ~Waiting, others = 0, ~crossed,
                      NEW d \in Devices, seen[d] # Absent
               PROVE  seen[d] = device[d]
    BY DEF QuietAgrees
  <2>1. Pending = {}
    BY Numbers DEF Waiting, Pending
  <2>2. LotFollows(d) /\ MarkFollows(d)
    BY DEF QuietInv, QuietFacts, Undisturbed, Follows
  <2>3. device[d].lot = seen[d].lot /\ device[d].status = seen[d].status
    BY <2>1, <2>2 DEF LotFollows, MarkFollows
  <2>4. device[d] \in Place /\ seen[d] \in Place
    BY DEF UploadInv, TypeOK
  <2> QED
    BY <2>3, <2>4 DEF Place
<1> QED
  BY <1>1, <1>2, <1>3, UploadInvariant, PTL DEF Spec

=============================================================================
