---------------------------- MODULE StationProofs ----------------------------
(***************************************************************************)
(* A station, for any number of wipes, drives, restarts, power cuts and    *)
(* troubles.  No wipe is forgotten: StationInv is inductive, and gives     *)
(* WipesAreKept, QueueForgetsNothing and LastTraceWatched.  A wipe has one *)
(* outcome on a sound stick: VerdictInv is inductive, and gives OneVerdict.*)
(* The station with its engines is a station of StationQueue, so all this  *)
(* holds of it too; what it calls wiped is erased, and what that leaves on *)
(* the drive is named.                                                     *)
(***************************************************************************)
EXTENDS Station, TLAPS

-----------------------------------------------------------------------------
(* No wipe is forgotten *)

Marked(w) == \E m \in Pending : m.wipe = w

Recorded(w) == \E r \in Made : r.wipe = w

\* Nothing was lost with the RAM.
Whole == world = "sound" \/ (world = "refuses" /\ ~cut)

\* What the world says of the stick.
StickFacts ==
  /\ world = "sound" => takes /\ ram.queue = {} /\ ram.pending = {}
  /\ world # "unreadable" => reads = Files

\* A process that is not up has no wipe of its own.
ProcessFacts ==
  /\ \A w \in Wipes : job[w].phase = "idle" => job[w] = Idle
  /\ \A w \in Wipes : job[w].phase \in {"final", "failed", "kept"} => job[w].out \in Outcomes
  /\ \A w \in Wipes : job[w].phase = "ended" => job[w].out \in Outcomes \cup {"refused"}
  /\ status # "up" => \A w \in Wipes : job[w].phase \in {"idle", "done", "lost"}

\* What a thread is about to take off the stick is recorded elsewhere.
ThreadFacts ==
  /\ flush.done \subseteq server
  /\ \A w \in recovery.filed : Recorded(w)
  /\ \A w \in Wipes : job[w].phase = "kept" => Recorded(w)

\* Where the trace of a wipe is, by how far the wipe got.
TraceFacts ==
  Whole => \A w \in Wipes :
    /\ job[w].phase \in {"running", "ended", "final", "failed"} => Marked(w)
    /\ job[w].phase = "done" /\ job[w].out # "refused" => Recorded(w)
    /\ job[w].phase = "lost" => Marked(w) \/ Recorded(w)

StationInv == TypeOK /\ StickFacts /\ ProcessFacts /\ ThreadFacts /\ TraceFacts

-----------------------------------------------------------------------------
(* The two files *)

Grows == stick.queue \subseteq stick'.queue /\ Waiting \subseteq Waiting'

\* The queue files are left alone, or the marker files.
QueueAlone == stick'.queue = stick.queue /\ ram'.queue = ram.queue

MarkersAlone == stick'.pending = stick.pending /\ ram'.pending = ram.pending

DiskType == stick \in File(Records, Markers) /\ ram \in File(Records, Markers)

(* queue_add keeps the record, overwrites nothing, and on a sound stick leaves
   nothing in RAM. *)
LEMMA QueueAddEffect ==
  ASSUME TypeOK, NEW r \in Records, QueueAdd(r)
  PROVE  /\ DiskType' /\ MarkersAlone /\ Grows
         /\ r \in Waiting' /\ Waiting' \subseteq Waiting \cup {r}
         /\ takes /\ reads = Files => ram'.queue = {}
<1>1. DiskType
  BY DEF TypeOK, DiskType
<1>2. CASE "queue" \in reads /\ takes
  <2>1. /\ stick' = [stick EXCEPT !["queue"] = stick.queue \cup ram.queue \cup {r}]
        /\ ram' = [ram EXCEPT !["queue"] = {}]
    BY <1>2 DEF QueueAdd, Store
  <2> QED BY <1>1, <2>1 DEF DiskType, File, MarkersAlone, Grows, Waiting
<1>3. CASE "queue" \in reads /\ ~takes
  <2>1. /\ ram' = [ram EXCEPT !["queue"] = stick.queue \cup ram.queue \cup {r}]
        /\ stick' = stick
    BY <1>3 DEF QueueAdd, Store
  <2> QED BY <1>1, <1>3, <2>1 DEF DiskType, File, MarkersAlone, Grows, Waiting
<1>4. CASE "queue" \notin reads
  <2>1. ram' = [ram EXCEPT !.queue = @ \cup {r}] /\ stick' = stick
    BY <1>4 DEF QueueAdd
  <2> QED BY <1>1, <1>4, <2>1 DEF DiskType, File, MarkersAlone, Grows, Waiting, Files
<1> QED BY <1>2, <1>3, <1>4

(* The flush takes out of the queue what was sent, and nothing else. *)
LEMMA FlushEndEffect ==
  ASSUME TypeOK, FlushEnd
  PROVE  /\ DiskType' /\ MarkersAlone
         /\ Waiting \ flush.done \subseteq Waiting' /\ Waiting' \subseteq Waiting
         /\ stick.queue \ flush.done \subseteq stick'.queue
         /\ takes /\ reads = Files => ram'.queue = {}
<1>1. DiskType
  BY DEF TypeOK, DiskType
<1>2. CASE "queue" \in reads /\ takes
  <2>1. /\ stick' = [stick EXCEPT !["queue"] = (stick.queue \cup ram.queue) \ flush.done]
        /\ ram' = [ram EXCEPT !["queue"] = {}]
    BY <1>2 DEF FlushEnd, Store
  <2> QED BY <1>1, <2>1 DEF DiskType, File, MarkersAlone, Waiting
<1>3. CASE "queue" \in reads /\ ~takes
  <2>1. /\ ram' = [ram EXCEPT !["queue"] = (stick.queue \cup ram.queue) \ flush.done]
        /\ stick' = stick
    BY <1>3 DEF FlushEnd, Store
  <2> QED BY <1>1, <1>3, <2>1 DEF DiskType, File, MarkersAlone, Waiting
<1>4. CASE "queue" \notin reads
  <2>1. ram' = ram /\ stick' = stick
    BY <1>4 DEF FlushEnd, disk
  <2> QED BY <1>1, <1>4, <2>1 DEF DiskType, File, MarkersAlone, Waiting, Files
<1> QED BY <1>2, <1>3, <1>4

(* A rewrite of the markers leaves the queue alone, and markers that could not be
   read in full; on a stick that refuses it the old ones stay too. *)
LEMMA MarkerEffect ==
  ASSUME TypeOK, NEW items \in SUBSET Markers, PendingUpdate(items)
  PROVE  /\ DiskType' /\ QueueAlone
         /\ stick'.pending \in {stick.pending, items}
         /\ "pending" \in reads => items \subseteq Pending'
         /\ Pending' \subseteq items \cup Pending
         /\ takes /\ reads = Files => stick'.pending = items /\ ram'.pending = {}
<1>1. DiskType
  BY DEF TypeOK, DiskType
<1>2. CASE "pending" \in reads /\ takes
  <2>1. /\ stick' = [stick EXCEPT !["pending"] = items]
        /\ ram' = [ram EXCEPT !["pending"] = {}]
    BY <1>2 DEF PendingUpdate, Store
  <2> QED BY <1>1, <2>1 DEF DiskType, File, QueueAlone, Pending
<1>3. CASE "pending" \in reads /\ ~takes
  <2>1. ram' = [ram EXCEPT !["pending"] = items] /\ stick' = stick
    BY <1>3 DEF PendingUpdate, Store
  <2> QED BY <1>1, <1>3, <2>1 DEF DiskType, File, QueueAlone, Pending
<1>4. CASE "pending" \notin reads
  <2>1. ram' = ram /\ stick' = stick
    BY <1>4 DEF PendingUpdate, disk
  <2> QED BY <1>1, <1>4, <2>1 DEF DiskType, File, QueueAlone, Pending, Files
<1> QED BY <1>2, <1>3, <1>4

-----------------------------------------------------------------------------
(* The steps of a wipe *)

(* A record that was made stays made. *)
LEMMA RecordedStays ==
  ASSUME Made \subseteq Made', NEW w, Recorded(w)
  PROVE  Recorded(w)'
BY DEF Recorded

(* What a step has to show that takes wipe w to its next phase. *)
LEMMA WipeTurns ==
  ASSUME StationInv, NEW w \in Wipes, NEW j, Made \subseteq Made',
         job' = [job EXCEPT ![w] = j],
         j \in [phase: Phases \ {"idle", "lost"}, out: Outcomes \cup {"none", "refused"}],
         job[w].phase \notin {"done", "lost"}, status = "up" \/ job[w].phase # "idle",
         j.phase \in {"final", "failed", "kept"} => j.out \in Outcomes,
         j.phase = "ended" => j.out \in Outcomes \cup {"refused"},
         UNCHANGED <<takes, reads, status, flush, recovery, world, cut>>,
         Whole => ram'.queue = {} \/ world # "sound",
         Whole => ram'.pending = {} \/ world # "sound",
         \A v \in Wipes \ {w} : Whole => (Marked(v) => Marked(v)'),
         Whole /\ j.phase \in {"running", "ended", "final", "failed"} => Marked(w)',
         j.phase = "kept" \/ (j.phase = "done" /\ j.out # "refused") => Recorded(w)'
  PROVE  StickFacts' /\ ProcessFacts' /\ (flush.done \subseteq server' => ThreadFacts') /\ TraceFacts'
<1> USE DEF StationInv
<1>0. job \in [Wipes -> [phase: Phases, out: Outcomes \cup {"none", "refused"}]]
  BY DEF TypeOK
<1>1. job'[w] = j /\ \A v \in Wipes \ {w} : job'[v] = job[v]
  BY <1>0
<1>2. status = "up"
  BY <1>0 DEF ProcessFacts
<1>3. StickFacts'
  BY DEF StickFacts, Whole
<1>4. ProcessFacts'
  BY <1>1, <1>2 DEF ProcessFacts
<1>5. \A v : Recorded(v) => Recorded(v)'
  BY RecordedStays
<1>6. flush.done \subseteq server' => ThreadFacts'
  BY <1>1, <1>5 DEF ThreadFacts
<1>7. TraceFacts'
  BY <1>1, <1>5 DEF TraceFacts, Whole
<1> QED BY <1>3, <1>4, <1>6, <1>7

(* Turn leaves the outcome as it is. *)
LEMMA TurnEffect ==
  ASSUME TypeOK, NEW w \in Wipes, NEW p, Turn(w, p)
  PROVE  job' = [job EXCEPT ![w] = [phase |-> p, out |-> job[w].out]]
<1>1. job[w] \in [phase: Phases, out: Outcomes \cup {"none", "refused"}]
  BY DEF TypeOK
<1>2. [job[w] EXCEPT !.phase = p] = [phase |-> p, out |-> job[w].out]
  BY <1>1
<1> QED BY <1>2 DEF Turn

(* The steps that rewrite the markers: those of the other wipes are kept, and that
   of w too until the engine wrote nothing or its record is kept elsewhere. *)
LEMMA MarkerTurn ==
  ASSUME StationInv, NEW w \in Wipes, NEW j, NEW items \in SUBSET Markers, PendingUpdate(items),
         job' = [job EXCEPT ![w] = j],
         j \in [phase: {"running", "final", "done"}, out: Outcomes \cup {"none", "refused"}],
         job[w].phase \notin {"done", "lost"}, status = "up" \/ job[w].phase # "idle",
         j.phase = "final" => j.out \in Outcomes,
         UNCHANGED <<env, status, flush, recovery, refused, server>>,
         \A v \in Wipes \ {w} : Marked(v) => \E m \in items : m.wipe = v,
         Whole /\ j.phase \in {"running", "final"} => \E m \in items : m.wipe = w,
         j.phase = "done" /\ j.out # "refused" => Recorded(w)
  PROVE  StationInv'
<1> USE DEF StationInv
<1>1. /\ DiskType' /\ QueueAlone
      /\ "pending" \in reads => items \subseteq Pending'
      /\ takes /\ reads = Files => ram'.pending = {}
  BY MarkerEffect
<1>2. Made' = Made
  BY <1>1 DEF QueueAlone, Made, Waiting
<1>3. Whole => /\ items \subseteq Pending'
               /\ world = "sound" => ram'.queue = {} /\ ram'.pending = {}
  BY <1>1 DEF StickFacts, Whole, Files, QueueAlone
<1>4. \A v \in Wipes : Whole /\ (\E m \in items : m.wipe = v) => Marked(v)'
  BY <1>3 DEF Marked
<1>5. StickFacts' /\ ProcessFacts' /\ ThreadFacts' /\ TraceFacts'
  <2>1. j \in [phase: Phases \ {"idle", "lost"}, out: Outcomes \cup {"none", "refused"}]
    BY DEF Phases
  <2>2. Recorded(w) => Recorded(w)'
    BY <1>2, RecordedStays
  <2>3. UNCHANGED <<takes, reads, status, flush, recovery, world, cut, server>>
    BY DEF env
  <2>4. flush.done \subseteq server'
    BY <2>3 DEF ThreadFacts
  <2> QED BY <1>2, <1>3, <1>4, <2>1, <2>2, <2>3, <2>4, WipeTurns
<1>6. TypeOK'
  <2>1. job' \in [Wipes -> [phase: Phases, out: Outcomes \cup {"none", "refused"}]]
    BY DEF TypeOK, Phases
  <2> QED BY <1>1, <2>1 DEF TypeOK, DiskType, env
<1> QED BY <1>5, <1>6

(* A step of one wipe keeps the invariant. *)
LEMMA WipeInv ==
  ASSUME StationInv, NEW w \in Wipes, Wipe(w)
  PROVE  StationInv'
<1> USE DEF StationInv
<1>0. /\ job \in [Wipes -> [phase: Phases, out: Outcomes \cup {"none", "refused"}]]
      /\ Pending \in SUBSET Markers
  BY DEF TypeOK, File, Pending
<1>1. CASE StartWipe(w)
  <2> DEFINE items == Pending \cup {[wipe |-> w, final |-> "none"]}
             j == [phase |-> "running", out |-> "none"]
  <2>0. PendingUpdate(items)
    BY <1>1 DEF StartWipe, PendingAdd
  <2>1. /\ status = "up" /\ job[w] = Idle
        /\ UNCHANGED <<env, status, flush, recovery, refused, server>>
        /\ Turn(w, "running")
    BY <1>1, Zenon DEF StartWipe
  <2>5. job' = [job EXCEPT ![w] = j] /\ job[w].phase = "idle"
    BY <2>1, TurnEffect DEF Idle
  <2>2. items \in SUBSET Markers
    BY <1>0 DEF Markers
  <2>6. \E m \in items : m.wipe = w
    <3>1. [wipe |-> w, final |-> "none"] \in items
      OBVIOUS
    <3> QED BY <3>1
  <2>3. \A v \in Wipes : Marked(v) => \E m \in items : m.wipe = v
    BY DEF Marked
  <2>4. j \in [phase: {"running", "final", "done"}, out: Outcomes \cup {"none", "refused"}]
    OBVIOUS
  <2> HIDE DEF items
  <2> QED BY <2>0, <2>1, <2>2, <2>3, <2>4, <2>5, <2>6, MarkerTurn
<1>2. CASE EngineEnds(w)
  <2>1. PICK out \in Outcomes \cup {"refused"} : job' = [job EXCEPT ![w] = [phase |-> "ended", out |-> out]]
    BY <1>2 DEF EngineEnds
  <2> DEFINE j == [phase |-> "ended", out |-> out]
  <2>2. /\ job[w].phase = "running"
        /\ UNCHANGED <<disk, env, status, flush, recovery, refused, server>>
    BY <1>2 DEF EngineEnds
  <2>3. Made' = Made /\ Pending' = Pending
    BY <2>2 DEF disk, Made, Waiting, Pending
  <2>4. j \in [phase: Phases \ {"idle", "lost"}, out: Outcomes \cup {"none", "refused"}]
    BY DEF Phases
  <2>5. \A v : Marked(v) => Marked(v)'
    BY <2>3 DEF Marked
  <2>6. Whole => Marked(w)'
    BY <2>2, <2>5 DEF TraceFacts
  <2>7. StickFacts' /\ ProcessFacts' /\ ThreadFacts' /\ TraceFacts'
    <3>1. world = "sound" => ram'.queue = {} /\ ram'.pending = {}
      BY <2>2 DEF StickFacts, disk
    <3>2. UNCHANGED <<takes, reads, status, flush, recovery, world, cut, server>>
      BY <2>2 DEF env
    <3>3. flush.done \subseteq server'
      BY <3>2 DEF ThreadFacts
    <3> QED BY <2>1, <2>2, <2>3, <2>4, <2>5, <2>6, <3>1, <3>2, <3>3, WipeTurns
  <2>8. TypeOK'
    BY <2>1, <2>2, <2>4 DEF TypeOK, disk, env, File, Phases
  <2> QED BY <2>7, <2>8
<1>3. CASE DropRefused(w) \/ Unmark(w)
  <2> DEFINE items == {m \in Pending : m.wipe \notin {w}}
             j == [phase |-> "done", out |-> job[w].out]
  <2>1. /\ PendingUpdate(items) /\ Turn(w, "done")
        /\ UNCHANGED <<env, status, flush, recovery, refused, server>>
    BY <1>3, Zenon DEF DropRefused, Unmark, PendingRemove
  <2>5. job[w].phase \in {"ended", "kept"}
    BY <1>3 DEF DropRefused, Unmark
  <2>6. job' = [job EXCEPT ![w] = j]
    BY <2>1, TurnEffect
  <2>2. \A v \in Wipes \ {w} : Marked(v) => \E m \in items : m.wipe = v
    BY DEF Marked
  <2>3. j.out # "refused" => Recorded(w)
    BY <1>3 DEF DropRefused, Unmark, ThreadFacts
  <2>4. j \in [phase: {"running", "final", "done"}, out: Outcomes \cup {"none", "refused"}]
    BY <1>0
  <2>7. items \in SUBSET Markers
    BY <1>0
  <2> HIDE DEF items
  <2> QED BY <2>1, <2>2, <2>3, <2>4, <2>5, <2>6, <2>7, MarkerTurn
<1>4. CASE Finalize(w)
  <2> DEFINE new(m) == IF m.wipe = w THEN [m EXCEPT !.final = job[w].out] ELSE m
             items == {new(m) : m \in Pending}
             j == [phase |-> "final", out |-> job[w].out]
  <2>0. PendingUpdate(items)
    BY <1>4, Zenon DEF Finalize, PendingFinalize
  <2>1. /\ job[w].phase = "ended" /\ job[w].out # "refused" /\ Turn(w, "final")
        /\ UNCHANGED <<env, status, flush, recovery, refused, server>>
    BY <1>4, Zenon DEF Finalize
  <2>7. job' = [job EXCEPT ![w] = j] /\ job[w].out \in Outcomes
    BY <2>1, TurnEffect DEF ProcessFacts
  <2>2. \A m \in Pending : new(m) \in Markers /\ new(m).wipe = m.wipe
    BY <1>0, <2>7 DEF Markers
  <2>3. \A v \in Wipes : Marked(v) => \E m \in items : m.wipe = v
    <3> HIDE DEF new
    <3> QED BY <2>2 DEF Marked
  <2>4. items \in SUBSET Markers
    <3> HIDE DEF new
    <3> QED BY <2>2
  <2>5. Whole => \E m \in items : m.wipe = w
    <3>1. Whole => Marked(w)
      BY <2>1 DEF TraceFacts
    <3> QED BY <2>3, <3>1
  <2>6. j \in [phase: {"running", "final", "done"}, out: Outcomes \cup {"none", "refused"}]
    BY <1>0
  <2> HIDE DEF items
  <2> QED BY <2>0, <2>1, <2>3, <2>4, <2>5, <2>6, <2>7, MarkerTurn
<1>5. CASE Upload(w)
  <2>1. PICK answer \in Answers(RecordOf(w)) :
          /\ Deliver(RecordOf(w), answer)
          /\ NoteRejection(RecordOf(w), answer)
          /\ Turn(w, IF answer = "taken" THEN "kept" ELSE "failed")
    BY <1>5, Zenon DEF Upload
  <2> DEFINE j == [phase |-> IF answer = "taken" THEN "kept" ELSE "failed", out |-> job[w].out]
  <2>2. /\ job[w].phase = "final"
        /\ UNCHANGED <<disk, env, status, flush, recovery>>
    BY <1>5 DEF Upload
  <2>3. job[w].out \in Outcomes /\ RecordOf(w) \in Records /\ RecordOf(w).wipe = w
    BY <2>2 DEF ProcessFacts, RecordOf, Records
  <2>4. job' = [job EXCEPT ![w] = j]
    BY <2>1, TurnEffect
  <2>5. /\ server \subseteq server' /\ server' \subseteq Records /\ refused' \subseteq Records
        /\ answer = "taken" => RecordOf(w) \in server'
    BY <2>1, <2>3 DEF Deliver, NoteRejection, TypeOK
  <2>6. Made \subseteq Made' /\ server' \subseteq Made' /\ Pending' = Pending
    BY <2>2, <2>5 DEF disk, Made, Waiting, Pending
  <2>7. j \in [phase: Phases \ {"idle", "lost"}, out: Outcomes \cup {"none", "refused"}]
    BY <2>3 DEF Phases
  <2>8. \A v : Marked(v) => Marked(v)'
    BY <2>6 DEF Marked
  <2>9. (Whole => Marked(w)') /\ (j.phase = "kept" => Recorded(w)')
    BY <2>2, <2>3, <2>5, <2>6, <2>8 DEF TraceFacts, Recorded
  <2>10. StickFacts' /\ ProcessFacts' /\ ThreadFacts' /\ TraceFacts'
    <3>1. world = "sound" => ram'.queue = {} /\ ram'.pending = {}
      BY <2>2 DEF StickFacts, disk
    <3>2. UNCHANGED <<takes, reads, status, flush, recovery, world, cut>>
      BY <2>2 DEF env
    <3>3. flush.done \subseteq server'
      BY <2>5 DEF ThreadFacts
    <3> QED BY <2>2, <2>3, <2>4, <2>6, <2>7, <2>8, <2>9, <3>1, <3>2, <3>3, WipeTurns
  <2>11. TypeOK'
    BY <2>2, <2>4, <2>5, <2>7 DEF TypeOK, disk, env, File
  <2> QED BY <2>10, <2>11
<1>6. CASE Enqueue(w)
  <2> DEFINE j == [phase |-> "kept", out |-> job[w].out]
  <2>1. /\ job[w].phase = "failed" /\ QueueAdd(RecordOf(w)) /\ Turn(w, "kept")
        /\ UNCHANGED <<env, status, flush, recovery, refused, server>>
    BY <1>6, Zenon DEF Enqueue
  <2>2. job[w].out \in Outcomes /\ RecordOf(w) \in Records /\ RecordOf(w).wipe = w
    BY <2>1 DEF ProcessFacts, RecordOf, Records
  <2>3. job' = [job EXCEPT ![w] = j]
    BY <2>1, TurnEffect
  <2>4. /\ DiskType' /\ MarkersAlone /\ Grows /\ RecordOf(w) \in Waiting'
        /\ takes /\ reads = Files => ram'.queue = {}
    BY <2>1, <2>2, QueueAddEffect
  <2>5. Made \subseteq Made' /\ RecordOf(w) \in Made' /\ Pending' = Pending
    BY <2>1, <2>4 DEF Made, Grows, MarkersAlone, Pending
  <2>6. j \in [phase: Phases \ {"idle", "lost"}, out: Outcomes \cup {"none", "refused"}]
    BY <2>2 DEF Phases
  <2>7. (\A v : Marked(v) => Marked(v)') /\ Recorded(w)'
    BY <2>2, <2>5 DEF Marked, Recorded
  <2>8. StickFacts' /\ ProcessFacts' /\ ThreadFacts' /\ TraceFacts'
    <3>1. world = "sound" => ram'.queue = {} /\ ram'.pending = {}
      BY <2>4 DEF StickFacts, MarkersAlone
    <3>2. UNCHANGED <<takes, reads, status, flush, recovery, world, cut, server>>
      BY <2>1 DEF env
    <3>3. flush.done \subseteq server'
      BY <3>2 DEF ThreadFacts
    <3> QED BY <2>1, <2>2, <2>3, <2>5, <2>6, <2>7, <3>1, <3>2, <3>3, WipeTurns
  <2>9. TypeOK'
    BY <2>1, <2>3, <2>4, <2>6 DEF TypeOK, DiskType, env
  <2> QED BY <2>8, <2>9
<1> QED BY <1>1, <1>2, <1>3, <1>4, <1>5, <1>6 DEF Wipe

-----------------------------------------------------------------------------
(* The flush, the recovery and the world *)

(* What a step has to show that moves no wipe: it takes no record away, and a
   marker only while the process recovers and the record is kept. *)
LEMMA OtherSteps ==
  ASSUME StationInv, TypeOK', Made \subseteq Made',
         UNCHANGED <<job, world, cut>>,
         status' # "up" => status # "up",
         \A v \in Wipes : Whole /\ Marked(v) => Marked(v)' \/ (status # "up" /\ Recorded(v)),
         world = "sound" => takes' /\ ram'.queue = {} /\ ram'.pending = {},
         world # "unreadable" => reads' = Files,
         flush'.done \subseteq server',
         \A v \in recovery'.filed : Recorded(v)'
  PROVE  StationInv'
<1> USE DEF StationInv
<1>1. \A v : Recorded(v) => Recorded(v)'
  BY RecordedStays
<1>2. StickFacts'
  BY DEF StickFacts
<1>3. ProcessFacts'
  BY DEF ProcessFacts
<1>4. ThreadFacts'
  BY <1>1 DEF ThreadFacts
<1>5. TraceFacts'
  <2>1. Whole' = Whole
    BY DEF Whole
  <2>2. SUFFICES ASSUME Whole, NEW w \in Wipes
                 PROVE  /\ job[w].phase \in {"running", "ended", "final", "failed"} => Marked(w)'
                        /\ job[w].phase = "done" /\ job[w].out # "refused" => Recorded(w)'
                        /\ job[w].phase = "lost" => Marked(w)' \/ Recorded(w)'
    BY <2>1 DEF TraceFacts
  <2> QED BY <1>1, <2>2 DEF TraceFacts, ProcessFacts
<1> QED BY <1>2, <1>3, <1>4, <1>5

(* A step of the flush keeps the invariant: what leaves the queue was sent. *)
LEMMA FlushInv ==
  ASSUME StationInv, Flush
  PROVE  StationInv'
<1> USE DEF StationInv
<1>0. /\ Waiting \subseteq Records /\ server \subseteq Records
      /\ flush \in [on: BOOLEAN, todo: SUBSET Records, done: SUBSET Records]
  BY DEF TypeOK, File, Waiting
<1>1. CASE FlushStart
  <2>1. PICK seen \in Loads("queue") : flush' = [on |-> TRUE, todo |-> seen, done |-> {}]
    BY <1>1 DEF FlushStart
  <2>2. UNCHANGED <<disk, env, status, job, recovery, refused, server>>
    BY <1>1 DEF FlushStart
  <2>3. seen \in SUBSET Records
    BY <1>0 DEF Loads, TypeOK, File
  <2>4. TypeOK'
    BY <2>1, <2>2, <2>3 DEF TypeOK, disk, env, File
  <2>5. Made' = Made /\ Pending' = Pending
    BY <2>2 DEF disk, Made, Waiting, Pending
  <2>6. \A v : (Marked(v)' <=> Marked(v)) /\ (Recorded(v)' <=> Recorded(v))
    BY <2>5 DEF Marked, Recorded
  <2> QED
    BY <2>1, <2>2, <2>4, <2>5, <2>6, OtherSteps DEF disk, env, StickFacts, ThreadFacts
<1>2. CASE FlushOne
  <2>1. PICK r \in flush.todo :
          \E answer \in IF r \in refused THEN {"waits"} ELSE Answers(r) :
             /\ Deliver(r, answer)
             /\ NoteRejection(r, answer)
             /\ flush' = [flush EXCEPT !.todo = @ \ {r},
                                       !.done = IF answer = "taken" THEN @ \cup {r} ELSE @]
    BY <1>2, Zenon DEF FlushOne
  <2>2. PICK answer \in IF r \in refused THEN {"waits"} ELSE Answers(r) :
             /\ Deliver(r, answer)
             /\ NoteRejection(r, answer)
             /\ flush' = [flush EXCEPT !.todo = @ \ {r},
                                       !.done = IF answer = "taken" THEN @ \cup {r} ELSE @]
    BY <2>1
  <2>3. UNCHANGED <<disk, env, status, job, recovery>>
    BY <1>2 DEF FlushOne
  <2>4. /\ server \subseteq server' /\ server' \subseteq Records /\ refused' \subseteq Records
        /\ answer = "taken" => r \in server'
    BY <1>0, <2>2 DEF Deliver, NoteRejection, TypeOK
  <2>5. /\ flush' \in [on: BOOLEAN, todo: SUBSET Records, done: SUBSET Records]
        /\ flush'.done \subseteq server'
    <3>1. flush' = [on |-> flush.on, todo |-> flush.todo \ {r},
                    done |-> IF answer = "taken" THEN flush.done \cup {r} ELSE flush.done]
      BY <1>0, <2>2
    <3> QED BY <1>0, <2>4, <3>1 DEF ThreadFacts
  <2>6. TypeOK'
    BY <2>3, <2>4, <2>5 DEF TypeOK, disk, env, File
  <2>7. Made \subseteq Made' /\ Pending' = Pending
    BY <2>3, <2>4 DEF disk, Made, Waiting, Pending
  <2>8. \A v : (Marked(v)' <=> Marked(v)) /\ (Recorded(v) => Recorded(v)')
    BY <2>7 DEF Marked, Recorded
  <2> QED
    BY <2>3, <2>5, <2>6, <2>7, <2>8, OtherSteps DEF disk, env, StickFacts, ThreadFacts
<1>3. CASE FlushEnd
  <2>1. flush' = NoFlush /\ UNCHANGED <<env, status, job, recovery, refused, server>>
    BY <1>3 DEF FlushEnd
  <2>2. /\ DiskType' /\ MarkersAlone /\ Waiting \ flush.done \subseteq Waiting'
        /\ takes /\ reads = Files => ram'.queue = {}
    BY <1>3, FlushEndEffect
  <2>3. TypeOK'
    BY <2>1, <2>2 DEF TypeOK, DiskType, env, NoFlush
  <2>4. Made \subseteq Made' /\ Pending' = Pending
    BY <2>1, <2>2 DEF Made, ThreadFacts, MarkersAlone, Pending
  <2>5. \A v : (Marked(v)' <=> Marked(v)) /\ (Recorded(v) => Recorded(v)')
    BY <2>4 DEF Marked, Recorded
  <2> QED
    BY <2>1, <2>2, <2>3, <2>4, <2>5, OtherSteps DEF env, StickFacts, ThreadFacts, NoFlush, MarkersAlone
<1>4. CASE RetryDue
  <2>1. refused' = {} /\ UNCHANGED <<disk, env, status, job, flush, recovery, server>>
    BY <1>4 DEF RetryDue
  <2>2. TypeOK'
    BY <2>1 DEF TypeOK, disk, env, File
  <2>3. Made' = Made /\ Pending' = Pending
    BY <2>1 DEF disk, Made, Waiting, Pending
  <2>4. \A v : (Marked(v)' <=> Marked(v)) /\ (Recorded(v)' <=> Recorded(v))
    BY <2>3 DEF Marked, Recorded
  <2> QED
    BY <2>1, <2>2, <2>3, <2>4, OtherSteps DEF disk, env, StickFacts, ThreadFacts
<1> QED BY <1>1, <1>2, <1>3, <1>4 DEF Flush

(* A step of a starting process keeps the invariant: a leftover marker goes only
   when its record is in the queue. *)
LEMMA RecoverInv ==
  ASSUME StationInv, Recover
  PROVE  StationInv'
<1> USE DEF StationInv
<1>0. /\ Pending \subseteq Markers /\ recovery.todo \subseteq Markers /\ recovery.filed \subseteq Wipes
  BY DEF TypeOK, File, Pending
<1>1. CASE Boot
  <2>1. PICK seen \in Loads("pending") : recovery' = [todo |-> seen, filed |-> {}]
    BY <1>1 DEF Boot
  <2>2. /\ status # "up" /\ status' = "recovering"
        /\ UNCHANGED <<disk, env, job, flush, refused, server>>
    BY <1>1 DEF Boot
  <2>3. seen \in SUBSET Markers
    BY DEF Loads, TypeOK, File
  <2>4. TypeOK'
    BY <2>1, <2>2, <2>3 DEF TypeOK, disk, env, File
  <2>5. Made' = Made /\ Pending' = Pending
    BY <2>2 DEF disk, Made, Waiting, Pending
  <2>6. \A v : (Marked(v)' <=> Marked(v)) /\ (Recorded(v)' <=> Recorded(v))
    BY <2>5 DEF Marked, Recorded
  <2> QED
    BY <2>1, <2>2, <2>4, <2>5, <2>6, OtherSteps DEF disk, env, StickFacts, ThreadFacts
<1>2. CASE RecoverOne
  <2>1. PICK m \in recovery.todo :
          /\ QueueAdd(Leftover(m))
          /\ recovery' = [todo |-> recovery.todo \ {m}, filed |-> recovery.filed \cup {m.wipe}]
    BY <1>2, Zenon DEF RecoverOne
  <2>2. status # "up" /\ UNCHANGED <<env, status, job, flush, refused, server>>
    BY <1>2 DEF RecoverOne
  <2>3. m.wipe \in Wipes /\ Leftover(m) \in Records /\ Leftover(m).wipe = m.wipe
    BY <1>0 DEF Leftover, Markers, Records, Outcomes
  <2>4. /\ DiskType' /\ MarkersAlone /\ Grows /\ Leftover(m) \in Waiting'
        /\ takes /\ reads = Files => ram'.queue = {}
    BY <2>1, <2>3, QueueAddEffect
  <2>5. TypeOK'
    BY <1>0, <2>1, <2>2, <2>3, <2>4 DEF TypeOK, DiskType, env
  <2>6. Made \subseteq Made' /\ Leftover(m) \in Made' /\ Pending' = Pending
    BY <2>2, <2>4 DEF Made, Grows, MarkersAlone, Pending
  <2>7. (\A v : (Marked(v)' <=> Marked(v)) /\ (Recorded(v) => Recorded(v)')) /\ Recorded(m.wipe)'
    BY <2>3, <2>6 DEF Marked, Recorded
  <2> QED
    BY <2>1, <2>2, <2>4, <2>5, <2>6, <2>7, OtherSteps DEF env, StickFacts, ThreadFacts, MarkersAlone
<1>3. CASE RecoverEnd
  <2> DEFINE items == {m \in Pending : m.wipe \notin recovery.filed}
  <2>1. /\ status # "up" /\ status' = "up" /\ recovery' = NoRecovery
        /\ UNCHANGED <<env, job, flush, refused, server>>
    BY <1>3 DEF RecoverEnd
  <2>2. PendingUpdate(items) \/ UNCHANGED disk
    BY <1>3, Zenon DEF RecoverEnd, PendingRemove
  <2>3. /\ DiskType' /\ QueueAlone
        /\ reads = Files => items \subseteq Pending'
        /\ world = "sound" => ram'.pending = {} /\ ram'.queue = {}
    <3>1. CASE PendingUpdate(items)
      <4>1. items \in SUBSET Markers
        BY <1>0
      <4> HIDE DEF items
      <4> QED BY <3>1, <4>1, MarkerEffect DEF StickFacts, Files, QueueAlone
    <3>2. CASE UNCHANGED disk
      BY <3>2 DEF disk, TypeOK, DiskType, File, QueueAlone, Pending, StickFacts
    <3> QED BY <2>2, <3>1, <3>2
  <2>4. TypeOK'
    BY <2>1, <2>3 DEF TypeOK, DiskType, env, NoRecovery
  <2>5. Made' = Made
    BY <2>1, <2>3 DEF QueueAlone, Made, Waiting
  <2>6. \A v \in Wipes : Whole /\ Marked(v) => Marked(v)' \/ Recorded(v)
    BY <2>3 DEF Marked, Whole, StickFacts, ThreadFacts
  <2> QED
    BY <2>1, <2>3, <2>4, <2>5, <2>6, OtherSteps DEF env, StickFacts, ThreadFacts, NoRecovery
<1> QED BY <1>1, <1>2, <1>3 DEF Recover

(* A restart, a power cut or a change of the stick, the network or the server keeps
   the invariant: no thread is left, and the RAM is lost where it may hold nothing. *)
LEMMA EnvironmentInv ==
  ASSUME StationInv, Environment
  PROVE  StationInv'
<1> USE DEF StationInv
<1>1. CASE Restart \/ PowerOff
  <2>0. /\ job \in [Wipes -> [phase: Phases, out: Outcomes \cup {"none", "refused"}]]
        /\ DiskType /\ crashes \in Nat /\ MaxCrashes \in Nat
    BY StationAssumption DEF TypeOK, DiskType
  <2>1. Forget /\ status' \in {"crashed", "off"}
    BY <1>1 DEF Restart, PowerOff
  <2>2. \/ UNCHANGED <<ram, cut>>
        \/ ram' = [f \in Files |-> {}] /\ cut' = TRUE
    BY <1>1 DEF Restart, PowerOff
  <2>3. /\ job' = [w \in Wipes |-> IF job[w].phase \in {"idle", "done"} THEN job[w]
                                  ELSE [job[w] EXCEPT !.phase = "lost"]]
        /\ flush' = NoFlush /\ recovery' = NoRecovery /\ refused' = {}
        /\ crashes' \in 0..MaxCrashes
        /\ UNCHANGED <<stick, takes, reads, online, refuses, server, world, troubles>>
    BY <2>0, <2>1 DEF Forget
  <2>4. /\ job' \in [Wipes -> [phase: Phases, out: Outcomes \cup {"none", "refused"}]]
        /\ \A w \in Wipes :
             IF job[w].phase \in {"idle", "done"} THEN job'[w] = job[w] ELSE job'[w].phase = "lost"
    <3>1. \A w \in Wipes : [job[w] EXCEPT !.phase = "lost"] = [phase |-> "lost", out |-> job[w].out]
      BY <2>0
    <3> QED BY <2>0, <2>3, <3>1 DEF Phases
  <2>5. DiskType' /\ (ram' = ram \/ (ram'.queue = {} /\ ram'.pending = {}))
    BY <2>0, <2>2, <2>3 DEF DiskType, File, Files
  <2>6. TypeOK'
    BY <2>0, <2>1, <2>2, <2>3, <2>4, <2>5 DEF TypeOK, DiskType, NoFlush, NoRecovery
  <2>7. StickFacts' /\ ProcessFacts' /\ ThreadFacts'
    BY <2>1, <2>3, <2>4, <2>5 DEF StickFacts, ProcessFacts, ThreadFacts, NoFlush, NoRecovery
  <2>8. TraceFacts'
    <3>1. Whole' => /\ Whole
                    /\ Pending' = Pending /\ Made' = Made
      BY <2>2, <2>3, <2>5 DEF Whole, StickFacts, Pending, Made, Waiting
    <3>2. Whole' => \A v : (Marked(v)' <=> Marked(v)) /\ (Recorded(v)' <=> Recorded(v))
      BY <3>1 DEF Marked, Recorded
    <3> QED BY <2>0, <2>4, <3>1, <3>2 DEF TraceFacts, ThreadFacts, Phases
  <2> QED BY <2>6, <2>7, <2>8
<1>2. CASE StickRefuses \/ StickUnreadable \/ Network \/ ServerMind
  <2>1. /\ troubles' \in 0..MaxTroubles
        /\ UNCHANGED <<disk, status, job, flush, recovery, refused, server, world, cut, crashes>>
    BY <1>2, StationAssumption DEF StickRefuses, StickUnreadable, Network, ServerMind, Change, TypeOK
  <2>2. /\ takes' \in BOOLEAN /\ online' \in BOOLEAN /\ reads' \subseteq Files /\ refuses' \subseteq Wipes
        /\ world # "refuses" => takes' = takes
        /\ world # "unreadable" => reads' = reads
    BY <1>2 DEF StickRefuses, StickUnreadable, Network, ServerMind, TypeOK
  <2>3. TypeOK'
    BY <2>1, <2>2 DEF TypeOK, disk, File
  <2>4. Made' = Made /\ Pending' = Pending
    BY <2>1 DEF disk, Made, Waiting, Pending
  <2>5. \A v : (Marked(v)' <=> Marked(v)) /\ (Recorded(v)' <=> Recorded(v))
    BY <2>4 DEF Marked, Recorded
  <2> QED
    BY <2>1, <2>2, <2>3, <2>4, <2>5, OtherSteps DEF disk, StickFacts, ThreadFacts
<1> QED BY <1>1, <1>2 DEF Environment

-----------------------------------------------------------------------------
(* The theorems *)

(* A station that was just switched on has nothing to keep. *)
LEMMA InitInv == Init => StationInv
<1> SUFFICES ASSUME Init PROVE StationInv
  OBVIOUS
<1>1. TypeOK
  <2>1. stick \in File(Records, Markers) /\ ram \in File(Records, Markers)
    BY DEF Init, File, Files
  <2>2. job \in [Wipes -> [phase: Phases, out: Outcomes \cup {"none", "refused"}]]
    BY DEF Init, Idle, Phases
  <2>3. /\ flush \in [on: BOOLEAN, todo: SUBSET Records, done: SUBSET Records]
        /\ recovery \in [todo: SUBSET Markers, filed: SUBSET Wipes]
    BY DEF Init, NoFlush, NoRecovery
  <2>4. crashes \in 0..MaxCrashes /\ troubles \in 0..MaxTroubles
    BY StationAssumption DEF Init
  <2> QED BY <2>1, <2>2, <2>3, <2>4 DEF Init, TypeOK
<1>2. StickFacts /\ ProcessFacts /\ ThreadFacts /\ TraceFacts
  BY DEF Init, StickFacts, ProcessFacts, ThreadFacts, TraceFacts, Idle, NoFlush, NoRecovery, Files
<1> QED BY <1>1, <1>2 DEF StationInv

(* Every step keeps the invariant. *)
LEMMA NextInv == StationInv /\ [Next]_vars => StationInv'
<1> SUFFICES ASSUME StationInv, [Next]_vars PROVE StationInv'
  OBVIOUS
<1>1. CASE UNCHANGED vars
  BY <1>1 DEF vars, StationInv, TypeOK, StickFacts, ProcessFacts, ThreadFacts, TraceFacts,
     Whole, Marked, Recorded, Made, Waiting, Pending, File
<1> QED
  BY <1>1, WipeInv, FlushInv, RecoverInv, EnvironmentInv DEF Next

(* StationInv is inductive: markers and records are where the progress of each wipe
   says they are, whatever the stick, the network and the power do. *)
THEOREM StationInvariant == Spec => []StationInv
<1> QED
  BY InitInv, NextInv, PTL DEF Spec

(* The types of StationQueue are kept. *)
THEOREM TypeCorrectness == Spec => []TypeOK
<1>1. StationInv => TypeOK
  BY DEF StationInv
<1> QED
  BY <1>1, StationInvariant, PTL

(* A wipe that may have touched its drive leaves a trace that survives restarts and
   power cuts on a sound stick, and restarts on one that refuses writes
   (start_job's marker, record_wipe, recover_pending_wipes). *)
THEOREM NoWipeForgotten == Spec => []WipesAreKept
<1>1. StationInv => WipesAreKept
  <2> SUFFICES ASSUME StationInv, NEW w \in Wipes, Owed(w)
               PROVE  /\ world = "sound" => Safe(w)
                      /\ (world = "refuses" /\ ~cut) => Traced(w)
    BY DEF WipesAreKept
  <2> USE DEF StationInv
  <2>1. Whole => Marked(w) \/ Recorded(w)
    BY DEF TraceFacts, ThreadFacts, ProcessFacts, TypeOK, Phases, Owed
  <2>2. Marked(w) \/ Recorded(w) => Traced(w)
    BY DEF Marked, Recorded, Made, Waiting, Pending, Traced, Safe
  <2>3. world = "sound" /\ Traced(w) => Safe(w)
    BY DEF StickFacts, Traced
  <2> QED BY <2>1, <2>2, <2>3 DEF Whole
<1> QED
  BY <1>1, StationInvariant, PTL

-----------------------------------------------------------------------------
(* What a step may take away *)

\* What a step leaves of the records that wait and of the marker of a wipe.
Keeps(w) ==
  (\E m \in stick.pending : m.wipe = w) =>
    \/ \E m \in stick'.pending : m.wipe = w
    \/ ~Owed(w)
    \/ Recorded(w) /\ QueueAlone /\ UNCHANGED reads

StepKeeps ==
  /\ server \subseteq server'
  /\ Waiting \subseteq Waiting' \cup server'
  /\ stick.queue \subseteq stick'.queue \cup server'
  /\ \A w \in Wipes : Keeps(w)

(* A rewrite of the markers takes away those of a wipe with no record to come, or
   with one that is kept. *)
LEMMA RewriteKeeps ==
  ASSUME StationInv, NEW items \in SUBSET Markers, PendingUpdate(items), server' = server, UNCHANGED reads,
         \A w \in Wipes : Marked(w) => (\E m \in items : m.wipe = w) \/ ~Owed(w) \/ Recorded(w)
  PROVE  StepKeeps
<1>1. QueueAlone /\ stick'.pending \in {stick.pending, items}
  BY MarkerEffect DEF StationInv
<1>2. ASSUME NEW w \in Wipes, \E m \in stick.pending : m.wipe = w
      PROVE  (\E m \in stick'.pending : m.wipe = w) \/ ~Owed(w) \/ Recorded(w)
  <2>1. Marked(w)
    BY <1>2 DEF Marked, Pending
  <2> QED BY <1>1, <1>2, <2>1
<1> QED BY <1>1, <1>2 DEF StepKeeps, Keeps, QueueAlone, Waiting

(* Only the power takes a record that waits, and only from the RAM. *)
LEMMA NextKeeps ==
  ASSUME StationInv, [Next]_vars
  PROVE  StepKeeps \/ (PowerOff /\ UNCHANGED <<stick, server, reads>>)
<1> USE DEF StationInv
<1>1. ASSUME UNCHANGED stick, ram' = ram, server \subseteq server'
      PROVE  StepKeeps
  BY <1>1 DEF StepKeeps, Keeps, Waiting
<1>2. ASSUME NEW r \in Records, QueueAdd(r), server' = server
      PROVE  StepKeeps
  BY <1>2, QueueAddEffect DEF StepKeeps, Keeps, MarkersAlone, Grows
<1>3. ASSUME NEW w \in Wipes, Wipe(w)
      PROVE  StepKeeps
  <2>0. Pending \in SUBSET Markers
    BY DEF TypeOK, File, Pending
  <2>1. CASE StartWipe(w)
    <3> DEFINE items == Pending \cup {[wipe |-> w, final |-> "none"]}
    <3>1. PendingUpdate(items) /\ UNCHANGED <<server, reads>>
      BY <2>1 DEF StartWipe, PendingAdd, env
    <3>2. items \in SUBSET Markers
      BY <2>0 DEF Markers
    <3>3. \A v \in Wipes : Marked(v) => \E m \in items : m.wipe = v
      BY DEF Marked
    <3> HIDE DEF items
    <3> QED BY <3>1, <3>2, <3>3, RewriteKeeps
  <2>2. CASE EngineEnds(w)
    BY <1>1, <2>2 DEF EngineEnds, disk
  <2>3. CASE DropRefused(w) \/ Unmark(w)
    <3> DEFINE items == {m \in Pending : m.wipe \notin {w}}
    <3>1. PendingUpdate(items) /\ UNCHANGED <<server, reads>>
      BY <2>3, Zenon DEF DropRefused, Unmark, PendingRemove, env
    <3>2. items \in SUBSET Markers
      BY <2>0
    <3>3. ~Owed(w) \/ Recorded(w)
      BY <2>3 DEF DropRefused, Unmark, Owed, ThreadFacts
    <3>4. \A v \in Wipes : Marked(v) => (\E m \in items : m.wipe = v) \/ v = w
      BY DEF Marked
    <3> HIDE DEF items
    <3> QED BY <3>1, <3>2, <3>3, <3>4, RewriteKeeps
  <2>4. CASE Finalize(w)
    <3> DEFINE new(m) == IF m.wipe = w THEN [m EXCEPT !.final = job[w].out] ELSE m
               items == {new(m) : m \in Pending}
    <3>1. PendingUpdate(items) /\ UNCHANGED <<server, reads>>
      BY <2>4, Zenon DEF Finalize, PendingFinalize, env
    <3>2. job[w].out \in Outcomes
      BY <2>4 DEF Finalize, ProcessFacts
    <3>3. \A m \in Pending : new(m) \in Markers /\ new(m).wipe = m.wipe
      BY <2>0, <3>2 DEF Markers
    <3>4. items \in SUBSET Markers /\ \A v \in Wipes : Marked(v) => \E m \in items : m.wipe = v
      <4> HIDE DEF new
      <4> QED BY <3>3 DEF Marked
    <3> HIDE DEF items
    <3> QED BY <3>1, <3>4, RewriteKeeps
  <2>5. CASE Upload(w)
    BY <1>1, <2>5 DEF Upload, Deliver, disk
  <2>6. CASE Enqueue(w)
    <3>1. QueueAdd(RecordOf(w)) /\ server' = server /\ job[w].out \in Outcomes
      BY <2>6 DEF Enqueue, ProcessFacts
    <3>2. RecordOf(w) \in Records
      BY <3>1 DEF RecordOf, Records
    <3> QED BY <1>2, <3>1, <3>2
  <2> QED BY <1>3, <2>1, <2>2, <2>3, <2>4, <2>5, <2>6 DEF Wipe
<1>4. ASSUME Flush
      PROVE  StepKeeps
  <2>1. CASE FlushStart \/ RetryDue
    BY <1>1, <2>1 DEF FlushStart, RetryDue, disk
  <2>2. CASE FlushOne
    BY <1>1, <2>2 DEF FlushOne, Deliver, disk
  <2>3. CASE FlushEnd
    <3>1. server' = server
      BY <2>3 DEF FlushEnd
    <3> QED BY <2>3, <3>1, FlushEndEffect DEF StepKeeps, Keeps, MarkersAlone, ThreadFacts
  <2> QED BY <1>4, <2>1, <2>2, <2>3 DEF Flush
<1>5. ASSUME Recover
      PROVE  StepKeeps
  <2>1. CASE Boot
    BY <1>1, <2>1 DEF Boot, disk
  <2>2. CASE RecoverOne
    <3>1. PICK m \in recovery.todo : QueueAdd(Leftover(m))
      BY <2>2 DEF RecoverOne
    <3>2. Leftover(m) \in Records
      BY <3>1 DEF TypeOK, Leftover, Markers, Records, Outcomes
    <3>3. server' = server
      BY <2>2 DEF RecoverOne
    <3> QED BY <1>2, <3>1, <3>2, <3>3
  <2>3. CASE RecoverEnd
    <3> DEFINE items == {m \in Pending : m.wipe \notin recovery.filed}
    <3>1. UNCHANGED <<server, reads>> /\ (PendingUpdate(items) \/ UNCHANGED disk)
      BY <2>3, Zenon DEF RecoverEnd, PendingRemove, env
    <3>2. items \in SUBSET Markers
      BY DEF TypeOK, File, Pending
    <3>3. \A v \in Wipes : Marked(v) => (\E m \in items : m.wipe = v) \/ Recorded(v)
      BY DEF Marked, ThreadFacts
    <3>4. CASE UNCHANGED disk
      BY <1>1, <3>1, <3>4 DEF disk
    <3>5. CASE PendingUpdate(items)
      <4> HIDE DEF items
      <4> QED BY <3>1, <3>2, <3>3, <3>5, RewriteKeeps
    <3> QED BY <3>1, <3>4, <3>5
  <2> QED BY <1>5, <2>1, <2>2, <2>3 DEF Recover
<1>6. CASE Environment
  BY <1>1, <1>6 DEF Environment, Restart, PowerOff, Forget, StickRefuses, StickUnreadable, Network, ServerMind, Change, disk
<1>7. CASE UNCHANGED vars
  BY <1>1, <1>7 DEF vars
<1> QED BY <1>3, <1>4, <1>5, <1>6, <1>7 DEF Next

(* A record that waits leaves the queue for the server, or with the power while the
   screen says not to switch off (queue_add, _queue_flush, queue_durable). *)
THEOREM NoRecordOverwritten == Spec => QueueForgetsNothing
<1>1. StationInv /\ [Next]_vars =>
        [\A r \in Waiting :
           \/ r \in Waiting' \cup server'
           \/ ~QueueDurable /\ status # "off" /\ status' = "off"]_vars
  <2> SUFFICES ASSUME StationInv, [Next]_vars, NEW r \in Waiting, r \notin Waiting' \cup server'
               PROVE  ~QueueDurable /\ status # "off" /\ status' = "off"
    OBVIOUS
  <2>1. PowerOff /\ stick' = stick
    BY NextKeeps DEF StepKeeps
  <2>2. r \in ram.queue
    BY <2>1 DEF Waiting
  <2> QED BY <2>1, <2>2 DEF PowerOff, QueueDurable
<1> QED
  BY <1>1, StationInvariant, PTL DEF Spec, QueueForgetsNothing

(* The last trace on the stick of a wipe the server does not have is given up only
   for an engine that wrote nothing, or while the screen says not to switch off. *)
THEOREM LastTraceGuarded == Spec => LastTraceWatched
<1>1. StationInv /\ [Next]_vars =>
        [\A w \in Wipes : (Safe(w) /\ Owed(w)) => (Safe(w)' \/ ~QueueDurable')]_vars
  <2> SUFFICES ASSUME StationInv, [Next]_vars, NEW w \in Wipes, Safe(w), Owed(w)
               PROVE  Safe(w)' \/ ~QueueDurable'
    OBVIOUS
  <2>1. CASE PowerOff /\ UNCHANGED <<stick, server, reads>>
    BY <2>1 DEF Safe
  <2>2. CASE StepKeeps
    <3>1. CASE \E r \in stick.queue \cup server : r.wipe = w
      BY <2>2, <3>1 DEF StepKeeps, Safe
    <3>2. CASE \E m \in stick.pending : m.wipe = w
      <4>1. CASE \E m \in stick'.pending : m.wipe = w
        BY <4>1 DEF Safe
      <4>2. CASE Recorded(w) /\ QueueAlone /\ UNCHANGED reads
        BY <2>2, <4>2 DEF StepKeeps, Recorded, Made, Waiting, QueueAlone, Safe, QueueDurable
      <4> QED BY <2>2, <3>2, <4>1, <4>2 DEF StepKeeps, Keeps
    <3> QED BY <3>1, <3>2 DEF Safe
  <2> QED BY <2>1, <2>2, NextKeeps
<1> QED
  BY <1>1, StationInvariant, PTL DEF Spec, LastTraceWatched

-----------------------------------------------------------------------------
(* One verdict *)

\* What the station has said of its wipes, or will say at its next start.
Said == Made \cup {Leftover(m) : m \in Pending \cup recovery.todo}

\* All that is said of w is one thing: nothing before it starts, an unknown outcome
\* while it runs, and its record from then on.
Agreed(w) ==
  /\ \A r, q \in Said : r.wipe = w /\ q.wipe = w => r = q
  /\ job[w].phase = "idle" => \A r \in Said : r.wipe # w
  /\ job[w].phase \in {"running", "ended"} =>
       /\ \A r \in Said : r.wipe = w => r.out = "unknown"
       /\ \A r \in Made : r.wipe # w
  /\ job[w].phase \in {"final", "failed", "kept"} => \A r \in Said : r.wipe = w => r = RecordOf(w)

VerdictFacts ==
  /\ status # "recovering" => recovery.todo = {}
  /\ world = "sound" => flush.todo \subseteq Made /\ \A w \in Wipes : Agreed(w)

VerdictInv == StationInv /\ VerdictFacts

-----------------------------------------------------------------------------
(* What a step says *)

\* A step says nothing of w that was not said.
SaysNoMore(w) ==
  /\ \A r \in Said' : r.wipe = w => r \in Said
  /\ job[w].phase \in {"running", "ended"} => \A r \in Made' : r.wipe = w => r \in Made

(* A wipe that does not move, or comes to an end, with nothing more said of it. *)
LEMMA AgreedStays ==
  ASSUME NEW w \in Wipes, Agreed(w), SaysNoMore(w),
         job'[w] = job[w] \/ job'[w].phase \in {"done", "lost"}
  PROVE  Agreed(w)'
BY DEF Agreed, SaysNoMore, RecordOf

(* All that is said is a record. *)
LEMMA SaidType ==
  ASSUME TypeOK
  PROVE  Said \subseteq Records /\ Pending \subseteq Markers /\ Made \subseteq Records
<1>1. Pending \subseteq Markers /\ recovery.todo \subseteq Markers /\ Made \subseteq Records
  BY DEF TypeOK, File, Pending, Made, Waiting
<1>2. \A m \in Markers : Leftover(m) \in Records
  BY DEF Markers, Records, Leftover, Outcomes
<1> QED BY <1>1, <1>2 DEF Said

(* The marker or the record of one wipe changes; a record that is made stays made. *)
LEMMA OneWipe ==
  ASSUME VerdictInv, StationInv', NEW w \in Wipes,
         world = "sound" => /\ Agreed(w)' /\ Made \subseteq Made'
                            /\ \A v \in Wipes \ {w} : SaysNoMore(v),
         \A v \in Wipes \ {w} : job'[v] = job[v],
         UNCHANGED <<status, flush, recovery, world>>
  PROVE  VerdictInv'
<1>1. ASSUME world' = "sound", NEW v \in Wipes \ {w}
      PROVE  Agreed(v)'
  BY <1>1, AgreedStays DEF VerdictInv, VerdictFacts
<1>2. world' = "sound" => \A v \in Wipes : Agreed(v)'
  BY <1>1
<1> QED BY <1>2 DEF VerdictInv, VerdictFacts

(* Nothing more is said of any wipe. *)
LEMMA SaidLess ==
  ASSUME VerdictInv, StationInv', UNCHANGED world,
         world = "sound" => /\ \A w \in Wipes : SaysNoMore(w)
                            /\ flush'.todo \subseteq Made',
         \A w \in Wipes : job'[w] = job[w] \/ job'[w].phase \in {"done", "lost"},
         status' # "recovering" => recovery'.todo = {}
  PROVE  VerdictInv'
<1>1. ASSUME world' = "sound", NEW w \in Wipes
      PROVE  Agreed(w)'
  BY <1>1, AgreedStays DEF VerdictInv, VerdictFacts
<1> QED BY <1>1 DEF VerdictInv, VerdictFacts
-----------------------------------------------------------------------------
(* The two files of a sound stick *)

(* A rewrite of the markers is all there is of them. *)
LEMMA SoundMarkers ==
  ASSUME StationInv, world = "sound", UNCHANGED server,
         NEW items \in SUBSET Markers, PendingUpdate(items)
  PROVE  Pending' = items /\ Made' = Made
<1>1. takes /\ reads = Files
  BY DEF StationInv, StickFacts
<1>2. stick'.pending = items /\ ram'.pending = {} /\ QueueAlone
  BY <1>1, MarkerEffect DEF StationInv
<1> QED BY <1>2 DEF Pending, Made, Waiting, QueueAlone

(* A record that is queued is all that is added. *)
LEMMA SoundQueue ==
  ASSUME StationInv, UNCHANGED server, NEW r \in Records, QueueAdd(r)
  PROVE  Pending' = Pending /\ Made' = Made \cup {r}
<1>1. MarkersAlone /\ Grows /\ r \in Waiting' /\ Waiting' \subseteq Waiting \cup {r}
  BY QueueAddEffect DEF StationInv
<1>2. Waiting' = Waiting \cup {r}
  BY <1>1 DEF Grows
<1>3. Made' = Waiting' \cup server' /\ Made = Waiting \cup server
  BY DEF Made
<1> QED BY <1>1, <1>2, <1>3 DEF Pending, MarkersAlone

-----------------------------------------------------------------------------
(* The steps of a wipe *)

LEMMA WipeVerdict ==
  ASSUME VerdictInv, StationInv', NEW w \in Wipes, Wipe(w)
  PROVE  VerdictInv'
<1>1. TypeOK /\ StationInv /\ ProcessFacts /\ Said \subseteq Records /\ Pending \subseteq Markers /\ Made \subseteq Records
  BY SaidType DEF VerdictInv, StationInv
<1>2. UNCHANGED <<env, status, flush, recovery>> /\ \A v \in Wipes \ {w} : job'[v] = job[v]
  BY <1>1 DEF Wipe, StartWipe, EngineEnds, DropRefused, Finalize, Upload, Enqueue, Unmark, Turn, TypeOK
<1>3. UNCHANGED world /\ recovery'.todo = recovery.todo
  BY <1>2 DEF env
<1>4. world = "sound" => Agreed(w)
  BY DEF VerdictInv, VerdictFacts
<1>5. job[w].phase \in {"running", "ended", "final", "failed", "kept"} => status = "up" /\ recovery.todo = {}
  BY <1>1 DEF VerdictInv, VerdictFacts, ProcessFacts
<1>6. SUFFICES ASSUME world = "sound"
               PROVE  /\ Agreed(w)' /\ Made \subseteq Made'
                      /\ \A v \in Wipes \ {w} : SaysNoMore(v)
  BY <1>2, <1>3, OneWipe DEF env
<1>7. CASE StartWipe(w)
  <2> DEFINE mark == [wipe |-> w, final |-> "none"]
             record == [wipe |-> w, out |-> "unknown"]
  <2>1. mark \in Markers /\ Leftover(mark) = record
    BY DEF Markers, Leftover
  <2>2. Pending' = Pending \cup {mark} /\ Made' = Made
    BY <1>1, <1>6, <1>7, <2>1, SoundMarkers DEF StartWipe, PendingAdd
  <2>3. \A r \in Said' : r \in Said \/ r = record
    BY <1>3, <2>1, <2>2 DEF Said, Leftover
  <2>4. job[w].phase = "idle" /\ job'[w].phase = "running"
    BY <1>1, <1>7 DEF StartWipe, Turn, Idle, TypeOK
  <2>5. \A r \in Said : r.wipe # w
    BY <1>4, <1>6, <2>4 DEF Agreed
  <2>6. \A r \in Made : r.wipe # w
    BY <2>5 DEF Said
  <2>7. record.wipe = w /\ record.out = "unknown"
    OBVIOUS
  <2> HIDE DEF mark, record
  <2> QED BY <2>2, <2>3, <2>4, <2>5, <2>6, <2>7 DEF Agreed, SaysNoMore
<1>8. CASE EngineEnds(w)
  <2>1. Pending' = Pending /\ Made' = Made
    BY <1>8 DEF EngineEnds, disk, Pending, Made, Waiting
  <2>2. Said' = Said
    BY <1>3, <2>1 DEF Said, Leftover
  <2>3. job[w].phase = "running" /\ job'[w].phase = "ended"
    BY <1>1, <1>8 DEF EngineEnds, TypeOK
  <2> QED BY <1>4, <1>6, <2>1, <2>2, <2>3 DEF Agreed, SaysNoMore
<1>9. CASE DropRefused(w)
  <2>1. Pending' = {m \in Pending : m.wipe \notin {w}} /\ Made' = Made
    BY <1>1, <1>6, <1>9, SoundMarkers DEF DropRefused, PendingRemove
  <2>2. Said' \subseteq Said
    BY <1>3, <2>1 DEF Said, Leftover
  <2>3. job'[w].phase = "done"
    BY <1>1, <1>9 DEF DropRefused, Turn, TypeOK
  <2> QED BY <1>4, <1>6, <2>1, <2>2, <2>3, AgreedStays DEF SaysNoMore
<1>10. CASE Finalize(w)
  <2> DEFINE out == job[w].out
             final(m) == IF m.wipe = w THEN [m EXCEPT !.final = out] ELSE m
  <2>1. job[w].phase = "ended" /\ out \in Outcomes
    BY <1>1, <1>10 DEF Finalize, ProcessFacts
  <2>2. \A m \in Markers : /\ final(m) \in Markers
                           /\ m.wipe = w => Leftover(final(m)) = [wipe |-> w, out |-> out]
                           /\ m.wipe # w => final(m) = m
    BY <2>1 DEF Markers, Leftover, Outcomes
  <2>3. {final(m) : m \in Pending} \subseteq Markers
    BY <1>1, <2>2
  <2>4. Pending' = {final(m) : m \in Pending} /\ Made' = Made
    BY <1>1, <1>6, <1>10, <2>3, SoundMarkers DEF Finalize, PendingFinalize
  <2>5. job'[w].phase = "final" /\ job'[w].out = out
    BY <1>1, <1>10 DEF Finalize, Turn, TypeOK
  <2>6. \A r \in Made : r.wipe # w
    BY <1>4, <1>6, <2>1 DEF Agreed
  <2>7. recovery'.todo = {} /\ recovery.todo = {}
    BY <1>3, <1>5, <2>1
  <2>8. ASSUME NEW r \in Said'
        PROVE  r \in Said \/ r = [wipe |-> w, out |-> out]
    <3>1. r \in Made \/ \E m \in Pending : r = Leftover(final(m))
      BY <2>4, <2>7 DEF Said, Leftover
    <3> HIDE DEF final, out
    <3> QED BY <1>1, <2>2, <3>1 DEF Said
  <2>9. \A r \in Said' : r.wipe = w => r = [wipe |-> w, out |-> out]
    <3> SUFFICES ASSUME NEW r \in Said', r.wipe = w
                 PROVE  r = [wipe |-> w, out |-> out]
      OBVIOUS
    <3>1. r \in Made \/ \E m \in Pending : r = Leftover(final(m))
      BY <2>4, <2>7 DEF Said, Leftover
    <3>2. PICK m \in Pending : r = Leftover(final(m))
      BY <2>6, <3>1
    <3>3. Leftover(final(m)).wipe = m.wipe
      BY <1>1, <2>2 DEF Leftover
    <3> HIDE DEF final, out
    <3> QED BY <1>1, <2>2, <3>2, <3>3
  <2> HIDE DEF final, out
  <2>10. Agreed(w)'
    BY <2>5, <2>9 DEF Agreed, RecordOf
  <2> QED BY <2>4, <2>8, <2>10 DEF SaysNoMore
<1>11. CASE Upload(w)
  <2>1. Pending' = Pending /\ Made' \subseteq Made \cup {RecordOf(w)} /\ Made \subseteq Made'
    BY <1>11 DEF Upload, Deliver, disk, Pending, Made, Waiting
  <2>2. job[w].phase = "final" /\ job'[w].phase \in {"kept", "failed"} /\ job'[w].out = job[w].out
    BY <1>1, <1>11 DEF Upload, Turn, TypeOK
  <2>3. \A r \in Said' : r \in Said \/ r = RecordOf(w)
    BY <1>3, <2>1 DEF Said, Leftover
  <2>4. RecordOf(w).wipe = w
    BY DEF RecordOf
  <2> QED BY <1>4, <1>6, <2>1, <2>2, <2>3, <2>4 DEF Agreed, SaysNoMore, RecordOf
<1>12. CASE Enqueue(w)
  <2>1. job[w].phase = "failed" /\ job'[w].phase = "kept" /\ job'[w].out = job[w].out
    BY <1>1, <1>12 DEF Enqueue, Turn, TypeOK
  <2>2. RecordOf(w) \in Records /\ RecordOf(w).wipe = w
    BY <1>1, <2>1 DEF RecordOf, Records, ProcessFacts
  <2>3. Pending' = Pending /\ Made' = Made \cup {RecordOf(w)}
    BY <1>1, <1>12, <2>2, SoundQueue DEF Enqueue
  <2>4. \A r \in Said' : r \in Said \/ r = RecordOf(w)
    BY <1>3, <2>3 DEF Said, Leftover
  <2> QED BY <1>4, <1>6, <2>1, <2>2, <2>3, <2>4 DEF Agreed, SaysNoMore, RecordOf
<1>13. CASE Unmark(w)
  <2>1. Pending' = {m \in Pending : m.wipe \notin {w}} /\ Made' = Made
    BY <1>1, <1>6, <1>13, SoundMarkers DEF Unmark, PendingRemove
  <2>2. Said' \subseteq Said
    BY <1>3, <2>1 DEF Said, Leftover
  <2>3. job'[w].phase = "done"
    BY <1>1, <1>13 DEF Unmark, Turn, TypeOK
  <2> QED BY <1>4, <1>6, <2>1, <2>2, <2>3, AgreedStays DEF SaysNoMore
<1> QED BY <1>7, <1>8, <1>9, <1>10, <1>11, <1>12, <1>13 DEF Wipe
-----------------------------------------------------------------------------
(* The flush, the recovery and the world *)

LEMMA FlushVerdict ==
  ASSUME VerdictInv, StationInv', Flush
  PROVE  VerdictInv'
<1>1. StationInv /\ VerdictFacts /\ TypeOK
  BY DEF VerdictInv, StationInv
<1>2. UNCHANGED <<env, status, job, recovery>> /\ world' = world /\ recovery'.todo = recovery.todo
  BY DEF Flush, FlushStart, FlushOne, FlushEnd, RetryDue, env
<1>3. SUFFICES ASSUME world = "sound"
               PROVE  Pending' = Pending /\ Made' \subseteq Made /\ flush'.todo \subseteq Made'
  <2>1. world = "sound" => Said' \subseteq Said
    BY <1>2, <1>3 DEF Said, Leftover
  <2>2. world = "sound" => \A w \in Wipes : SaysNoMore(w)
    BY <1>3, <2>1 DEF SaysNoMore
  <2> QED BY <1>1, <1>2, <1>3, <2>2, SaidLess DEF VerdictFacts
<1>4. flush.todo \subseteq Made /\ flush.done \subseteq server
  BY <1>1, <1>3 DEF VerdictFacts, StationInv, ThreadFacts
<1>5. CASE FlushStart
  <2>1. "queue" \in reads
    BY <1>1, <1>3 DEF StationInv, StickFacts, Files
  <2>2. flush'.todo = stick.queue \cup ram.queue
    BY <1>5, <2>1 DEF FlushStart, Loads
  <2> QED BY <1>5, <2>2 DEF FlushStart, disk, Pending, Made, Waiting
<1>6. CASE FlushOne
  <2>1. PICK r \in flush.todo : \E answer \in {"waits", "unsent", "refused", "taken", "lost"} :
          /\ Deliver(r, answer)
          /\ flush' = [flush EXCEPT !.todo = @ \ {r}, !.done = IF answer = "taken" THEN @ \cup {r} ELSE @]
          /\ UNCHANGED disk
    BY <1>6 DEF FlushOne, Answers
  <2>2. flush'.todo \subseteq flush.todo
    BY <1>1, <2>1 DEF TypeOK
  <2>3. Made' = Made /\ Pending' = Pending
    BY <1>4, <2>1 DEF Deliver, disk, Made, Waiting, Pending
  <2> QED BY <1>4, <2>2, <2>3
<1>7. CASE FlushEnd
  <2>1. MarkersAlone /\ Waiting' \subseteq Waiting
    BY <1>1, <1>7, FlushEndEffect
  <2>2. server' = server /\ flush'.todo = {}
    BY <1>7 DEF FlushEnd, NoFlush
  <2> QED BY <2>1, <2>2 DEF MarkersAlone, Pending, Made
<1>8. CASE RetryDue
  BY <1>4, <1>8 DEF RetryDue, disk, Pending, Made, Waiting
<1> QED BY <1>5, <1>6, <1>7, <1>8 DEF Flush

LEMMA RecoverVerdict ==
  ASSUME VerdictInv, StationInv', Recover
  PROVE  VerdictInv'
<1>1. StationInv /\ VerdictFacts /\ TypeOK /\ Pending \subseteq Markers
  BY SaidType DEF VerdictInv, StationInv
<1>2. UNCHANGED <<env, job, flush, server>> /\ world' = world /\ status # "up"
  BY DEF Recover, Boot, RecoverOne, RecoverEnd, env
<1>3. \A w \in Wipes : job[w].phase \notin {"running", "ended"}
  BY <1>1, <1>2 DEF StationInv, ProcessFacts
<1>4. SUFFICES ASSUME world = "sound"
               PROVE  Said' \subseteq Said /\ Made \subseteq Made'
  <2>1. status' # "recovering" => recovery'.todo = {}
    BY DEF Recover, Boot, RecoverOne, RecoverEnd, NoRecovery
  <2>2. world = "sound" => (\A w \in Wipes : SaysNoMore(w)) /\ flush'.todo \subseteq Made'
    BY <1>1, <1>2, <1>3, <1>4 DEF SaysNoMore, VerdictFacts
  <2> QED BY <1>2, <2>1, <2>2, SaidLess
<1>5. CASE Boot
  <2>1. "pending" \in reads
    BY <1>1, <1>4 DEF StationInv, StickFacts, Files
  <2>2. recovery'.todo = Pending
    BY <1>5, <2>1 DEF Boot, Loads, Pending
  <2>3. Pending' = Pending /\ Made' = Made
    BY <1>2, <1>5 DEF Boot, disk, Pending, Made, Waiting
  <2> QED BY <2>2, <2>3 DEF Said, Leftover
<1>6. CASE RecoverOne
  <2>1. PICK m \in recovery.todo : QueueAdd(Leftover(m)) /\ recovery'.todo = recovery.todo \ {m}
    BY <1>6 DEF RecoverOne
  <2>2. m \in Markers /\ Leftover(m) \in Records
    BY <1>1 DEF TypeOK, Markers, Records, Leftover, Outcomes
  <2>3. Pending' = Pending /\ Made' = Made \cup {Leftover(m)}
    BY <1>1, <1>2, <2>1, <2>2, SoundQueue
  <2>4. Leftover(m) \in Said
    BY DEF Said
  <2> QED BY <2>1, <2>3, <2>4 DEF Said, Leftover
<1>7. CASE RecoverEnd
  <2>1. recovery'.todo = {}
    BY <1>7 DEF RecoverEnd, NoRecovery
  <2>2. Pending' \subseteq Pending /\ Made' = Made
    <3>1. CASE recovery.filed = {}
      BY <1>2, <1>7, <3>1 DEF RecoverEnd, disk, Pending, Made, Waiting
    <3>2. CASE recovery.filed # {}
      BY <1>1, <1>2, <1>4, <1>7, <3>2, SoundMarkers DEF RecoverEnd, PendingRemove
    <3> QED BY <3>1, <3>2
  <2> QED BY <2>1, <2>2 DEF Said, Leftover
<1> QED BY <1>5, <1>6, <1>7 DEF Recover

LEMMA EnvironmentVerdict ==
  ASSUME VerdictInv, StationInv', Environment \/ UNCHANGED vars
  PROVE  VerdictInv'
<1>1. StationInv /\ VerdictFacts /\ TypeOK
  BY DEF VerdictInv, StationInv
<1>2. CASE Forget /\ (Restart \/ PowerOff)
  <2>1. world' = world /\ server' = server /\ stick' = stick /\ recovery'.todo = {} /\ flush'.todo = {}
    BY <1>2 DEF Forget, NoRecovery, NoFlush
  <2>2. \A w \in Wipes : job'[w] = job[w] \/ job'[w].phase \in {"done", "lost"}
    BY <1>1, <1>2 DEF Forget, TypeOK
  <2>3. \A f \in Files : ram'[f] \subseteq ram[f]
    BY <1>1, <1>2 DEF Restart, PowerOff, Files, TypeOK, File
  <2>4. Pending' \subseteq Pending /\ Made' \subseteq Made
    BY <2>1, <2>3 DEF Pending, Made, Waiting, Files
  <2>5. Said' \subseteq Said
    BY <2>1, <2>4 DEF Said, Leftover
  <2>6. \A w \in Wipes : SaysNoMore(w)
    BY <2>4, <2>5 DEF SaysNoMore
  <2> QED BY <2>1, <2>2, <2>6, SaidLess
<1>3. CASE ~(Restart \/ PowerOff)
  <2>1. UNCHANGED <<disk, status, job, flush, recovery, server, world>>
    BY <1>3 DEF Environment, StickRefuses, StickUnreadable, Network, ServerMind, Change, vars, disk
  <2>2. Pending' = Pending /\ Made' = Made
    BY <2>1 DEF disk, Pending, Made, Waiting
  <2>3. Said' = Said
    BY <2>1, <2>2 DEF Said, Leftover
  <2>4. \A w \in Wipes : SaysNoMore(w)
    BY <2>2, <2>3 DEF SaysNoMore
  <2> QED BY <1>1, <2>1, <2>2, <2>4, SaidLess DEF VerdictFacts
<1> QED BY <1>2, <1>3 DEF Restart, PowerOff

-----------------------------------------------------------------------------
(* The theorem *)

LEMMA VerdictInit == Init => VerdictInv
<1> SUFFICES ASSUME Init PROVE VerdictInv
  OBVIOUS
<1>1. recovery.todo = {} /\ flush.todo = {} /\ Said = {} /\ Made = {}
  BY DEF Init, NoRecovery, NoFlush, Said, Made, Waiting, Pending, Files
<1>2. \A w \in Wipes : Agreed(w)
  BY <1>1 DEF Agreed, Init, Idle
<1> QED BY <1>1, <1>2, InitInv DEF VerdictInv, VerdictFacts

LEMMA VerdictNext == VerdictInv /\ [Next]_vars => VerdictInv'
<1> SUFFICES ASSUME VerdictInv, [Next]_vars PROVE VerdictInv'
  OBVIOUS
<1>1. StationInv'
  BY NextInv DEF VerdictInv
<1>2. ASSUME NEW w \in Wipes, Wipe(w)
      PROVE  VerdictInv'
  BY <1>1, <1>2, WipeVerdict
<1> QED BY <1>1, <1>2, FlushVerdict, RecoverVerdict, EnvironmentVerdict DEF Next

(* On a sound stick a wipe whose record was made is never filed again as an unknown
   outcome, wherever the process restarts or the power is cut between its marker,
   its record, its upload and the queue. *)
THEOREM VerdictsAgree == Spec => []OneVerdict
<1>1. VerdictInv => OneVerdict
  <2> SUFFICES ASSUME VerdictInv, world = "sound", NEW r \in Made, NEW q \in Made, r.wipe = q.wipe
               PROVE  r = q
    BY DEF OneVerdict
  <2>1. r.wipe \in Wipes
    BY SaidType DEF VerdictInv, StationInv, Records
  <2> QED BY <2>1 DEF VerdictInv, VerdictFacts, Agreed, Said
<1> QED
  BY <1>1, VerdictInit, VerdictNext, PTL DEF Spec

-----------------------------------------------------------------------------
(* The station implements its queue *)

LEMMA StepIsQueueStep == [StationNext]_stationVars => [Next]_vars
<1> SUFFICES ASSUME [StationNext]_stationVars PROVE [Next]_vars
  OBVIOUS
<1>1. ASSUME NEW w \in Wipes, Begin(w) \/ Engine(w) \/ Collect(w) \/ Unread(w) \/ Record(w)
      PROVE  [Next]_vars
  BY <1>1 DEF Begin, Engine, Collect, Unread, Record, Next, Wipe
<1>2. CASE (Flush \/ Recover \/ Troubles) \/ PowerOff
  BY <1>2 DEF Next, Troubles, Environment
<1>3. CASE UNCHANGED vars
  BY <1>3
<1> QED BY <1>1, <1>2, <1>3 DEF StationNext, stationVars

(* With its engines the station behaves as StationQueue says it does. *)
THEOREM StationImplementsQueue == StationSpec => Spec
<1>1. StationInit => Init
  BY DEF StationInit
<1> QED BY <1>1, StepIsQueueStep, PTL DEF StationSpec, Spec
-----------------------------------------------------------------------------
(* The engines *)

IsDrive(d) ==
  DOMAIN d = {"bus", "barred", "holds", "flash", "max", "sees", "does", "earlier", "siblings", "formatsAll", "op", "log"}

IsEngine(e) == DOMAIN e = {"pc", "todo", "fresh", "lifted", "counts", "kind", "said", "status"}

\* The engine is past its checks, and has not read the drive back.
Erasing == {"firmware", "sanitizing", "judge", "overwrite", "readback"}

\* A hidden end that an overwrite reaches, and one that a reset took away again.
Open(d) == d.max = "lifted" /\ d.sees

Back(d, e) == d.max = "set" /\ (d.earlier \/ e.lifted)

\* Where an engine stands with a drive that holds old data in l: what is hidden is
\* spoken of, open to the erase, or gone back; and once it was read back, the rest is gone.
Sound(l, d, e) ==
  /\ IsDrive(d) /\ IsEngine(e)
  /\ "hpa" \in l => d.max \in {"set", "lifted"}
  /\ d.max = "lifted" /\ e.pc # "told" => d.earlier \/ (e.lifted /\ e.pc # "asked")
  /\ d.bus = "nvme" => "hpa" \notin l /\ "dco" \notin l
  /\ e.pc \in Erasing \cup {"closing"} => ("dco" \in l => "dco" \in e.said)
  /\ e.pc \in Erasing => ("hpa" \in l => "hpa" \in e.said \/ Open(d) \/ Back(d, e))
  /\ e.pc = "closing" => /\ "user" \notin l
                         /\ "hpa" \in l => "hpa" \in e.said \/ Back(d, e)
  /\ e.pc = "told" /\ e.status = "wiped" =>
       /\ "user" \notin l
       /\ "dco" \in l => "dco" \in e.said
       /\ "hpa" \in l => "hpa" \in e.said \/ (d.earlier /\ d.max = "set")

EngineInv ==
  /\ left = [w \in Wipes |-> left[w]] /\ drive = [w \in Wipes |-> drive[w]] /\ eng = [w \in Wipes |-> eng[w]]
  /\ \A w \in Wipes : eng[w] = E!Off \/ Sound(left[w], drive[w], eng[w])

(* One engine moves, or its drive does. *)
LEMMA OneEngine ==
  ASSUME EngineInv, NEW w \in Wipes, NEW l, NEW d, NEW e,
         left' = [left EXCEPT ![w] = l], drive' = [drive EXCEPT ![w] = d], eng' = [eng EXCEPT ![w] = e],
         e = E!Off \/ Sound(l, d, e)
  PROVE  EngineInv'
<1>1. left'[w] = l /\ drive'[w] = d /\ eng'[w] = e
  BY DEF EngineInv
<1>2. \A v \in Wipes \ {w} : left'[v] = left[v] /\ drive'[v] = drive[v] /\ eng'[v] = eng[v]
  BY DEF EngineInv
<1>3. \A v \in Wipes : eng'[v] = E!Off \/ Sound(left'[v], drive'[v], eng'[v])
  BY <1>1, <1>2 DEF EngineInv
<1>4. left' = [v \in Wipes |-> left'[v]] /\ drive' = [v \in Wipes |-> drive'[v]] /\ eng' = [v \in Wipes |-> eng'[v]]
  BY DEF EngineInv
<1> QED BY <1>3, <1>4 DEF EngineInv

(* The engine says how it ended, and it was not that the drive is wiped. *)
LEMMA TellInv ==
  ASSUME EngineInv, NEW w \in Wipes, eng[w] # E!Off, NEW how \in {"refused", "failed"}, E!Tell(w, how),
         UNCHANGED left, NEW d, drive' = [drive EXCEPT ![w] = d], IsDrive(d),
         d.bus = drive[w].bus, d.max \in {drive[w].max, "lifted"}
  PROVE  EngineInv'
<1> DEFINE e == [eng[w] EXCEPT !.pc = "told", !.status = how, !.todo = <<>>]
<1>1. eng' = [eng EXCEPT ![w] = e] /\ left' = [left EXCEPT ![w] = left[w]]
  BY DEF E!Tell, EngineInv
<1>2. Sound(left[w], drive[w], eng[w])
  BY DEF EngineInv
<1>3. IsEngine(e) /\ e.pc = "told" /\ e.status # "wiped"
  BY <1>2 DEF Sound, IsEngine
<1>4. Sound(left[w], d, e)
  BY <1>2, <1>3 DEF Sound, Erasing
<1> HIDE DEF e
<1> QED BY <1>1, <1>4, OneEngine
\* The engine moves to e, and takes nothing back.
Moves(w, e) ==
  /\ eng' = [eng EXCEPT ![w] = e] /\ IsEngine(e)
  /\ e.lifted = eng[w].lifted /\ eng[w].said \subseteq e.said

\* What matters of a drive stays.
SameDrive(w, d) ==
  /\ drive' = [drive EXCEPT ![w] = d] /\ IsDrive(d)
  /\ d.max = drive[w].max /\ d.sees = drive[w].sees /\ d.earlier = drive[w].earlier /\ d.bus = drive[w].bus

(* An engine that erases, and has not read the drive back. *)
LEMMA ErasingInv ==
  ASSUME EngineInv, NEW w \in Wipes, eng[w].pc \in Erasing,
         NEW e, Moves(w, e), e.pc \in Erasing, NEW d, SameDrive(w, d),
         NEW l, left' = [left EXCEPT ![w] = l], l \cap {"hpa", "dco"} \subseteq left[w]
  PROVE  EngineInv'
<1>1. eng[w] # E!Off
  BY DEF E!Off, Erasing
<1>2. Sound(left[w], drive[w], eng[w])
  BY <1>1 DEF EngineInv
<1>3. Sound(l, d, e)
  BY <1>2 DEF Sound, Moves, SameDrive, Open, Back, Erasing
<1> QED BY <1>3, OneEngine DEF Moves, SameDrive

(* On to the next method, or to the overwrite. *)
LEMMA ThenEffect ==
  ASSUME EngineInv, NEW w \in Wipes, eng[w] # E!Off, NEW rest
  PROVE  \E e : /\ E!Then(w, rest) = [eng EXCEPT ![w] = e]
                /\ IsEngine(e) /\ e.pc \in Erasing
                /\ e.lifted = eng[w].lifted /\ e.said = eng[w].said
<1> DEFINE pc == IF rest = <<>> THEN "overwrite" ELSE "firmware"
           e == [eng[w] EXCEPT !.todo = rest, !.fresh = FALSE, !.pc = pc]
<1>1. IsEngine(eng[w])
  BY DEF EngineInv, Sound
<1>2. pc \in Erasing
  BY DEF Erasing
<1> HIDE DEF pc
<1>3. IsEngine(e) /\ e.pc = pc /\ e.lifted = eng[w].lifted /\ e.said = eng[w].said
  BY <1>1 DEF IsEngine
<1>4. E!Then(w, rest) = [eng EXCEPT ![w] = e]
  BY DEF E!Then, pc, EngineInv
<1> HIDE DEF e
<1> QED BY <1>2, <1>3, <1>4

(* The steps that change nothing on the drive, and try the next method. *)
LEMMA NextMethod ==
  ASSUME EngineInv, NEW w \in Wipes, eng[w].pc \in Erasing, NEW rest, eng' = E!Then(w, rest),
         UNCHANGED <<left, drive>>
  PROVE  EngineInv'
<1>1. eng[w] # E!Off
  BY DEF E!Off, Erasing
<1>2. PICK e : /\ E!Then(w, rest) = [eng EXCEPT ![w] = e]
               /\ IsEngine(e) /\ e.pc \in Erasing
               /\ e.lifted = eng[w].lifted /\ e.said = eng[w].said
  BY <1>1, ThenEffect
<1>3. Moves(w, e)
  BY <1>2 DEF Moves
<1>4. SameDrive(w, drive[w]) /\ left' = [left EXCEPT ![w] = left[w]]
  BY <1>1 DEF SameDrive, EngineInv, Sound
<1> QED BY <1>2, <1>3, <1>4, ErasingInv
(* The drive's own erase commands. *)
LEMMA CommandsInv ==
  ASSUME EngineInv, NEW w \in Wipes,
         \/ E!AtaFails(w) \/ E!AtaErase(w) \/ E!SanitizeFails(w) \/ E!Sanitize(w)
         \/ E!Poll(w) \/ E!GiveUp(w) \/ E!Format(w)
  PROVE  EngineInv'
<1>1. eng[w].pc \in {"firmware", "sanitizing"} /\ eng[w].pc \in Erasing
  BY DEF E!AtaFails, E!AtaErase, E!SanitizeFails, E!Sanitize, E!Poll, E!GiveUp, E!Format, E!Trying, E!At, Erasing
<1>2. eng[w] # E!Off
  BY <1>1 DEF E!Off
<1>3. IsEngine(eng[w]) /\ IsDrive(drive[w])
  BY <1>2 DEF EngineInv, Sound
<1>4. drive' = drive => SameDrive(w, drive[w])
  BY <1>3 DEF SameDrive, EngineInv
<1>5. left' = left => left' = [left EXCEPT ![w] = left[w]]
  BY DEF EngineInv
<1>6. ASSUME NEW regions, E!Erases(w, regions)
      PROVE  \E l : left' = [left EXCEPT ![w] = l] /\ l \cap {"hpa", "dco"} \subseteq left[w]
  BY <1>5, <1>6 DEF E!Erases
<1>7. CASE E!AtaFails(w) \/ E!SanitizeFails(w) \/ E!GiveUp(w)
  BY <1>1, <1>7, NextMethod DEF E!AtaFails, E!SanitizeFails, E!GiveUp
<1>8. CASE E!AtaErase(w)
  <2>1. PICK enhanced \in BOOLEAN :
          /\ E!Erases(w, E!InReach(w) \cup (IF enhanced THEN E!Bad ELSE {}))
          /\ eng' = [eng EXCEPT ![w].pc = "judge", ![w].todo = <<>>, ![w].kind = IF enhanced THEN "purge" ELSE "ata-normal"]
    BY <1>8 DEF E!AtaErase
  <2> DEFINE kind == IF enhanced THEN "purge" ELSE "ata-normal"
             e == [eng[w] EXCEPT !.pc = "judge", !.todo = <<>>, !.kind = kind]
  <2>2. eng' = [eng EXCEPT ![w] = e]
    BY <2>1 DEF EngineInv
  <2> HIDE DEF kind
  <2>3. Moves(w, e) /\ e.pc \in Erasing
    BY <1>3, <2>2 DEF Moves, IsEngine, Erasing
  <2> HIDE DEF e
  <2> QED BY <1>1, <1>4, <1>6, <1>8, <2>1, <2>3, ErasingInv DEF E!AtaErase
<1>9. CASE E!Sanitize(w)
  <2>1. PICK act \in {"crypto", "block"}, read \in BOOLEAN :
          /\ eng' = [eng EXCEPT ![w].pc = "sanitizing", ![w].fresh = ~read \/ E!Stale(w, act)]
          /\ drive' = IF drive[w].does = "skips" THEN drive ELSE [drive EXCEPT ![w].op = act]
    BY <1>9 DEF E!Sanitize
  <2> DEFINE fresh == ~read \/ E!Stale(w, act)
             e == [eng[w] EXCEPT !.pc = "sanitizing", !.fresh = fresh]
             d == IF drive[w].does = "skips" THEN drive[w] ELSE [drive[w] EXCEPT !.op = act]
  <2> HIDE DEF fresh
  <2>2. eng' = [eng EXCEPT ![w] = e]
    BY <2>1 DEF EngineInv, fresh
  <2>3. Moves(w, e) /\ e.pc \in Erasing
    BY <1>3, <2>2 DEF Moves, IsEngine, Erasing
  <2>4. SameDrive(w, d)
    BY <1>3, <2>1 DEF SameDrive, IsDrive, EngineInv
  <2> HIDE DEF e, d
  <2> QED BY <1>1, <1>5, <1>9, <2>3, <2>4, ErasingInv DEF E!Sanitize
<1>10. CASE E!Poll(w)
  <2>1. PICK next \in {"runs", "done", "failed"} :
          CASE next = "runs" -> eng' = [eng EXCEPT ![w].fresh = FALSE]
            [] next = "done" -> eng' = [eng EXCEPT ![w].pc = "judge", ![w].kind = "purge", ![w].todo = <<>>]
            [] next = "failed" -> eng' = E!Then(w, Tail(eng[w].todo))
    BY <1>10 DEF E!Poll
  <2>2. CASE next = "failed"
    BY <1>1, <1>10, <2>1, <2>2, NextMethod DEF E!Poll
  <2>3. CASE next # "failed"
    <3> DEFINE e == IF next = "runs" THEN [eng[w] EXCEPT !.fresh = FALSE]
                    ELSE [eng[w] EXCEPT !.pc = "judge", !.kind = "purge", !.todo = <<>>]
    <3>1. eng' = [eng EXCEPT ![w] = e]
      BY <2>1, <2>3 DEF EngineInv
    <3>2. Moves(w, e) /\ e.pc \in Erasing
      BY <1>1, <1>3, <3>1 DEF Moves, IsEngine, Erasing
    <3> HIDE DEF e
    <3> QED BY <1>1, <1>4, <1>5, <1>10, <3>2, ErasingInv DEF E!Poll
  <2> QED BY <2>2, <2>3
<1>11. CASE E!Format(w)
  <2>1. CASE eng' = E!Then(w, <<>>) /\ UNCHANGED left
    BY <1>1, <1>11, <2>1, NextMethod DEF E!Format
  <2>2. CASE /\ E!Erases(w, E!Regions)
             /\ eng' = [eng EXCEPT ![w].pc = "judge", ![w].kind = "purge", ![w].todo = <<>>]
    <3> DEFINE e == [eng[w] EXCEPT !.pc = "judge", !.kind = "purge", !.todo = <<>>]
    <3>1. eng' = [eng EXCEPT ![w] = e]
      BY <2>2 DEF EngineInv
    <3>2. Moves(w, e) /\ e.pc \in Erasing
      BY <1>3, <3>1 DEF Moves, IsEngine, Erasing
    <3> HIDE DEF e
    <3> QED BY <1>1, <1>4, <1>6, <1>11, <2>2, <3>2, ErasingInv DEF E!Format
  <2>3. CASE eng' = [E!Then(w, <<>>) EXCEPT ![w].said = @ \cup {"siblings"}] /\ UNCHANGED left
    <3>1. PICK t : /\ E!Then(w, <<>>) = [eng EXCEPT ![w] = t]
                   /\ IsEngine(t) /\ t.pc \in Erasing
                   /\ t.lifted = eng[w].lifted /\ t.said = eng[w].said
      BY <1>2, ThenEffect
    <3> DEFINE e == [t EXCEPT !.said = @ \cup {"siblings"}]
    <3>2. eng' = [eng EXCEPT ![w] = e]
      BY <2>3, <3>1 DEF EngineInv
    <3>3. Moves(w, e) /\ e.pc \in Erasing
      BY <3>1, <3>2 DEF Moves, IsEngine
    <3> HIDE DEF e
    <3> QED BY <1>1, <1>4, <1>5, <1>11, <2>3, <3>3, ErasingInv DEF E!Format
  <2> QED BY <1>11, <2>1, <2>2, <2>3 DEF E!Format
<1> QED BY <1>7, <1>8, <1>9, <1>10, <1>11
(* The end of the checks: the engine that goes on has looked for hidden areas. *)
LEMMA ProceedInv ==
  ASSUME EngineInv, NEW w \in Wipes, E!At(w, "asked"), UNCHANGED left,
         NEW lifted \in BOOLEAN, NEW said, E!Proceed(w, lifted, said),
         NEW d, drive' = [drive EXCEPT ![w] = d], IsDrive(d), d.bus = drive[w].bus,
         d.max \in {drive[w].max, "lifted"}, d.max = "lifted" => d.earlier \/ lifted,
         "dco" \in left[w] => "dco" \in said,
         "hpa" \in left[w] => "hpa" \in said \/ Open(d)
  PROVE  EngineInv'
<1>1. eng[w] # E!Off /\ eng[w].pc = "asked"
  BY DEF E!Off, E!At
<1>2. PICK c : eng' = [E!Then(w, eng[w].todo) EXCEPT ![w].lifted = lifted, ![w].said = said, ![w].counts = c]
  BY DEF E!Proceed
<1>3. PICK t : /\ E!Then(w, eng[w].todo) = [eng EXCEPT ![w] = t]
               /\ IsEngine(t) /\ t.pc \in Erasing
  BY <1>1, ThenEffect
<1> DEFINE e == [t EXCEPT !.lifted = lifted, !.said = said, !.counts = c]
<1>4. eng' = [eng EXCEPT ![w] = e]
  BY <1>2, <1>3 DEF EngineInv
<1>5. IsEngine(e) /\ e.pc \in Erasing /\ e.lifted = lifted /\ e.said = said
  BY <1>3 DEF IsEngine
<1> HIDE DEF e
<1>6. Sound(left[w], drive[w], eng[w])
  BY <1>1 DEF EngineInv
<1>7. Sound(left[w], d, e)
  BY <1>5, <1>6 DEF Sound, Erasing
<1>8. left' = [left EXCEPT ![w] = left[w]]
  BY DEF EngineInv
<1> QED BY <1>4, <1>7, <1>8, OneEngine

LEMMA ChecksInv ==
  ASSUME EngineInv, NEW w \in Wipes,
         E!Refuse(w) \/ E!NvmeFirst(w) \/ E!HiddenPresent(w) \/ E!HiddenClear(w)
  PROVE  EngineInv'
<1>0. E!At(w, "asked")
  BY DEF E!Refuse, E!NvmeFirst, E!HiddenPresent, E!HiddenClear
<1>1. E!At(w, "asked") /\ eng[w] # E!Off /\ eng[w].pc = "asked"
  BY <1>0 DEF E!At, E!Off
<1>2. Sound(left[w], drive[w], eng[w]) /\ IsDrive(drive[w])
  BY <1>1 DEF EngineInv, Sound
<1>3. drive' = drive => drive' = [drive EXCEPT ![w] = drive[w]]
  BY DEF EngineInv
<1>4. ASSUME NEW how \in {"refused", "failed"}, E!Tell(w, how), UNCHANGED <<left, drive>>
      PROVE  EngineInv'
  BY <1>1, <1>2, <1>3, <1>4, TellInv
<1>5. CASE E!Refuse(w)
  BY <1>4, <1>5 DEF E!Refuse
<1>6. CASE E!NvmeFirst(w)
  <2>1. PICK todo : eng' = E!Then(w, todo) /\ UNCHANGED <<left, drive>> /\ drive[w].bus = "nvme"
    BY <1>6 DEF E!NvmeFirst
  <2>2. PICK e : /\ E!Then(w, todo) = [eng EXCEPT ![w] = e]
                 /\ IsEngine(e) /\ e.pc \in Erasing
                 /\ e.lifted = eng[w].lifted /\ e.said = eng[w].said
    BY <1>1, ThenEffect
  <2>3. Sound(left[w], drive[w], e)
    BY <1>1, <1>2, <2>1, <2>2 DEF Sound, Erasing
  <2>4. left' = [left EXCEPT ![w] = left[w]] /\ drive' = [drive EXCEPT ![w] = drive[w]]
    BY <2>1 DEF EngineInv
  <2>5. eng' = [eng EXCEPT ![w] = e]
    BY <2>1, <2>2
  <2> QED BY <2>3, <2>4, <2>5, OneEngine
<1>7. CASE E!HiddenPresent(w)
  <2>1. PICK a \in E!Answers(w) :
       \/ /\ a.dco /\ "dco" \in left[w]
          /\ E!Tell(w, "failed") /\ UNCHANGED drive
       \/ /\ ~(a.dco /\ "dco" \in left[w]) /\ a.max /\ drive[w].max = "set"
          /\ \/ E!Tell(w, "failed") /\ UNCHANGED drive
             \/ \E sees \in BOOLEAN :
                  /\ E!HpaRemove(w, sees)
                  /\ IF sees THEN E!Proceed(w, TRUE, IF a.dco THEN {} ELSE {"dco"})
                             ELSE E!Tell(w, "failed")
    BY <1>7 DEF E!HiddenPresent
  <2>2. CASE E!Tell(w, "failed") /\ UNCHANGED drive
    BY <1>4, <1>7, <2>2 DEF E!HiddenPresent
  <2>3. ASSUME NEW sees \in BOOLEAN, E!HpaRemove(w, sees), ~(a.dco /\ "dco" \in left[w]),
               IF sees THEN E!Proceed(w, TRUE, IF a.dco THEN {} ELSE {"dco"}) ELSE E!Tell(w, "failed")
        PROVE  EngineInv'
    <3> DEFINE d == [drive[w] EXCEPT !.max = "lifted", !.sees = sees]
    <3>1. drive' = [drive EXCEPT ![w] = d]
      BY <2>3 DEF E!HpaRemove, EngineInv
    <3>2. IsDrive(d) /\ d.max = "lifted" /\ d.sees = sees /\ d.bus = drive[w].bus
      BY <1>2 DEF IsDrive
    <3> HIDE DEF d
    <3>3. left' = left
      BY <1>7 DEF E!HiddenPresent
    <3>4. CASE sees
      BY <1>1, <2>3, <3>1, <3>2, <3>3, <3>4, ProceedInv DEF Open
    <3>5. CASE ~sees
      BY <1>1, <2>3, <3>1, <3>2, <3>3, <3>5, TellInv
    <3> QED BY <3>4, <3>5
  <2> QED BY <2>1, <2>2, <2>3
<1>8. CASE E!HiddenClear(w)
  <2>1. PICK a \in E!Answers(w), sees \in BOOLEAN :
          /\ ~(a.dco /\ "dco" \in left[w]) /\ ~(a.max /\ drive[w].max = "set")
          /\ E!KernelWhole(w, a, sees)
          /\ IF a.max /\ ~sees THEN E!Tell(w, "failed")
             ELSE E!Proceed(w, FALSE, IF a.max /\ a.dco THEN {} ELSE {"hpa", "dco"})
    BY <1>8 DEF E!HiddenClear
  <2> DEFINE d == [drive[w] EXCEPT !.sees = sees]
             said == IF a.max /\ a.dco THEN {} ELSE {"hpa", "dco"}
  <2>2. drive' = [drive EXCEPT ![w] = d]
    BY <2>1 DEF E!KernelWhole, EngineInv
  <2>3. IsDrive(d) /\ d.max = drive[w].max /\ d.sees = sees /\ d.bus = drive[w].bus /\ d.earlier = drive[w].earlier
    BY <1>2 DEF IsDrive
  <2> HIDE DEF d
  <2>4. left' = left
    BY <1>8 DEF E!HiddenClear
  <2>5. CASE a.max /\ ~sees
    BY <1>1, <2>1, <2>2, <2>3, <2>4, <2>5, TellInv
  <2>6. CASE ~(a.max /\ ~sees)
    <3>1. "dco" \in left[w] => "dco" \in said
      BY <2>1
    <3>2. "hpa" \in left[w] => "hpa" \in said \/ Open(d)
      BY <1>2, <2>1, <2>3, <2>6 DEF Sound, Open
    <3>3. d.max = "lifted" => d.earlier \/ FALSE
      BY <1>1, <1>2, <2>3 DEF Sound
    <3>4. E!Proceed(w, FALSE, said)
      BY <2>1, <2>6
    <3> HIDE DEF said
    <3> QED BY <1>1, <2>2, <2>3, <2>4, <3>1, <3>2, <3>3, <3>4, ProceedInv
  <2> QED BY <2>5, <2>6
<1> QED BY <1>5, <1>6, <1>7, <1>8
(* The read-back, the overwrite and the verdict. *)
LEMMA VerdictStepsInv ==
  ASSUME EngineInv, NEW w \in Wipes,
         E!Judge(w) \/ E!Overwrite(w) \/ E!OverwriteFails(w) \/ E!ReadBack(w) \/ E!Close(w)
  PROVE  EngineInv'
<1>0. eng[w].pc \in {"judge", "overwrite", "readback", "closing"}
  BY DEF E!Judge, E!Overwrite, E!OverwriteFails, E!ReadBack, E!Close, E!At
<1>1. eng[w] # E!Off
  BY <1>0 DEF E!Off
<1>2. Sound(left[w], drive[w], eng[w]) /\ IsDrive(drive[w]) /\ IsEngine(eng[w])
  BY <1>1 DEF EngineInv, Sound
<1>3. drive' = drive => drive' = [drive EXCEPT ![w] = drive[w]] /\ SameDrive(w, drive[w])
  BY <1>2 DEF EngineInv, SameDrive
<1>4. left' = left => left' = [left EXCEPT ![w] = left[w]]
  BY DEF EngineInv
<1>5. ASSUME E!Tell(w, "failed"), UNCHANGED <<left, drive>>
      PROVE  EngineInv'
  BY <1>1, <1>2, <1>3, <1>5, TellInv
<1>6. ASSUME "clean" \in E!Verdicts(w), E!Go(w, "closing"), UNCHANGED <<left, drive>>, eng[w].pc \in Erasing
      PROVE  EngineInv'
  <2> DEFINE e == [eng[w] EXCEPT !.pc = "closing"]
  <2>1. eng' = [eng EXCEPT ![w] = e]
    BY <1>6 DEF E!Go, EngineInv
  <2>2. IsEngine(e) /\ e.pc = "closing" /\ e.lifted = eng[w].lifted /\ e.said = eng[w].said
    BY <1>2 DEF IsEngine
  <2> HIDE DEF e
  <2>3. left[w] \cap E!InReach(w) = {}
    BY <1>6 DEF E!Verdicts
  <2>4. "user" \notin left[w] /\ ("hpa" \in left[w] => ~Open(drive[w]))
    BY <2>3 DEF E!InReach, Open
  <2>5. Sound(left[w], drive[w], e)
    BY <1>2, <1>6, <2>2, <2>4 DEF Sound, Back, Erasing
  <2> QED BY <1>3, <1>4, <1>6, <2>1, <2>5, OneEngine
<1>7. CASE E!Judge(w)
  <2>1. PICK v \in E!Verdicts(w) :
       CASE v = "unverified" -> E!Tell(w, "failed")
         [] v = "clean" -> E!Go(w, "closing")
         [] v = "found" -> eng' = [E!Then(w, <<>>) EXCEPT ![w].kind = "none"]
    BY <1>7 DEF E!Judge
  <2>2. UNCHANGED <<left, drive>> /\ eng[w].pc \in Erasing
    BY <1>7 DEF E!Judge, E!At, Erasing
  <2>3. CASE v = "unverified"
    BY <1>5, <2>1, <2>2, <2>3
  <2>4. CASE v = "clean"
    BY <1>6, <2>1, <2>2, <2>4
  <2>5. CASE v = "found"
    <3>1. PICK t : /\ E!Then(w, <<>>) = [eng EXCEPT ![w] = t]
                   /\ IsEngine(t) /\ t.pc \in Erasing
                   /\ t.lifted = eng[w].lifted /\ t.said = eng[w].said
      BY <1>1, ThenEffect
    <3> DEFINE e == [t EXCEPT !.kind = "none"]
    <3>2. eng' = [eng EXCEPT ![w] = e]
      BY <2>1, <2>5, <3>1 DEF EngineInv
    <3>3. Moves(w, e) /\ e.pc \in Erasing
      BY <3>1, <3>2 DEF Moves, IsEngine
    <3> HIDE DEF e
    <3> QED BY <1>3, <1>4, <2>2, <3>3, ErasingInv
  <2> QED BY <2>3, <2>4, <2>5 DEF E!Verdicts
<1>8. CASE E!Overwrite(w)
  <2>1. PICK worn \in {{}, {"late"}} : left' = [left EXCEPT ![w] = (@ \ E!InReach(w)) \cup worn]
    BY <1>8 DEF E!Overwrite
  <2> DEFINE l == (left[w] \ E!InReach(w)) \cup worn
             e == [eng[w] EXCEPT !.pc = "readback", !.kind = "overwrite"]
  <2>2. left' = [left EXCEPT ![w] = l] /\ l \cap {"hpa", "dco"} \subseteq left[w]
    BY <2>1 DEF EngineInv
  <2>3. eng' = [eng EXCEPT ![w] = e]
    BY <1>8 DEF E!Overwrite, EngineInv
  <2>4. Moves(w, e) /\ e.pc \in Erasing
    BY <1>2, <2>3 DEF Moves, IsEngine, Erasing
  <2>5. eng[w].pc \in Erasing /\ drive' = drive
    BY <1>8 DEF E!Overwrite, E!At, Erasing
  <2> HIDE DEF l, e
  <2> QED BY <1>3, <2>2, <2>4, <2>5, ErasingInv
<1>9. CASE E!OverwriteFails(w)
  BY <1>5, <1>9 DEF E!OverwriteFails
<1>10. CASE E!ReadBack(w)
  <2>1. eng[w].pc \in Erasing
    BY <1>10 DEF E!ReadBack, E!At, Erasing
  <2> QED BY <1>5, <1>6, <1>10, <2>1 DEF E!ReadBack
<1>11. CASE E!Close(w)
  <2>1. CASE E!Tell(w, "failed")
    BY <1>5, <1>11, <2>1 DEF E!Close
  <2>2. CASE E!StillWhole(w) /\ \E after \in E!Counts(w) :
               eng' = [eng EXCEPT ![w].pc = "told", ![w].status = "wiped", ![w].said = @ \cup E!Assess(w, after)]
    <3>1. PICK more : eng' = [eng EXCEPT ![w].pc = "told", ![w].status = "wiped", ![w].said = @ \cup more]
      BY <2>2
    <3> DEFINE e == [eng[w] EXCEPT !.pc = "told", !.status = "wiped", !.said = @ \cup more]
    <3>2. eng' = [eng EXCEPT ![w] = e]
      BY <3>1 DEF EngineInv
    <3>3. IsEngine(e) /\ e.pc = "told" /\ e.lifted = eng[w].lifted /\ eng[w].said \subseteq e.said
      BY <1>2 DEF IsEngine
    <3> HIDE DEF e
    <3>4. eng[w].pc = "closing" /\ (eng[w].lifted => drive[w].max = "lifted")
      BY <1>11, <2>2 DEF E!Close, E!At, E!StillWhole
    <3>5. Sound(left[w], drive[w], e)
      BY <1>2, <3>3, <3>4 DEF Sound, Back, Erasing
    <3> QED BY <1>3, <1>4, <1>11, <3>2, <3>5, OneEngine DEF E!Close
  <2> QED BY <1>11, <2>1, <2>2 DEF E!Close
<1> QED BY <1>7, <1>8, <1>9, <1>10, <1>11

(* What befalls a drive and its engine. *)
LEMMA BefallsInv ==
  ASSUME EngineInv, NEW w \in Wipes, E!Befalls(w)
  PROVE  EngineInv'
<1>1. eng[w] # E!Off
  BY DEF E!Befalls, E!SanitizeRuns, E!SanitizeEnds, E!BusReset, E!Dies
<1>2. Sound(left[w], drive[w], eng[w]) /\ IsDrive(drive[w])
  BY <1>1 DEF EngineInv, Sound
<1>3. left' = left => left' = [left EXCEPT ![w] = left[w]]
  BY DEF EngineInv
<1>4. eng' = eng => eng' = [eng EXCEPT ![w] = eng[w]]
  BY DEF EngineInv
<1>5. CASE E!SanitizeRuns(w) \/ E!SanitizeEnds(w)
  <2>1. PICK d : SameDrive(w, d)
    <3>1. CASE E!SanitizeRuns(w)
      <4> DEFINE log == [act |-> drive[w].op, state |-> "running"]
                 d == [drive[w] EXCEPT !.log = log]
      <4>1. drive' = [drive EXCEPT ![w] = d]
        BY <3>1 DEF E!SanitizeRuns, EngineInv
      <4> HIDE DEF log
      <4>2. IsDrive(d) /\ d.max = drive[w].max /\ d.sees = drive[w].sees /\ d.earlier = drive[w].earlier /\ d.bus = drive[w].bus
        BY <1>2 DEF IsDrive
      <4> QED BY <4>1, <4>2 DEF SameDrive
    <3>2. CASE E!SanitizeEnds(w)
      <4>1. PICK end \in {"done", "failed"} :
              drive' = [drive EXCEPT ![w].op = "none", ![w].log = [act |-> drive[w].op, state |-> end]]
        BY <3>2 DEF E!SanitizeEnds
      <4> DEFINE log == [act |-> drive[w].op, state |-> end]
                 d == [drive[w] EXCEPT !.op = "none", !.log = log]
      <4>2. drive' = [drive EXCEPT ![w] = d]
        BY <4>1 DEF EngineInv
      <4> HIDE DEF log
      <4>3. IsDrive(d) /\ d.max = drive[w].max /\ d.sees = drive[w].sees /\ d.earlier = drive[w].earlier /\ d.bus = drive[w].bus
        BY <1>2 DEF IsDrive
      <4> QED BY <4>2, <4>3 DEF SameDrive
    <3> QED BY <1>5, <3>1, <3>2
  <2>2. PICK l : left' = [left EXCEPT ![w] = l] /\ l \subseteq left[w]
    BY <1>3, <1>5 DEF E!SanitizeRuns, E!SanitizeEnds, E!Erases, EngineInv
  <2>3. Sound(l, d, eng[w])
    BY <1>2, <2>1, <2>2 DEF Sound, SameDrive, Open, Back
  <2> QED BY <1>4, <1>5, <2>1, <2>2, <2>3, OneEngine DEF E!SanitizeRuns, E!SanitizeEnds, SameDrive
<1>6. CASE E!BusReset(w)
  <2>1. PICK sees : drive' = [drive EXCEPT ![w].max = "set", ![w].sees = sees]
    BY <1>6 DEF E!BusReset
  <2> DEFINE d == [drive[w] EXCEPT !.max = "set", !.sees = sees]
  <2>2. drive' = [drive EXCEPT ![w] = d]
    BY <2>1 DEF EngineInv
  <2>3. IsDrive(d) /\ d.max = "set" /\ d.earlier = drive[w].earlier /\ d.bus = drive[w].bus
    BY <1>2 DEF IsDrive
  <2> HIDE DEF d
  <2>4. drive[w].max = "lifted"
    BY <1>6 DEF E!BusReset
  <2>5. Sound(left[w], d, eng[w])
    BY <1>2, <2>3, <2>4 DEF Sound, Open, Back, Erasing
  <2> QED BY <1>3, <1>4, <1>6, <2>2, <2>5, OneEngine DEF E!BusReset
<1>7. CASE E!Dies(w)
  <2>1. drive' = [drive EXCEPT ![w] = drive[w]]
    BY <1>7 DEF E!Dies, EngineInv
  <2> QED BY <1>1, <1>2, <1>7, <2>1, TellInv DEF E!Dies
<1> QED BY <1>5, <1>6, <1>7 DEF E!Befalls
(* A launched engine has its checks before it. *)
LEMMA LaunchInv ==
  ASSUME EngineInv, NEW w \in Wipes, NEW x \in Worlds, E!Launch(w, Drives[x])
  PROVE  EngineInv'
<1>1. PICK d \in Drives[x], want \in Wants :
       /\ drive' = [drive EXCEPT ![w] = d]
       /\ left' = [left EXCEPT ![w] = d.holds]
       /\ eng' = [eng EXCEPT ![w] = [pc |-> "asked", todo |-> E!Ladder(d.bus, want),
                                     fresh |-> FALSE, lifted |-> FALSE, counts |-> "unread",
                                     kind |-> "none", said |-> {}, status |-> "none"]]
  BY DEF E!Launch
<1> DEFINE e == [pc |-> "asked", todo |-> E!Ladder(d.bus, want), fresh |-> FALSE, lifted |-> FALSE,
                 counts |-> "unread", kind |-> "none", said |-> {}, status |-> "none"]
<1>2. d \in E!DriveKinds /\ E!Consistent(d)
  BY DrivesAssumption
<1>3. IsEngine(e) /\ e.pc = "asked"
  BY DEF IsEngine
<1>4. eng' = [eng EXCEPT ![w] = e]
  BY <1>1
<1> HIDE DEF e
<1>5. Sound(d.holds, d, e)
  BY <1>2, <1>3 DEF Sound, IsDrive, E!DriveKinds, E!Consistent, Erasing
<1> QED BY <1>1, <1>4, <1>5, OneEngine

(* An engine that is gone. *)
LEMMA LeaveInv ==
  ASSUME EngineInv, NEW w \in Wipes, E!Leave(w)
  PROVE  EngineInv'
<1>1. left' = [left EXCEPT ![w] = left[w]]
  BY DEF E!Leave, EngineInv
<1> QED BY <1>1, OneEngine DEF E!Leave

(* What was erased stays so: no engine writes old data. *)
LEMMA UserGone ==
  ASSUME EngineInv, NEW w \in Wipes, E!Works(w) \/ E!Befalls(w), NEW v \in Wipes, "user" \notin left[v]
  PROVE  "user" \notin left'[v]
<1>1. \/ left' = left
      \/ \E regions : left' = [left EXCEPT ![w] = @ \ regions]
      \/ \E regions : left' = [left EXCEPT ![w] = (@ \ regions) \cup {"late"}]
  <2>1. CASE E!Befalls(w)
    BY <2>1 DEF E!Befalls, E!SanitizeRuns, E!SanitizeEnds, E!BusReset, E!Dies, E!Erases
  <2>2. CASE E!Overwrite(w)
    <3>1. PICK worn \in {{}, {"late"}} : left' = [left EXCEPT ![w] = (@ \ E!InReach(w)) \cup worn]
      BY <2>2 DEF E!Overwrite
    <3>2. CASE worn = {}
      BY <3>1, <3>2
    <3>3. CASE worn = {"late"}
      BY <3>1, <3>3
    <3> QED BY <3>2, <3>3
  <2>3. CASE E!Works(w) /\ ~E!Overwrite(w)
    BY <2>3 DEF E!Works, E!Refuse, E!NvmeFirst, E!HiddenPresent, E!HiddenClear, E!AtaFails, E!AtaErase,
                E!SanitizeFails, E!Sanitize, E!Poll, E!GiveUp, E!Format, E!Judge, E!OverwriteFails, E!ReadBack, E!Close,
                E!Erases
  <2> QED BY <2>1, <2>2, <2>3
<1> QED BY <1>1 DEF EngineInv
-----------------------------------------------------------------------------
(* What is called wiped *)

WipedRecord(w) == [wipe |-> w, out |-> "wiped"]

WipedMarker(w) == [wipe |-> w, final |-> "wiped"]

\* w is called wiped by its job, a record, or a marker that will be filed as one.
Claimed(w) ==
  \/ job[w].out = "wiped"
  \/ WipedRecord(w) \in Made \cup flush.todo
  \/ WipedMarker(w) \in Pending \cup recovery.todo

(* Only an engine's verdict changes the outcome of a wipe, and a wipe once begun is
   never taken for one that was not. *)
LEMMA OutcomesStay ==
  ASSUME StationInv, [Next]_vars, NEW w \in Wipes
  PROVE  /\ job'[w].out # job[w].out => EngineEnds(w)
         /\ job[w] # Idle => job'[w] # Idle
<1>1. TypeOK
  BY DEF StationInv
<1>2. job \in [Wipes -> [phase: Phases, out: Outcomes \cup {"none", "refused"}]]
  BY <1>1 DEF TypeOK
<1>3. ASSUME NEW v \in Wipes, NEW p \in Phases \ {"idle"}, Turn(v, p)
      PROVE  job'[w].out = job[w].out /\ (job[w] # Idle => job'[w] # Idle)
  BY <1>2, <1>3 DEF Turn, Idle
<1>4. ASSUME NEW v \in Wipes, Wipe(v), ~EngineEnds(v)
      PROVE  job'[w].out = job[w].out /\ (job[w] # Idle => job'[w] # Idle)
  <2>1. \E p \in Phases \ {"idle"} : Turn(v, p)
    BY <1>4 DEF Wipe, StartWipe, DropRefused, Finalize, Upload, Enqueue, Unmark, Phases
  <2> QED BY <1>3, <2>1
<1>5. ASSUME NEW v \in Wipes, EngineEnds(v)
      PROVE  /\ job'[w].out # job[w].out => w = v
             /\ job[w] # Idle => job'[w] # Idle
  BY <1>2, <1>5 DEF EngineEnds, Idle
<1>6. CASE Forget
  BY <1>2, <1>6 DEF Forget, Idle
<1>7. CASE job' = job
  BY <1>7
<1>8. CASE Flush \/ Recover \/ Environment \/ UNCHANGED vars
  <2>1. job' = job \/ Forget
    BY <1>8 DEF Flush, FlushStart, FlushOne, FlushEnd, RetryDue, Recover, Boot, RecoverOne, RecoverEnd,
                Environment, Restart, PowerOff, StickRefuses, StickUnreadable, Network, ServerMind, Change, vars
  <2> QED BY <1>6, <1>7, <2>1
<1> QED BY <1>4, <1>5, <1>8 DEF Next

(* Whatever was read of the files, and however they were written, w is called wiped
   only if it was before, or if its engine said so. *)
LEMMA ClaimsFrom ==
  ASSUME StationInv, [Next]_vars, NEW w \in Wipes, Claimed(w)'
  PROVE  Claimed(w) \/ job'[w].out = "wiped"
<1> SUFFICES ASSUME ~Claimed(w), job'[w].out # "wiped"
             PROVE  FALSE
  OBVIOUS
<1> DEFINE r == WipedRecord(w)
           m == WipedMarker(w)
<1>1. TypeOK /\ ProcessFacts
  BY DEF StationInv
<1>2. r \notin Made /\ r \notin flush.todo /\ m \notin Pending /\ m \notin recovery.todo /\ job[w].out # "wiped"
  BY DEF Claimed
<1>3. SUFFICES r \notin Made' /\ r \notin flush'.todo /\ m \notin Pending' /\ m \notin recovery'.todo
  BY DEF Claimed, WipedRecord, WipedMarker
<1>4. r.wipe = w /\ r.out = "wiped" /\ m.wipe = w /\ m.final = "wiped"
  BY DEF WipedRecord, WipedMarker
<1>5. Pending \subseteq Markers /\ recovery.todo \subseteq Markers /\ Made \subseteq Records
  BY <1>1, SaidType DEF TypeOK
<1> HIDE DEF r, m
<1>6. ASSUME NEW items \in SUBSET Markers, PendingUpdate(items), m \notin items, server' = server
      PROVE  m \notin Pending' /\ r \notin Made'
  <2>1. QueueAlone /\ Pending' \subseteq items \cup Pending
    BY <1>1, <1>6, MarkerEffect
  <2> QED BY <1>2, <1>6, <2>1 DEF QueueAlone, Made, Waiting
<1>7. ASSUME NEW q \in Records, QueueAdd(q), q # r, server' = server
      PROVE  m \notin Pending' /\ r \notin Made'
  <2>1. Pending' = Pending /\ Made' = Made \cup {q}
    BY <1>7, SoundQueue
  <2> QED BY <1>2, <1>7, <2>1
<1>8. ASSUME UNCHANGED disk, server' \subseteq server
      PROVE  m \notin Pending' /\ r \notin Made'
  BY <1>2, <1>8 DEF disk, Pending, Made, Waiting
<1>9. ASSUME NEW v \in Wipes, Wipe(v)
      PROVE  r \notin Made' /\ r \notin flush'.todo /\ m \notin Pending' /\ m \notin recovery'.todo
  <2>1. UNCHANGED <<flush, recovery>>
    BY <1>9 DEF Wipe, StartWipe, EngineEnds, DropRefused, Finalize, Upload, Enqueue, Unmark
  <2>2. RecordOf(v) # r
    BY <1>2, <1>4 DEF RecordOf
  <2>3. CASE StartWipe(v)
    <3>1. [wipe |-> v, final |-> "none"] \in Markers /\ [wipe |-> v, final |-> "none"] # m
      BY <1>4 DEF Markers
    <3>2. PendingUpdate(Pending \cup {[wipe |-> v, final |-> "none"]}) /\ server' = server
      BY <2>3 DEF StartWipe, PendingAdd
    <3> QED BY <1>2, <1>5, <1>6, <2>1, <3>1, <3>2
  <2>4. CASE EngineEnds(v)
    BY <1>2, <1>8, <2>1, <2>4 DEF EngineEnds
  <2>5. CASE DropRefused(v) \/ Unmark(v)
    <3>1. PendingUpdate({n \in Pending : n.wipe \notin {v}}) /\ server' = server
      BY <2>5 DEF DropRefused, Unmark, PendingRemove
    <3> QED BY <1>2, <1>5, <1>6, <2>1, <3>1
  <2>6. CASE Finalize(v)
    <3> DEFINE final(n) == IF n.wipe = v THEN [n EXCEPT !.final = job[v].out] ELSE n
    <3>1. PendingUpdate({final(n) : n \in Pending}) /\ server' = server /\ job[v].out \in Outcomes
      BY <1>1, <2>6 DEF Finalize, PendingFinalize, ProcessFacts
    <3>2. ASSUME NEW n \in Pending
          PROVE  final(n) \in Markers /\ final(n) # m
      <4>1. n \in Markers /\ n # m
        BY <1>2, <1>5
      <4> QED BY <1>2, <1>4, <3>1, <4>1 DEF Markers
    <3> HIDE DEF final
    <3>3. {final(n) : n \in Pending} \subseteq Markers /\ m \notin {final(n) : n \in Pending}
      BY <3>2
    <3> QED BY <1>2, <1>6, <2>1, <3>1, <3>3
  <2>7. CASE Upload(v)
    BY <1>2, <2>1, <2>2, <2>7 DEF Upload, Deliver, disk, Pending, Made, Waiting
  <2>8. CASE Enqueue(v)
    <3>1. RecordOf(v) \in Records
      BY <1>1, <2>8 DEF Enqueue, RecordOf, Records, ProcessFacts, TypeOK
    <3> QED BY <1>2, <1>7, <2>1, <2>2, <2>8, <3>1 DEF Enqueue
  <2> QED BY <1>9, <2>3, <2>4, <2>5, <2>6, <2>7, <2>8 DEF Wipe
<1>10. CASE Flush
  <2>1. recovery' = recovery
    BY <1>10 DEF Flush, FlushStart, FlushOne, FlushEnd, RetryDue
  <2>2. CASE FlushStart
    <3>1. flush'.todo \subseteq Waiting
      BY <2>2 DEF FlushStart, Loads, Waiting
    <3> QED BY <1>2, <1>8, <2>1, <2>2, <3>1 DEF FlushStart, Made
  <2>3. CASE FlushOne
    <3>1. PICK q \in flush.todo :
            /\ server' \subseteq server \cup {q}
            /\ \E sent : flush' = [flush EXCEPT !.todo = @ \ {q}, !.done = sent]
            /\ UNCHANGED disk
      BY <2>3 DEF FlushOne, Deliver
    <3>2. flush'.todo \subseteq flush.todo
      BY <1>1, <3>1 DEF TypeOK
    <3>3. q # r
      BY <1>2
    <3>4. m \notin Pending' /\ r \notin Made'
      BY <1>2, <3>1, <3>3 DEF disk, Pending, Made, Waiting
    <3> QED BY <1>2, <2>1, <3>2, <3>4
  <2>4. CASE FlushEnd
    <3>1. MarkersAlone /\ Waiting' \subseteq Waiting
      BY <1>1, <2>4, FlushEndEffect
    <3>2. server' = server /\ flush'.todo = {}
      BY <2>4 DEF FlushEnd, NoFlush
    <3> QED BY <1>2, <2>1, <3>1, <3>2 DEF MarkersAlone, Pending, Made
  <2>5. CASE RetryDue
    BY <1>2, <1>8, <2>1, <2>5 DEF RetryDue
  <2> QED BY <1>10, <2>2, <2>3, <2>4, <2>5 DEF Flush
<1>11. CASE Recover
  <2>1. flush' = flush /\ server' = server
    BY <1>11 DEF Recover, Boot, RecoverOne, RecoverEnd
  <2>2. CASE Boot
    <3>1. recovery'.todo \subseteq Pending
      BY <2>2 DEF Boot, Loads, Pending
    <3> QED BY <1>2, <1>8, <2>1, <2>2, <3>1 DEF Boot
  <2>3. CASE RecoverOne
    <3>1. PICK n \in recovery.todo : QueueAdd(Leftover(n)) /\ recovery'.todo = recovery.todo \ {n}
      BY <2>3 DEF RecoverOne
    <3>2. n \in Markers /\ n # m
      BY <1>2, <1>5
    <3>3. Leftover(n) \in Records /\ Leftover(n) # r
      BY <3>2 DEF Markers, Records, Leftover, Outcomes, WipedRecord, WipedMarker, r, m
    <3> QED BY <1>2, <1>7, <2>1, <3>1, <3>3
  <2>4. CASE RecoverEnd
    <3>1. recovery'.todo = {}
      BY <2>4 DEF RecoverEnd, NoRecovery
    <3>2. UNCHANGED disk \/ PendingUpdate({n \in Pending : n.wipe \notin recovery.filed})
      BY <2>4 DEF RecoverEnd, PendingRemove
    <3> QED BY <1>2, <1>5, <1>6, <1>8, <2>1, <3>1, <3>2
  <2> QED BY <1>11, <2>2, <2>3, <2>4 DEF Recover
<1>12. CASE Forget /\ (Restart \/ PowerOff)
  <2>1. server' = server /\ stick' = stick /\ recovery'.todo = {} /\ flush'.todo = {}
    BY <1>12 DEF Forget, NoRecovery, NoFlush
  <2>2. \A f \in Files : ram'[f] \subseteq ram[f]
    BY <1>1, <1>12 DEF Restart, PowerOff, Files, TypeOK, File
  <2> QED BY <1>2, <2>1, <2>2 DEF Pending, Made, Waiting, Files
<1>13. CASE (Environment \/ UNCHANGED vars) /\ ~(Restart \/ PowerOff)
  <2>1. UNCHANGED <<disk, flush, recovery, server>>
    BY <1>13 DEF Environment, StickRefuses, StickUnreadable, Network, ServerMind, Change, vars, disk
  <2> QED BY <1>2, <1>8, <2>1
<1> QED BY <1>9, <1>10, <1>11, <1>12, <1>13 DEF Next, Environment, Restart, PowerOff

-----------------------------------------------------------------------------
(* The theorem *)

ErasedInv ==
  /\ StationInv /\ EngineInv
  /\ \A w \in Wipes : Claimed(w) => job[w] # Idle /\ "user" \notin left[w]

LEMMA ErasedInit == StationInit => ErasedInv
<1> SUFFICES ASSUME StationInit PROVE ErasedInv
  OBVIOUS
<1>1. StationInv
  BY InitInv DEF StationInit
<1>2. EngineInv
  BY DEF StationInit, E!EngineInit, EngineInv
<1>3. \A w \in Wipes : ~Claimed(w)
  BY DEF StationInit, Init, Claimed, Idle, NoFlush, NoRecovery, Made, Waiting, Pending, Files
<1> QED BY <1>1, <1>2, <1>3 DEF ErasedInv

(* The outcome of a wipe is what its engine told. *)
LEMMA OnlyCollect ==
  ASSUME TypeOK, [StationNext]_stationVars, NEW v \in Wipes, EngineEnds(v)
  PROVE  Collect(v)
<1>1. job \in [Wipes -> [phase: Phases, out: Outcomes \cup {"none", "refused"}]]
  BY DEF TypeOK
<1>2. job[v].phase = "running" /\ job'[v].phase = "ended"
  BY <1>1 DEF EngineEnds
<1>3. ~ UNCHANGED vars /\ job' # job
  BY <1>2 DEF vars
<1>4. ASSUME NEW w \in Wipes, NEW p \in Phases \ {"ended"}, Turn(w, p)
      PROVE  FALSE
  BY <1>1, <1>2, <1>4 DEF Turn
<1>5. ASSUME NEW w \in Wipes, Begin(w) \/ Record(w)
      PROVE  FALSE
  <2>1. \E p \in Phases \ {"ended"} : Turn(w, p)
    BY <1>5 DEF Begin, Record, StartWipe, DropRefused, Finalize, Upload, Enqueue, Unmark, Phases
  <2> QED BY <1>4, <2>1
<1>6. ASSUME NEW w \in Wipes, Collect(w)
      PROVE  Collect(v)
  BY <1>1, <1>2, <1>6 DEF Collect, EngineEnds
<1>7. ASSUME Forget
      PROVE  FALSE
  BY <1>1, <1>2, <1>7 DEF Forget
<1>8. ASSUME Flush \/ Recover \/ Troubles \/ PowerOff
      PROVE  FALSE
  <2>1. job' = job \/ Forget
    BY <1>8 DEF Flush, FlushStart, FlushOne, FlushEnd, RetryDue, Recover, Boot, RecoverOne, RecoverEnd,
                Troubles, Restart, PowerOff, StickRefuses, StickUnreadable, Network, ServerMind, Change
  <2> QED BY <1>3, <1>7, <2>1
<1> QED BY <1>3, <1>5, <1>6, <1>8 DEF StationNext, stationVars, Engine, Unread

(* A wipe that is called wiped keeps being erased, and one whose engine says so is. *)
LEMMA ErasedNext == ErasedInv /\ [StationNext]_stationVars => ErasedInv'
<1> SUFFICES ASSUME ErasedInv, [StationNext]_stationVars PROVE ErasedInv'
  OBVIOUS
<1>1. [Next]_vars /\ StationInv /\ EngineInv /\ TypeOK
  BY StepIsQueueStep DEF ErasedInv, StationInv
<1>2. StationInv'
  BY <1>1, NextInv
<1>3. EngineInv'
  <2>1. CASE UNCHANGED <<left, drive, eng>>
    BY <1>1, <2>1 DEF EngineInv
  <2>2. ASSUME NEW w \in Wipes, Begin(w)
        PROVE  EngineInv'
    <3>1. world \in Worlds
      BY <1>1 DEF TypeOK
    <3> QED BY <1>1, <2>2, <3>1, LaunchInv DEF Begin
  <2>3. ASSUME NEW w \in Wipes, E!Works(w) \/ E!Befalls(w)
        PROVE  EngineInv'
    BY <1>1, <2>3, CommandsInv, ChecksInv, VerdictStepsInv, BefallsInv DEF E!Works
  <2>4. ASSUME NEW w \in Wipes, Collect(w) \/ Unread(w)
        PROVE  EngineInv'
    BY <1>1, <2>4, LeaveInv DEF Collect, Unread
  <2>5. CASE PowerOff /\ eng' = [w \in Wipes |-> E!Off] /\ drive' = [w \in Wipes |-> E!NoDrive] /\ UNCHANGED left
    BY <1>1, <2>5 DEF EngineInv
  <2> QED BY <2>1, <2>2, <2>3, <2>4, <2>5 DEF StationNext, stationVars, Engine
<1>4. ASSUME NEW v \in Wipes, job[v] # Idle, "user" \notin left[v]
      PROVE  "user" \notin left'[v]
  <2>1. CASE left' = left
    BY <1>4, <2>1
  <2>2. ASSUME NEW w \in Wipes, Begin(w)
        PROVE  "user" \notin left'[v]
    BY <1>1, <1>4, <2>2 DEF Begin, StartWipe, E!Launch, EngineInv
  <2>3. ASSUME NEW w \in Wipes, E!Works(w) \/ E!Befalls(w)
        PROVE  "user" \notin left'[v]
    BY <1>1, <1>4, <2>3, UserGone
  <2> QED BY <2>1, <2>2, <2>3 DEF StationNext, stationVars, Engine, Collect, Unread, E!Leave
<1>5. ASSUME NEW v \in Wipes, EngineEnds(v), job'[v].out = "wiped"
      PROVE  job'[v] # Idle /\ "user" \notin left'[v]
  <2>1. Collect(v)
    BY <1>1, <1>5, OnlyCollect
  <2>2. eng[v].pc = "told" /\ eng[v].status = "wiped" /\ left' = left
    BY <1>5, <2>1 DEF Collect, E!At, E!Leave
  <2>3. Sound(left[v], drive[v], eng[v])
    BY <1>1, <2>2 DEF EngineInv, E!Off
  <2>4. "user" \notin left'[v]
    BY <2>2, <2>3 DEF Sound
  <2> QED BY <1>5, <2>4 DEF Idle
<1>6. ASSUME NEW v \in Wipes, Claimed(v)'
      PROVE  job'[v] # Idle /\ "user" \notin left'[v]
  <2>1. CASE Claimed(v)
    BY <1>1, <1>4, <2>1, OutcomesStay DEF ErasedInv
  <2>2. CASE ~Claimed(v)
    <3>1. job'[v].out = "wiped" /\ job[v].out # "wiped"
      BY <1>1, <1>6, <2>2, ClaimsFrom DEF Claimed
    <3>2. EngineEnds(v)
      BY <1>1, <3>1, OutcomesStay
    <3> QED BY <1>5, <3>1, <3>2
  <2> QED BY <2>1, <2>2
<1> QED BY <1>2, <1>3, <1>6 DEF ErasedInv

(* A wipe is told, and a record filed, as "wiped" only of a drive none of whose old
   data is there, whatever its controller said; and an end of it that was out of
   reach is spoken of. *)
THEOREM WipedDrivesAreErased == StationSpec => []WipedIsErased
<1>1. ErasedInv => WipedIsErased
  <2> SUFFICES ASSUME ErasedInv PROVE WipedIsErased
    OBVIOUS
  <2>1. ASSUME NEW w \in Wipes, E!Wiped(w)
        PROVE  /\ "user" \notin left[w]
               /\ left[w] \cap {"hpa", "dco"} \subseteq eng[w].said \cup E!CameBack(w)
    <3>1. eng[w].pc = "told" /\ eng[w].status = "wiped"
      BY <2>1 DEF E!Wiped, E!At
    <3>2. Sound(left[w], drive[w], eng[w])
      BY <3>1 DEF ErasedInv, EngineInv, E!Off
    <3> QED BY <3>1, <3>2 DEF Sound, E!CameBack
  <2>2. ASSUME NEW r \in Made, r.out = "wiped"
        PROVE  "user" \notin left[r.wipe]
    <3>1. r \in Records
      BY SaidType DEF ErasedInv, StationInv
    <3>2. r.wipe \in Wipes /\ r = WipedRecord(r.wipe)
      BY <2>2, <3>1 DEF Records, WipedRecord
    <3> QED BY <2>2, <3>2 DEF ErasedInv, Claimed
  <2> QED BY <2>1, <2>2 DEF WipedIsErased, E!WipedIsErased
<1> QED
  BY <1>1, ErasedInit, ErasedNext, PTL DEF StationSpec

-----------------------------------------------------------------------------
(* What is left is named *)

\* What may be left of the methods asked for.
Ladders(bus) ==
  IF bus = "ata" THEN {<<>>, <<"ata">>, <<"ata-enhanced">>}
  ELSE {<<>>, <<"crypto", "block", "format">>, <<"block", "format">>, <<"crypto", "format">>, <<"format">>}

\* What a drive still holds, and what its engine will say of that: a Purge by a drive
\* that does what it reports leaves no retired sector and no namespace; else retired
\* sectors were counted, or are flash; and a log is believed only once it is this
\* engine's, and then nothing is left.
Named(l, d, e) ==
  /\ l \subseteq E!Regions
  /\ d.bus \in {"ata", "nvme"} /\ (d.bus = "nvme" => d.flash) /\ (d.bus = "ata" => "siblings" \notin l)
  /\ d.log = [act |-> d.log.act, state |-> d.log.state]
  /\ e.todo \in Ladders(d.bus) /\ (e.pc \in {"firmware", "sanitizing"} => e.todo # <<>>)
  /\ e.pc \in {"judge", "readback", "closing"} => e.kind \in {"purge", "ata-normal", "overwrite"}
  /\ e.kind = "ata-normal" => d.bus = "ata"
  /\ "retired" \in l => e.counts # "zero"
  /\ d.does # "pretends" =>
       /\ e.kind = "purge" => l \cap {"retired", "siblings"} = {}
       /\ e.pc = "sanitizing" /\ ~e.fresh /\ d.log.state = "done" /\ d.log.act = Head(e.todo) =>
            l \cap {"retired", "siblings"} = {}
       /\ e.pc = "told" /\ e.status = "wiped" /\ "retired" \in l => "retired" \in e.said

NamedInv == \A w \in Wipes : eng[w] = E!Off \/ Named(left[w], drive[w], eng[w])

\* A drive is what it is.
SameMake(d, e) == d.bus = e.bus /\ d.flash = e.flash /\ d.does = e.does

LEMMA LadderWithin ==
  ASSUME NEW bus \in {"ata", "nvme"}, NEW want
  PROVE  E!Ladder(bus, want) \in Ladders(bus)
<1>1. CASE want \in {"overwrite", "zero"}
  BY <1>1 DEF E!Ladder, Ladders
<1>2. CASE want \notin {"overwrite", "zero"} /\ bus = "ata"
  BY <1>2 DEF E!Ladder, Ladders
<1>3. CASE want \notin {"overwrite", "zero"} /\ bus = "nvme"
  <2>1. /\ want = "auto" => E!Ladder(bus, want) = <<"crypto", "block", "format">>
        /\ want = "crypto" => E!Ladder(bus, want) = <<"crypto", "format">>
        /\ want \notin {"auto", "crypto"} => E!Ladder(bus, want) = <<"block", "format">>
    BY <1>3 DEF E!Ladder
  <2> QED BY <1>3, <2>1 DEF Ladders
<1> QED BY <1>1, <1>2, <1>3

LEMMA TailWithin ==
  ASSUME NEW bus \in {"ata", "nvme"}, NEW todo \in Ladders(bus), todo # <<>>
  PROVE  /\ Tail(todo) \in Ladders(bus)
         /\ Head(todo) \in {"ata", "ata-enhanced"} <=> bus = "ata"
<1>1. CASE bus = "ata"
  <2>1. ASSUME NEW m \in {"ata", "ata-enhanced"}, todo = <<m>>
        PROVE  Head(todo) = m /\ Tail(todo) = <<>>
    BY <2>1
  <2> QED BY <1>1, <2>1 DEF Ladders
<1>2. CASE bus = "nvme"
  <2>1. CASE todo = <<"crypto", "block", "format">>
    <3>1. Head(todo) = "crypto" /\ Tail(todo) = <<"block", "format">>
      BY <2>1
    <3> QED BY <1>2, <3>1 DEF Ladders
  <2>2. ASSUME NEW m \in {"crypto", "block"}, todo = <<m, "format">>
        PROVE  Head(todo) = m /\ Tail(todo) = <<"format">>
    BY <2>2
  <2>3. CASE todo = <<"block", "format">> \/ todo = <<"crypto", "format">>
    BY <1>2, <2>2, <2>3 DEF Ladders
  <2>4. CASE todo = <<"format">>
    <3>1. Head(todo) = "format" /\ Tail(todo) = <<>>
      BY <2>4
    <3> QED BY <1>2, <3>1 DEF Ladders
  <2> QED BY <1>2, <2>1, <2>3, <2>4 DEF Ladders
<1> QED BY <1>1, <1>2

(* Only the engine that moves, or the drive it has, changes. *)
LEMMA OthersStay ==
  ASSUME EngineInv, NEW w \in Wipes, E!Works(w) \/ E!Befalls(w), NEW v \in Wipes, v # w
  PROVE  left'[v] = left[v] /\ drive'[v] = drive[v] /\ eng'[v] = eng[v]
<1>1. CASE E!Refuse(w) \/ E!OverwriteFails(w) \/ E!ReadBack(w) \/ E!Dies(w)
  BY <1>1 DEF EngineInv, E!Refuse, E!OverwriteFails, E!ReadBack, E!Dies, E!Tell, E!Go
<1>2. CASE E!NvmeFirst(w) \/ E!AtaFails(w) \/ E!SanitizeFails(w) \/ E!GiveUp(w)
  BY <1>2 DEF EngineInv, E!NvmeFirst, E!AtaFails, E!SanitizeFails, E!GiveUp, E!Then
<1>3. CASE E!HiddenPresent(w)
  BY <1>3 DEF EngineInv, E!HiddenPresent, E!HpaRemove, E!Proceed, E!Tell, E!Then
<1>4. CASE E!HiddenClear(w)
  BY <1>4 DEF EngineInv, E!HiddenClear, E!KernelWhole, E!Proceed, E!Tell, E!Then
<1>5. CASE E!AtaErase(w) \/ E!Sanitize(w) \/ E!SanitizeRuns(w) \/ E!SanitizeEnds(w) \/ E!BusReset(w)
  BY <1>5 DEF EngineInv, E!AtaErase, E!Sanitize, E!SanitizeRuns, E!SanitizeEnds, E!BusReset, E!Erases
<1>6. CASE E!Poll(w)
  BY <1>6 DEF EngineInv, E!Poll, E!Then
<1>7. CASE E!Format(w)
  BY <1>7 DEF EngineInv, E!Format, E!Erases, E!Then
<1>8. CASE E!Judge(w)
  <2>1. PICK x \in E!Verdicts(w) :
       CASE x = "unverified" -> E!Tell(w, "failed")
         [] x = "clean" -> E!Go(w, "closing")
         [] x = "found" -> eng' = [E!Then(w, <<>>) EXCEPT ![w].kind = "none"]
    BY <1>8 DEF E!Judge
  <2>2. x \in {"unverified", "clean", "found"}
    BY DEF E!Verdicts
  <2>3. E!Tell(w, "failed") \/ E!Go(w, "closing") \/ eng' = [E!Then(w, <<>>) EXCEPT ![w].kind = "none"]
    BY <2>1, <2>2
  <2> QED BY <1>8, <2>3 DEF EngineInv, E!Judge, E!Tell, E!Go, E!Then
<1>9. CASE E!Overwrite(w) \/ E!Close(w)
  BY <1>9 DEF EngineInv, E!Overwrite, E!Close, E!Tell
<1> QED BY <1>1, <1>2, <1>3, <1>4, <1>5, <1>6, <1>7, <1>8, <1>9 DEF E!Works, E!Befalls

(* An engine that did not call the drive wiped has nothing to say of it. *)
LEMMA TellNames ==
  ASSUME EngineInv, NEW w \in Wipes, eng[w] # E!Off, Named(left[w], drive[w], eng[w]),
         NEW how \in {"refused", "failed"}, E!Tell(w, how), left'[w] = left[w],
         SameMake(drive'[w], drive[w]), drive'[w].log = drive[w].log
  PROVE  Named(left'[w], drive'[w], eng'[w])
<1>1. IsEngine(eng[w])
  BY DEF EngineInv, Sound
<1>2. /\ eng'[w].pc = "told" /\ eng'[w].status = how /\ eng'[w].todo = <<>>
      /\ eng'[w].kind = eng[w].kind /\ eng'[w].counts = eng[w].counts
  BY <1>1 DEF E!Tell, EngineInv, IsEngine
<1>3. <<>> \in Ladders(drive[w].bus)
  BY DEF Ladders
<1> QED BY <1>2, <1>3 DEF Named, SameMake

(* On to the methods that rest. *)
LEMMA ThenFields ==
  ASSUME EngineInv, NEW w \in Wipes, eng[w] # E!Off, NEW rest
  PROVE  \E e : /\ E!Then(w, rest) = [eng EXCEPT ![w] = e] /\ IsEngine(e)
                /\ e.pc = (IF rest = <<>> THEN "overwrite" ELSE "firmware") /\ e.todo = rest
                /\ e.kind = eng[w].kind /\ e.counts = eng[w].counts /\ e.said = eng[w].said
<1> DEFINE pc == IF rest = <<>> THEN "overwrite" ELSE "firmware"
           e == [eng[w] EXCEPT !.todo = rest, !.fresh = FALSE, !.pc = pc]
<1>1. IsEngine(eng[w])
  BY DEF EngineInv, Sound
<1>2. E!Then(w, rest) = [eng EXCEPT ![w] = e]
  BY DEF E!Then, EngineInv
<1> HIDE DEF pc
<1>3. /\ IsEngine(e) /\ e.pc = pc /\ e.todo = rest /\ e.kind = eng[w].kind
      /\ e.counts = eng[w].counts /\ e.said = eng[w].said
  BY <1>1 DEF IsEngine
<1> HIDE DEF e
<1> QED BY <1>2, <1>3 DEF pc

LEMMA NextNames ==
  ASSUME EngineInv, NEW w \in Wipes, eng[w] # E!Off, Named(left[w], drive[w], eng[w]),
         NEW rest \in Ladders(drive[w].bus), eng' = E!Then(w, rest), UNCHANGED <<left, drive>>
  PROVE  Named(left'[w], drive'[w], eng'[w])
<1>1. PICK e : /\ E!Then(w, rest) = [eng EXCEPT ![w] = e] /\ IsEngine(e)
               /\ e.pc = (IF rest = <<>> THEN "overwrite" ELSE "firmware") /\ e.todo = rest
               /\ e.kind = eng[w].kind /\ e.counts = eng[w].counts /\ e.said = eng[w].said
  BY ThenFields
<1>2. eng'[w] = e
  BY <1>1 DEF EngineInv
<1> QED BY <1>1, <1>2 DEF Named

(* The engine that goes on from its checks has counted what it could. *)
LEMMA ProceedNames ==
  ASSUME EngineInv, NEW w \in Wipes, eng[w] # E!Off, eng[w].pc = "asked", Named(left[w], drive[w], eng[w]),
         NEW lifted \in BOOLEAN, NEW said, E!Proceed(w, lifted, said), left'[w] = left[w],
         SameMake(drive'[w], drive[w]), drive'[w].log = drive[w].log
  PROVE  Named(left'[w], drive'[w], eng'[w])
<1> DEFINE todo == eng[w].todo
<1>1. PICK c \in E!Counts(w) :
         eng' = [E!Then(w, todo) EXCEPT ![w].lifted = lifted, ![w].said = said, ![w].counts = c]
  BY DEF E!Proceed
<1>6. todo \in Ladders(drive[w].bus)
  BY DEF Named
<1> HIDE DEF todo
<1>2. PICK t : /\ E!Then(w, todo) = [eng EXCEPT ![w] = t] /\ IsEngine(t)
               /\ t.pc = (IF todo = <<>> THEN "overwrite" ELSE "firmware") /\ t.todo = todo
               /\ t.kind = eng[w].kind /\ t.counts = eng[w].counts /\ t.said = eng[w].said
  BY ThenFields
<1>3. eng'[w] = [t EXCEPT !.lifted = lifted, !.said = said, !.counts = c]
  BY <1>1, <1>2 DEF EngineInv
<1>4. eng'[w].pc = t.pc /\ eng'[w].todo = t.todo /\ eng'[w].kind = t.kind /\ eng'[w].counts = c
  BY <1>2, <1>3 DEF IsEngine
<1>5. "retired" \in left[w] => c # "zero"
  BY <1>1 DEF E!Counts, E!Bad
<1> QED BY <1>2, <1>4, <1>5, <1>6 DEF Named, SameMake

LEMMA ChecksNamed ==
  ASSUME EngineInv, NEW w \in Wipes, eng[w] # E!Off, Named(left[w], drive[w], eng[w]),
         E!Refuse(w) \/ E!NvmeFirst(w) \/ E!HiddenPresent(w) \/ E!HiddenClear(w)
  PROVE  Named(left'[w], drive'[w], eng'[w])
<1>1. eng[w].pc = "asked" /\ IsDrive(drive[w])
  BY DEF E!Refuse, E!NvmeFirst, E!HiddenPresent, E!HiddenClear, E!At, EngineInv, Sound
<1>2. drive' = drive => SameMake(drive'[w], drive[w]) /\ drive'[w].log = drive[w].log
  BY DEF SameMake
<1>3. left'[w] = left[w]
  BY DEF E!Refuse, E!NvmeFirst, E!HiddenPresent, E!HiddenClear
<1>4. CASE E!Refuse(w)
  BY <1>2, <1>3, <1>4, TellNames DEF E!Refuse
<1>5. CASE E!NvmeFirst(w)
  <2>1. PICK todo \in {eng[w].todo, <<>>} : eng' = E!Then(w, todo) /\ UNCHANGED <<left, drive>>
    BY <1>5 DEF E!NvmeFirst
  <2>2. todo \in Ladders(drive[w].bus)
    BY <2>1 DEF Named, Ladders
  <2> QED BY <2>1, <2>2, NextNames
<1>6. CASE E!HiddenPresent(w)
  <2>1. CASE E!Tell(w, "failed") /\ UNCHANGED drive
    BY <1>2, <1>3, <2>1, TellNames
  <2>2. CASE \E sees \in BOOLEAN : \E said :
               E!HpaRemove(w, sees) /\ (E!Proceed(w, TRUE, said) \/ E!Tell(w, "failed"))
    <3>1. PICK sees \in BOOLEAN : \E said :
            E!HpaRemove(w, sees) /\ (E!Proceed(w, TRUE, said) \/ E!Tell(w, "failed"))
      BY <2>2
    <3>2. drive'[w] = [drive[w] EXCEPT !.max = "lifted", !.sees = sees]
      BY <3>1 DEF E!HpaRemove, EngineInv
    <3>3. SameMake(drive'[w], drive[w]) /\ drive'[w].log = drive[w].log
      BY <1>1, <3>2 DEF SameMake, IsDrive
    <3> QED BY <1>1, <1>3, <3>1, <3>3, TellNames, ProceedNames
  <2> QED BY <1>6, <2>1, <2>2 DEF E!HiddenPresent
<1>7. CASE E!HiddenClear(w)
  <2>1. PICK a \in E!Answers(w), sees \in BOOLEAN :
          /\ E!KernelWhole(w, a, sees)
          /\ IF a.max /\ ~sees THEN E!Tell(w, "failed")
             ELSE E!Proceed(w, FALSE, IF a.max /\ a.dco THEN {} ELSE {"hpa", "dco"})
    BY <1>7 DEF E!HiddenClear
  <2>2. drive'[w] = [drive[w] EXCEPT !.sees = sees]
    BY <2>1 DEF E!KernelWhole, EngineInv
  <2>3. SameMake(drive'[w], drive[w]) /\ drive'[w].log = drive[w].log
    BY <1>1, <2>2 DEF SameMake, IsDrive
  <2> QED BY <1>1, <1>3, <2>1, <2>3, TellNames, ProceedNames
<1> QED BY <1>4, <1>5, <1>6, <1>7

(* The drive's own commands: what reports to be done leaves nothing that must be named. *)
LEMMA CommandsNamed ==
  ASSUME EngineInv, NEW w \in Wipes, eng[w] # E!Off, Named(left[w], drive[w], eng[w]),
         \/ E!AtaFails(w) \/ E!AtaErase(w) \/ E!SanitizeFails(w) \/ E!Sanitize(w)
         \/ E!Poll(w) \/ E!GiveUp(w) \/ E!Format(w)
  PROVE  Named(left'[w], drive'[w], eng'[w])
<1> DEFINE bus == drive[w].bus
           todo == eng[w].todo
<1>1. IsEngine(eng[w]) /\ IsDrive(drive[w])
  BY DEF EngineInv, Sound
<1>2. eng[w].pc \in {"firmware", "sanitizing"}
  BY DEF E!AtaFails, E!AtaErase, E!SanitizeFails, E!Sanitize, E!Poll, E!GiveUp, E!Format, E!Trying, E!At
<1>3. bus \in {"ata", "nvme"} /\ todo \in Ladders(bus) /\ todo # <<>> /\ <<>> \in Ladders(bus)
  BY <1>2 DEF Named, Ladders
<1> HIDE DEF bus, todo
<1>4. /\ Tail(todo) \in Ladders(bus)
      /\ Head(todo) \in {"ata", "ata-enhanced"} <=> bus = "ata"
  BY <1>3, TailWithin
<1>5. ASSUME NEW rest, rest \in Ladders(bus), eng' = E!Then(w, rest), UNCHANGED <<left, drive>>
      PROVE  Named(left'[w], drive'[w], eng'[w])
  BY <1>5, NextNames DEF bus
<1>6. ASSUME NEW regions, E!Erases(w, regions)
      PROVE  left'[w] \subseteq left[w] /\ (drive[w].does # "pretends" => left'[w] = left[w] \ regions)
  BY <1>6 DEF E!Erases, EngineInv
<1>7. CASE E!AtaFails(w)
  BY <1>3, <1>5, <1>7 DEF E!AtaFails
<1>8. CASE E!SanitizeFails(w)
  <2>1. Head(todo) \in {"crypto", "block"} /\ eng' = E!Then(w, Tail(todo)) /\ UNCHANGED <<left, drive>>
    BY <1>8 DEF E!SanitizeFails, E!Trying, todo
  <2> QED BY <1>4, <1>5, <2>1
<1>9. CASE E!AtaErase(w)
  <2>1. PICK enhanced \in BOOLEAN :
          /\ Head(todo) \in {"ata", "ata-enhanced"}
          /\ E!Erases(w, E!InReach(w) \cup (IF enhanced THEN E!Bad ELSE {}))
          /\ eng' = [eng EXCEPT ![w].pc = "judge", ![w].todo = <<>>, ![w].kind = IF enhanced THEN "purge" ELSE "ata-normal"]
          /\ drive' = drive
    BY <1>9 DEF E!AtaErase, E!Trying, todo
  <2> DEFINE kind == IF enhanced THEN "purge" ELSE "ata-normal"
  <2>2. /\ left'[w] \subseteq left[w]
        /\ drive[w].does # "pretends" => left'[w] = left[w] \ (E!InReach(w) \cup (IF enhanced THEN E!Bad ELSE {}))
    BY <1>6, <2>1
  <2>3. bus = "ata"
    BY <1>4, <2>1
  <2>4. eng'[w] = [eng[w] EXCEPT !.pc = "judge", !.todo = <<>>, !.kind = kind]
    BY <2>1 DEF EngineInv
  <2>5. kind \in {"purge", "ata-normal"} /\ (kind = "purge" => enhanced)
    OBVIOUS
  <2> HIDE DEF kind
  <2>6. eng'[w].pc = "judge" /\ eng'[w].todo = <<>> /\ eng'[w].kind = kind /\ eng'[w].counts = eng[w].counts
    BY <1>1, <2>4 DEF IsEngine
  <2>7. drive[w].does # "pretends" /\ kind = "purge" => left'[w] \cap {"retired", "siblings"} = {}
    BY <2>2, <2>3, <2>5 DEF Named, bus, E!Bad
  <2> QED BY <1>3, <2>1, <2>2, <2>3, <2>5, <2>6, <2>7 DEF Named, bus
<1>10. CASE E!Sanitize(w)
  <2>1. PICK act \in {"crypto", "block"}, read \in BOOLEAN :
          /\ Head(todo) = act
          /\ eng' = [eng EXCEPT ![w].pc = "sanitizing", ![w].fresh = ~read \/ E!Stale(w, act)]
          /\ drive' = IF drive[w].does = "skips" THEN drive ELSE [drive EXCEPT ![w].op = act]
          /\ left' = left
    BY <1>10 DEF E!Sanitize, E!Trying, todo
  <2> DEFINE fresh == ~read \/ E!Stale(w, act)
  <2>2. eng'[w] = [eng[w] EXCEPT !.pc = "sanitizing", !.fresh = fresh]
    BY <2>1 DEF EngineInv
  <2>3. ~fresh => drive[w].log # [act |-> act, state |-> "done"]
    BY DEF E!Stale
  <2> HIDE DEF fresh
  <2>4. /\ eng'[w].pc = "sanitizing" /\ eng'[w].todo = todo /\ eng'[w].kind = eng[w].kind
        /\ eng'[w].counts = eng[w].counts /\ eng'[w].fresh = fresh
    BY <1>1, <2>2 DEF IsEngine, todo
  <2>5. SameMake(drive'[w], drive[w]) /\ drive'[w].log = drive[w].log
    <3>1. CASE drive[w].does = "skips"
      BY <2>1, <3>1 DEF SameMake
    <3>2. CASE drive[w].does # "skips"
      <4>1. drive'[w] = [drive[w] EXCEPT !.op = act]
        BY <2>1, <3>2 DEF EngineInv
      <4> QED BY <1>1, <4>1 DEF SameMake, IsDrive
    <3> QED BY <3>1, <3>2
  <2>6. ~fresh => ~(drive[w].log.state = "done" /\ drive[w].log.act = act)
    BY <2>3 DEF Named
  <2> QED BY <1>3, <2>1, <2>4, <2>5, <2>6 DEF Named, SameMake, bus
<1>11. CASE E!Poll(w)
  <2>1. UNCHANGED <<left, drive>> /\ eng[w].pc = "sanitizing"
    BY <1>11 DEF E!Poll, E!At
  <2>2. CASE drive[w].log.state = "running" /\ eng' = [eng EXCEPT ![w].fresh = FALSE]
    <3>1. eng'[w] = [eng[w] EXCEPT !.fresh = FALSE]
      BY <2>2 DEF EngineInv
    <3>2. /\ eng'[w].pc = "sanitizing" /\ eng'[w].todo = eng[w].todo /\ eng'[w].kind = eng[w].kind
          /\ eng'[w].counts = eng[w].counts
      BY <1>1, <2>1, <3>1 DEF IsEngine
    <3> QED BY <1>3, <2>1, <2>2, <3>2 DEF Named, bus, todo
  <2>3. CASE /\ drive[w].log.state = "done" /\ drive[w].log.act = Head(todo) /\ ~eng[w].fresh
             /\ eng' = [eng EXCEPT ![w].pc = "judge", ![w].kind = "purge", ![w].todo = <<>>]
    <3>1. eng'[w] = [eng[w] EXCEPT !.pc = "judge", !.kind = "purge", !.todo = <<>>]
      BY <2>3 DEF EngineInv
    <3>2. eng'[w].pc = "judge" /\ eng'[w].todo = <<>> /\ eng'[w].kind = "purge" /\ eng'[w].counts = eng[w].counts
      BY <1>1, <3>1 DEF IsEngine
    <3> QED BY <1>3, <2>1, <2>3, <3>2 DEF Named, bus, todo
  <2>4. CASE eng' = E!Then(w, Tail(todo))
    BY <1>4, <1>5, <2>1, <2>4
  <2> QED BY <1>11, <2>2, <2>3, <2>4 DEF E!Poll, todo
<1>12. CASE E!GiveUp(w)
  BY <1>4, <1>5, <1>12 DEF E!GiveUp, todo
<1>13. CASE E!Format(w)
  <2>1. drive' = drive
    BY <1>13 DEF E!Format
  <2>2. CASE eng' = E!Then(w, <<>>) /\ UNCHANGED left
    BY <1>3, <1>5, <2>1, <2>2
  <2>3. CASE /\ E!Erases(w, E!Regions)
             /\ eng' = [eng EXCEPT ![w].pc = "judge", ![w].kind = "purge", ![w].todo = <<>>]
    <3>1. eng'[w] = [eng[w] EXCEPT !.pc = "judge", !.kind = "purge", !.todo = <<>>]
      BY <2>3 DEF EngineInv
    <3>2. eng'[w].pc = "judge" /\ eng'[w].todo = <<>> /\ eng'[w].kind = "purge" /\ eng'[w].counts = eng[w].counts
      BY <1>1, <3>1 DEF IsEngine
    <3>3. left'[w] \subseteq left[w] /\ (drive[w].does # "pretends" => left'[w] = {})
      BY <1>6, <2>3 DEF Named
    <3> QED BY <1>3, <2>1, <3>2, <3>3 DEF Named, bus
  <2>4. CASE eng' = [E!Then(w, <<>>) EXCEPT ![w].said = @ \cup {"siblings"}] /\ UNCHANGED left
    <3>1. PICK t : /\ E!Then(w, <<>>) = [eng EXCEPT ![w] = t] /\ IsEngine(t)
                   /\ t.pc = (IF <<>> = <<>> THEN "overwrite" ELSE "firmware") /\ t.todo = <<>>
                   /\ t.kind = eng[w].kind /\ t.counts = eng[w].counts /\ t.said = eng[w].said
      BY ThenFields
    <3>2. eng'[w] = [t EXCEPT !.said = @ \cup {"siblings"}]
      BY <2>4, <3>1 DEF EngineInv
    <3>3. eng'[w].pc = "overwrite" /\ eng'[w].todo = <<>> /\ eng'[w].kind = eng[w].kind /\ eng'[w].counts = eng[w].counts
      BY <3>1, <3>2 DEF IsEngine
    <3> QED BY <1>3, <2>1, <2>4, <3>3 DEF Named, bus
  <2> QED BY <1>13, <2>2, <2>3, <2>4 DEF E!Format
<1> QED BY <1>7, <1>8, <1>9, <1>10, <1>11, <1>12, <1>13

(* The end of a wipe: a retired sector that is still there is flash, or was counted. *)
LEMMA VerdictNamed ==
  ASSUME EngineInv, NEW w \in Wipes, eng[w] # E!Off, Named(left[w], drive[w], eng[w]),
         E!Judge(w) \/ E!Overwrite(w) \/ E!OverwriteFails(w) \/ E!ReadBack(w) \/ E!Close(w)
  PROVE  Named(left'[w], drive'[w], eng'[w])
<1>1. IsEngine(eng[w]) /\ <<>> \in Ladders(drive[w].bus)
  BY DEF EngineInv, Sound, Ladders
<1>2. drive' = drive /\ SameMake(drive'[w], drive[w])
  BY DEF E!Judge, E!Overwrite, E!OverwriteFails, E!ReadBack, E!Close, SameMake
<1>3. ASSUME E!Tell(w, "failed"), left' = left
      PROVE  Named(left'[w], drive'[w], eng'[w])
  BY <1>2, <1>3, TellNames
<1>4. ASSUME E!Go(w, "closing"), left' = left, eng[w].pc \in {"judge", "readback"}
      PROVE  Named(left'[w], drive'[w], eng'[w])
  <2>1. eng'[w] = [eng[w] EXCEPT !.pc = "closing"]
    BY <1>4 DEF E!Go, EngineInv
  <2>2. /\ eng'[w].pc = "closing" /\ eng'[w].todo = eng[w].todo /\ eng'[w].kind = eng[w].kind
        /\ eng'[w].counts = eng[w].counts
    BY <1>1, <2>1 DEF IsEngine
  <2> QED BY <1>2, <1>4, <2>2 DEF Named
<1>5. CASE E!Judge(w)
  <2>1. PICK x \in E!Verdicts(w) :
       CASE x = "unverified" -> E!Tell(w, "failed")
         [] x = "clean" -> E!Go(w, "closing")
         [] x = "found" -> eng' = [E!Then(w, <<>>) EXCEPT ![w].kind = "none"]
    BY <1>5 DEF E!Judge
  <2>2. x \in {"unverified", "clean", "found"}
    BY DEF E!Verdicts
  <2>3. left' = left /\ eng[w].pc = "judge"
    BY <1>5 DEF E!Judge, E!At
  <2>4. CASE x # "found"
    BY <1>3, <1>4, <2>1, <2>2, <2>3, <2>4
  <2>5. CASE x = "found"
    <3>1. PICK t : /\ E!Then(w, <<>>) = [eng EXCEPT ![w] = t] /\ IsEngine(t)
                   /\ t.pc = (IF <<>> = <<>> THEN "overwrite" ELSE "firmware") /\ t.todo = <<>>
                   /\ t.kind = eng[w].kind /\ t.counts = eng[w].counts /\ t.said = eng[w].said
      BY ThenFields
    <3>2. eng'[w] = [t EXCEPT !.kind = "none"]
      BY <2>1, <2>5, <3>1 DEF EngineInv
    <3>3. eng'[w].pc = "overwrite" /\ eng'[w].todo = <<>> /\ eng'[w].kind = "none" /\ eng'[w].counts = eng[w].counts
      BY <3>1, <3>2 DEF IsEngine
    <3> QED BY <1>1, <1>2, <2>3, <3>3 DEF Named
  <2> QED BY <2>4, <2>5
<1>6. CASE E!Overwrite(w)
  <2>1. PICK worn \in {{}, {"late"}} : left' = [left EXCEPT ![w] = (@ \ E!InReach(w)) \cup worn]
    BY <1>6 DEF E!Overwrite
  <2>2. left'[w] \subseteq left[w] \cup {"late"}
    BY <2>1 DEF EngineInv
  <2>3. eng'[w] = [eng[w] EXCEPT !.pc = "readback", !.kind = "overwrite"]
    BY <1>6 DEF E!Overwrite, EngineInv
  <2>4. /\ eng'[w].pc = "readback" /\ eng'[w].todo = eng[w].todo /\ eng'[w].kind = "overwrite"
        /\ eng'[w].counts = eng[w].counts
    BY <1>1, <2>3 DEF IsEngine
  <2> QED BY <1>2, <2>2, <2>4 DEF Named, E!Regions
<1>7. CASE E!OverwriteFails(w)
  BY <1>3, <1>7 DEF E!OverwriteFails
<1>8. CASE E!ReadBack(w)
  BY <1>3, <1>4, <1>8 DEF E!ReadBack, E!At
<1>9. CASE E!Close(w)
  <2>1. CASE E!Tell(w, "failed")
    BY <1>3, <1>9, <2>1 DEF E!Close
  <2>2. CASE \E after \in E!Counts(w) :
               eng' = [eng EXCEPT ![w].pc = "told", ![w].status = "wiped", ![w].said = @ \cup E!Assess(w, after)]
    <3>1. PICK after \in E!Counts(w) :
            eng' = [eng EXCEPT ![w].pc = "told", ![w].status = "wiped", ![w].said = @ \cup E!Assess(w, after)]
      BY <2>2
    <3> DEFINE more == E!Assess(w, after)
    <3>2. eng'[w] = [eng[w] EXCEPT !.pc = "told", !.status = "wiped", !.said = @ \cup more]
      BY <3>1 DEF EngineInv
    <3>3. left' = left /\ eng[w].pc = "closing"
      BY <1>9 DEF E!Close, E!At
    <3>4. ASSUME "retired" \in left[w], eng[w].kind # "purge" PROVE "retired" \in more
      <4>1. CASE drive[w].bus = "nvme"
        <5>1. eng[w].kind = "overwrite" /\ drive[w].flash
          BY <3>3, <3>4, <4>1 DEF Named
        <5> QED BY <5>1 DEF E!Assess, E!Bad
      <4>2. CASE drive[w].bus = "ata"
        <5>1. eng[w].counts # "zero" /\ after \in {"unread", "some"}
          BY <3>1, <3>4 DEF Named, E!Counts, E!Bad
        <5>2. E!Worst(eng[w].counts, after) # "zero"
          BY <5>1 DEF E!Worst
        <5> QED BY <3>4, <4>2, <5>2 DEF E!Assess, E!Bad
      <4> QED BY <4>1, <4>2 DEF Named
    <3> HIDE DEF more
    <3>5. /\ eng'[w].pc = "told" /\ eng'[w].todo = eng[w].todo /\ eng'[w].kind = eng[w].kind
          /\ eng'[w].counts = eng[w].counts /\ more \subseteq eng'[w].said
      BY <1>1, <3>2 DEF IsEngine
    <3> QED BY <1>2, <3>3, <3>4, <3>5 DEF Named
  <2> QED BY <1>9, <2>1, <2>2 DEF E!Close
<1> QED BY <1>5, <1>6, <1>7, <1>8, <1>9

LEMMA BefallsNamed ==
  ASSUME EngineInv, NEW w \in Wipes, eng[w] # E!Off, Named(left[w], drive[w], eng[w]), E!Befalls(w)
  PROVE  Named(left'[w], drive'[w], eng'[w])
<1>1. IsDrive(drive[w])
  BY DEF EngineInv, Sound
<1>2. CASE E!SanitizeRuns(w)
  <2> DEFINE log == [act |-> drive[w].op, state |-> "running"]
  <2>1. drive'[w] = [drive[w] EXCEPT !.log = log]
    BY <1>2 DEF E!SanitizeRuns, EngineInv
  <2>2. log.state = "running" /\ log = [act |-> log.act, state |-> log.state]
    OBVIOUS
  <2> HIDE DEF log
  <2>3. SameMake(drive'[w], drive[w]) /\ drive'[w].log = log
    BY <1>1, <2>1 DEF SameMake, IsDrive
  <2> QED BY <1>2, <2>2, <2>3 DEF E!SanitizeRuns, Named, SameMake
<1>3. CASE E!SanitizeEnds(w)
  <2>1. PICK end \in {"done", "failed"} :
          /\ drive' = [drive EXCEPT ![w].op = "none", ![w].log = [act |-> drive[w].op, state |-> end]]
          /\ IF end = "done" THEN E!Erases(w, E!Regions) ELSE UNCHANGED left
          /\ eng' = eng
    BY <1>3 DEF E!SanitizeEnds
  <2> DEFINE log == [act |-> drive[w].op, state |-> end]
  <2>2. drive'[w] = [drive[w] EXCEPT !.op = "none", !.log = log]
    BY <2>1 DEF EngineInv
  <2>3. log.state = end /\ log = [act |-> log.act, state |-> log.state]
    OBVIOUS
  <2> HIDE DEF log
  <2>4. SameMake(drive'[w], drive[w]) /\ drive'[w].log = log
    BY <1>1, <2>2 DEF SameMake, IsDrive
  <2>5. left'[w] \subseteq left[w] /\ (end = "done" /\ drive[w].does # "pretends" => left'[w] = {})
    BY <2>1 DEF E!Erases, EngineInv, Named
  <2> QED BY <2>1, <2>3, <2>4, <2>5 DEF Named, SameMake
<1>4. CASE E!BusReset(w)
  <2>1. PICK sees : drive' = [drive EXCEPT ![w].max = "set", ![w].sees = sees]
    BY <1>4 DEF E!BusReset
  <2>2. drive'[w] = [drive[w] EXCEPT !.max = "set", !.sees = sees]
    BY <2>1 DEF EngineInv
  <2>3. SameMake(drive'[w], drive[w]) /\ drive'[w].log = drive[w].log
    BY <1>1, <2>2 DEF SameMake, IsDrive
  <2> QED BY <1>4, <2>3 DEF E!BusReset, Named, SameMake
<1>5. CASE E!Dies(w)
  BY <1>5, TellNames DEF E!Dies, SameMake
<1> QED BY <1>2, <1>3, <1>4, <1>5 DEF E!Befalls

LEMMA LaunchNamed ==
  ASSUME EngineInv, NEW w \in Wipes, NEW x \in Worlds, E!Launch(w, Drives[x])
  PROVE  Named(left'[w], drive'[w], eng'[w])
<1>1. PICK d \in Drives[x], want \in Wants :
       /\ drive' = [drive EXCEPT ![w] = d]
       /\ left' = [left EXCEPT ![w] = d.holds]
       /\ eng' = [eng EXCEPT ![w] = [pc |-> "asked", todo |-> E!Ladder(d.bus, want),
                                     fresh |-> FALSE, lifted |-> FALSE, counts |-> "unread",
                                     kind |-> "none", said |-> {}, status |-> "none"]]
  BY DEF E!Launch
<1>2. d \in E!DriveKinds /\ E!Consistent(d)
  BY DrivesAssumption
<1>3. /\ d.bus \in {"ata", "nvme"} /\ d.holds \subseteq E!Regions
      /\ d.log = [act |-> d.log.act, state |-> d.log.state]
  BY <1>2 DEF E!DriveKinds
<1>4. drive'[w] = d /\ left'[w] = d.holds
  BY <1>1 DEF EngineInv
<1>5. /\ eng'[w].pc = "asked" /\ eng'[w].todo = E!Ladder(d.bus, want) /\ eng'[w].kind = "none"
      /\ eng'[w].counts = "unread"
  BY <1>1 DEF EngineInv
<1>6. E!Ladder(d.bus, want) \in Ladders(d.bus)
  BY <1>3, LadderWithin
<1> QED BY <1>2, <1>3, <1>4, <1>5, <1>6 DEF Named, E!Consistent

-----------------------------------------------------------------------------
(* The theorem *)

LEMMA NamedNext == EngineInv /\ TypeOK /\ NamedInv /\ [StationNext]_stationVars => NamedInv'
<1> SUFFICES ASSUME EngineInv, TypeOK, NamedInv, [StationNext]_stationVars PROVE NamedInv'
  OBVIOUS
<1>1. CASE UNCHANGED <<left, drive, eng>>
  BY <1>1 DEF NamedInv
<1>2. ASSUME NEW w \in Wipes, Begin(w) PROVE NamedInv'
  <2>1. world \in Worlds
    BY DEF TypeOK
  <2>2. Named(left'[w], drive'[w], eng'[w])
    BY <1>2, <2>1, LaunchNamed DEF Begin
  <2>3. \A v \in Wipes : v # w => left'[v] = left[v] /\ drive'[v] = drive[v] /\ eng'[v] = eng[v]
    BY <1>2 DEF Begin, E!Launch, EngineInv
  <2> QED BY <2>2, <2>3 DEF NamedInv
<1>3. ASSUME NEW w \in Wipes, E!Works(w) \/ E!Befalls(w) PROVE NamedInv'
  <2>1. eng[w] # E!Off
    <3>1. CASE E!Befalls(w)
      BY <3>1 DEF E!Befalls, E!SanitizeRuns, E!SanitizeEnds, E!BusReset, E!Dies
    <3>2. CASE E!Works(w)
      <4>1. eng[w].pc \in {"asked", "firmware", "sanitizing", "judge", "overwrite", "readback", "closing"}
        BY <3>2 DEF E!Works, E!At, E!Trying, E!Refuse, E!NvmeFirst, E!HiddenPresent, E!HiddenClear,
                    E!AtaFails, E!AtaErase, E!SanitizeFails, E!Sanitize, E!Poll, E!GiveUp, E!Format,
                    E!Judge, E!Overwrite, E!OverwriteFails, E!ReadBack, E!Close
      <4>2. E!Off.pc = "off"
        BY DEF E!Off
      <4> QED BY <4>1, <4>2
    <3> QED BY <1>3, <3>1, <3>2
  <2>2. Named(left[w], drive[w], eng[w])
    BY <2>1 DEF NamedInv
  <2>3. Named(left'[w], drive'[w], eng'[w])
    BY <1>3, <2>1, <2>2, ChecksNamed, CommandsNamed, VerdictNamed, BefallsNamed DEF E!Works
  <2>4. \A v \in Wipes : v # w => left'[v] = left[v] /\ drive'[v] = drive[v] /\ eng'[v] = eng[v]
    BY <1>3, OthersStay
  <2> QED BY <2>3, <2>4 DEF NamedInv
<1>4. ASSUME NEW w \in Wipes, E!Leave(w) PROVE NamedInv'
  BY <1>4 DEF E!Leave, NamedInv, EngineInv
<1>5. CASE eng' = [w \in Wipes |-> E!Off]
  BY <1>5 DEF NamedInv
<1> QED
  BY <1>1, <1>2, <1>3, <1>4, <1>5 DEF StationNext, stationVars, Engine, Collect, Unread

(* A drive that does what it reports, and that is called wiped, has no retired sector
   the limitations do not speak of, and after a Purge no other namespace either. *)
THEOREM LeftoversAreNamed == StationSpec => []LeftoversNamed
<1>1. StationInit => NamedInv
  BY DEF StationInit, E!EngineInit, NamedInv
<1>2. ErasedInv /\ NamedInv /\ [StationNext]_stationVars => NamedInv'
  BY NamedNext DEF ErasedInv, StationInv
<1>3. ErasedInv /\ NamedInv => LeftoversNamed
  <2> SUFFICES ASSUME ErasedInv, NamedInv, NEW w \in Wipes, E!Wiped(w), drive[w].does # "pretends"
               PROVE  left[w] \subseteq eng[w].said \cup E!CameBack(w) \cup {"late"} \cup
                                        (IF eng[w].kind = "purge" THEN {} ELSE {"siblings"})
    BY DEF LeftoversNamed, E!LeftoversNamed
  <2>1. eng[w].pc = "told" /\ eng[w].status = "wiped" /\ eng[w] # E!Off
    BY DEF E!Wiped, E!At, E!Off
  <2>2. Sound(left[w], drive[w], eng[w]) /\ Named(left[w], drive[w], eng[w])
    BY <2>1 DEF ErasedInv, EngineInv, NamedInv
  <2>3. /\ "user" \notin left[w] /\ left[w] \cap {"hpa", "dco"} \subseteq eng[w].said \cup E!CameBack(w)
    BY <2>1, <2>2 DEF Sound, E!CameBack
  <2>4. /\ left[w] \subseteq E!Regions
        /\ "retired" \in left[w] => "retired" \in eng[w].said
        /\ eng[w].kind = "purge" => "siblings" \notin left[w]
    BY <2>1, <2>2 DEF Named
  <2> QED BY <2>3, <2>4 DEF E!Regions
<1> QED BY <1>1, <1>2, <1>3, ErasedInit, ErasedNext, PTL DEF StationSpec
=============================================================================
