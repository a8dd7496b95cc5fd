----------------------------- MODULE StationQueue -----------------------------
(***************************************************************************)
(* tools/gui/server.py: what an audit station does with the record of a    *)
(* wipe.  A marker goes to the USB stick before the engine starts, the     *)
(* finished record replaces it, the upload is tried, and what the server   *)
(* did not take waits in a queue file that a flush retries.  Both files    *)
(* live on the stick, with a copy in /tmp (RAM) when the stick refuses a   *)
(* write.  The process restarts, the power is cut, the stick refuses       *)
(* writes or will not read, the network comes and goes.                    *)
(*                                                                         *)
(* A file is the set of the records in it: two byte-identical lines are    *)
(* one, so how often a record is uploaded again is not modelled.  /tmp     *)
(* itself always reads and writes.  Whose sign-in a record goes under is   *)
(* part of whether the server can be reached.                              *)
(***************************************************************************)
EXTENDS Naturals, FiniteSets

CONSTANTS Wipes,        \* the wipes an operator starts
          Worlds,       \* what may be wrong with the stick
          MaxCrashes,   \* bound on the restarts and power cuts
          MaxTroubles   \* bound on the times the stick or the network changes

ASSUME StationAssumption ==
  /\ Worlds \subseteq {"sound", "refuses", "unreadable"}
  /\ MaxCrashes \in Nat /\ MaxTroubles \in Nat

VARIABLES stick, ram,       \* the queue file and the marker file, and their copies
          takes, reads,     \* does the stick accept a write; which of its files read in full
          online, refuses,  \* is the server there; the wipes whose record it turns down
          status, job,      \* the process, and its wipes
          flush, recovery,  \* the flush and the recovery under way
          refused,          \* records turned down in the last REJECT_RETRY_SECS
          server,           \* the records the server has
          world, cut,       \* what may be wrong, and whether the power was ever cut
          crashes, troubles

disk == <<stick, ram>>
env == <<takes, reads, online, refuses, world, cut, crashes, troubles>>
vars == <<stick, ram, takes, reads, online, refuses, status, job, flush, recovery,
          refused, server, world, cut, crashes, troubles>>

Files == {"queue", "pending"}

Outcomes == {"wiped", "failed"}

\* A record says what happened to the drive; "unknown" is filed as a failed wipe.
Records == [wipe: Wipes, out: Outcomes \cup {"unknown"}]

\* A marker holds the record once it is made.
Markers == [wipe: Wipes, final: Outcomes \cup {"none"}]

-----------------------------------------------------------------------------
(* The two files and their copies in RAM *)

\* What a read of both copies returns: from a stick that will not read, some of it.
Loads(f) ==
  IF f \in reads THEN {stick[f] \cup ram[f]}
  ELSE {part \cup ram[f] : part \in SUBSET stick[f]}

\* A write to the stick drops the copy in RAM; one it refuses goes to RAM alone.
Store(f, items) ==
  IF takes
  THEN stick' = [stick EXCEPT ![f] = items] /\ ram' = [ram EXCEPT ![f] = {}]
  ELSE ram' = [ram EXCEPT ![f] = items] /\ UNCHANGED stick

\* Mutant: what the stick did not show is rewritten away.
QueueAdd_Rewrite(r) == \E seen \in Loads("queue") : Store("queue", seen \cup {r})

\* A queue that could not be read in full is left alone: the record goes to RAM.
QueueAdd(r) ==
  IF "queue" \in reads THEN Store("queue", stick.queue \cup ram.queue \cup {r})
  ELSE ram' = [ram EXCEPT !.queue = @ \cup {r}] /\ UNCHANGED stick

PendingUpdate(items) ==
  IF "pending" \in reads THEN Store("pending", items) ELSE UNCHANGED disk

Pending == stick.pending \cup ram.pending

PendingAdd(w) == PendingUpdate(Pending \cup {[wipe |-> w, final |-> "none"]})

\* Mutant: the marker stays as it was when the engine started.
PendingFinalize_No(w, out) == UNCHANGED disk

PendingFinalize(w, out) ==
  PendingUpdate({IF m.wipe = w THEN [m EXCEPT !.final = out] ELSE m : m \in Pending})

PendingRemove(ws) == PendingUpdate({m \in Pending : m.wipe \notin ws})

\* Mutant: only the path is looked at, and it is on the stick.
QueueDurable_Path == TRUE

\* "Safe to reboot or shut down", as the screen puts it.
QueueDurable == ram.queue = {} /\ "queue" \in reads

-----------------------------------------------------------------------------
(* The server *)

\* How posting r can end: the answer to a record the server took may be lost.
Answers(r) ==
  CASE ~online -> {"unsent"}
    [] online /\ r.wipe \in refuses -> {"refused"}
    [] OTHER -> {"taken", "lost"}

Deliver(r, answer) ==
  server' = IF answer \in {"taken", "lost"} THEN server \cup {r} ELSE server

NoteRejection(r, answer) ==
  refused' = IF answer = "refused" THEN refused \cup {r} ELSE refused

-----------------------------------------------------------------------------
(* A wipe *)

Idle == [phase |-> "idle", out |-> "none"]

Turn(w, phase) == job' = [job EXCEPT ![w].phase = phase]

\* Mutant: no marker before the engine starts.
StartWipe_Unmarked(w) ==
  /\ status = "up" /\ job[w] = Idle
  /\ Turn(w, "running")
  /\ UNCHANGED <<disk, env, status, flush, recovery, refused, server>>

StartWipe(w) ==
  /\ status = "up" /\ job[w] = Idle
  /\ PendingAdd(w)
  /\ Turn(w, "running")
  /\ UNCHANGED <<env, status, flush, recovery, refused, server>>

EngineEnds(w) ==
  /\ job[w].phase = "running"
  /\ \E out \in Outcomes \cup {"refused"} : job' = [job EXCEPT ![w] = [phase |-> "ended", out |-> out]]
  /\ UNCHANGED <<disk, env, status, flush, recovery, refused, server>>

\* The engine wrote nothing: no record, and no marker.
DropRefused(w) ==
  /\ job[w] = [phase |-> "ended", out |-> "refused"]
  /\ PendingRemove({w})
  /\ Turn(w, "done")
  /\ UNCHANGED <<env, status, flush, recovery, refused, server>>

\* The record is on disk before its upload starts.
Finalize(w) ==
  /\ job[w].phase = "ended" /\ job[w].out # "refused"
  /\ PendingFinalize(w, job[w].out)
  /\ Turn(w, "final")
  /\ UNCHANGED <<env, status, flush, recovery, refused, server>>

RecordOf(w) == [wipe |-> w, out |-> job[w].out]

Upload(w) ==
  /\ job[w].phase = "final"
  /\ \E answer \in Answers(RecordOf(w)) :
       /\ Deliver(RecordOf(w), answer)
       /\ NoteRejection(RecordOf(w), answer)
       /\ Turn(w, IF answer = "taken" THEN "kept" ELSE "failed")
  /\ UNCHANGED <<disk, env, status, flush, recovery>>

Enqueue(w) ==
  /\ job[w].phase = "failed"
  /\ QueueAdd(RecordOf(w))
  /\ Turn(w, "kept")
  /\ UNCHANGED <<env, status, flush, recovery, refused, server>>

Unmark(w) ==
  /\ job[w].phase = "kept"
  /\ PendingRemove({w})
  /\ Turn(w, "done")
  /\ UNCHANGED <<env, status, flush, recovery, refused, server>>

-----------------------------------------------------------------------------
(* The flush: at most one, and every upload outside QUEUE_LOCK *)

NoFlush == [on |-> FALSE, todo |-> {}, done |-> {}]

Running == status \in {"recovering", "up"}

FlushStart ==
  /\ Running /\ ~flush.on
  /\ \E seen \in Loads("queue") \ {{}} : flush' = [on |-> TRUE, todo |-> seen, done |-> {}]
  /\ UNCHANGED <<disk, env, status, job, recovery, refused, server>>

FlushOne ==
  \E r \in flush.todo :
    /\ \E answer \in IF r \in refused THEN {"waits"} ELSE Answers(r) :
         /\ Deliver(r, answer)
         /\ NoteRejection(r, answer)
         /\ flush' = [flush EXCEPT !.todo = @ \ {r},
                                   !.done = IF answer = "taken" THEN @ \cup {r} ELSE @]
    /\ UNCHANGED <<disk, env, status, job, recovery>>

\* What was sent leaves the queue as it is now.
FlushEnd ==
  /\ flush.on /\ flush.todo = {}
  /\ IF "queue" \in reads THEN Store("queue", (stick.queue \cup ram.queue) \ flush.done)
                          ELSE UNCHANGED disk
  /\ flush' = NoFlush
  /\ UNCHANGED <<env, status, job, recovery, refused, server>>

\* REJECT_RETRY_SECS pass.
RetryDue ==
  /\ refused # {}
  /\ refused' = {}
  /\ UNCHANGED <<disk, env, status, job, flush, recovery, server>>

-----------------------------------------------------------------------------
(* Restarts: what a previous run started and never recorded is filed *)

NoRecovery == [todo |-> {}, filed |-> {}]

Boot ==
  /\ status \in {"crashed", "off"}
  /\ status' = "recovering"
  /\ \E seen \in Loads("pending") : recovery' = [todo |-> seen, filed |-> {}]
  /\ UNCHANGED <<disk, env, job, flush, refused, server>>

Leftover(m) == [wipe |-> m.wipe, out |-> IF m.final = "none" THEN "unknown" ELSE m.final]

RecoverOne ==
  /\ status = "recovering"
  /\ \E m \in recovery.todo :
       /\ QueueAdd(Leftover(m))
       /\ recovery' = [todo |-> recovery.todo \ {m}, filed |-> recovery.filed \cup {m.wipe}]
  /\ UNCHANGED <<env, status, job, flush, refused, server>>

RecoverEnd ==
  /\ status = "recovering" /\ recovery.todo = {}
  /\ IF recovery.filed = {} THEN UNCHANGED disk ELSE PendingRemove(recovery.filed)
  /\ status' = "up" /\ recovery' = NoRecovery
  /\ UNCHANGED <<env, job, flush, refused, server>>

\* Everything in the process's memory is gone; an engine may go on erasing, unseen.
Forget ==
  /\ crashes < MaxCrashes
  /\ crashes' = crashes + 1
  /\ job' = [w \in Wipes |-> IF job[w].phase \in {"idle", "done"} THEN job[w]
                             ELSE [job[w] EXCEPT !.phase = "lost"]]
  /\ flush' = NoFlush /\ recovery' = NoRecovery /\ refused' = {}
  /\ UNCHANGED <<stick, takes, reads, online, refuses, server, world, troubles>>

Restart == Running /\ Forget /\ status' = "crashed" /\ UNCHANGED <<ram, cut>>

PowerOff == status # "off" /\ Forget /\ status' = "off" /\ cut' = TRUE /\ ram' = [f \in Files |-> {}]

-----------------------------------------------------------------------------
(* The stick, the network and the server *)

Change ==
  /\ troubles < MaxTroubles
  /\ troubles' = troubles + 1
  /\ UNCHANGED <<disk, status, job, flush, recovery, refused, server, world, cut, crashes>>

StickRefuses ==
  /\ world = "refuses"
  /\ takes' = ~takes
  /\ Change /\ UNCHANGED <<reads, online, refuses>>

StickUnreadable ==
  /\ world = "unreadable"
  /\ \E fs \in SUBSET Files : fs # reads /\ reads' = fs
  /\ Change /\ UNCHANGED <<takes, online, refuses>>

Network ==
  /\ online' = ~online
  /\ Change /\ UNCHANGED <<takes, reads, refuses>>

ServerMind ==
  /\ \E ws \in SUBSET Wipes : ws # refuses /\ refuses' = ws
  /\ Change /\ UNCHANGED <<takes, reads, online>>

-----------------------------------------------------------------------------
Init ==
  /\ stick = [f \in Files |-> {}] /\ ram = [f \in Files |-> {}]
  /\ takes = TRUE /\ reads = Files /\ online \in BOOLEAN /\ refuses = {}
  /\ status = "up" /\ job = [w \in Wipes |-> Idle]
  /\ flush = NoFlush /\ recovery = NoRecovery
  /\ refused = {} /\ server = {}
  /\ world \in Worlds /\ cut = FALSE /\ crashes = 0 /\ troubles = 0

Wipe(w) ==
  StartWipe(w) \/ EngineEnds(w) \/ DropRefused(w) \/ Finalize(w) \/ Upload(w) \/ Enqueue(w) \/ Unmark(w)

Flush == FlushStart \/ FlushOne \/ FlushEnd \/ RetryDue

Recover == Boot \/ RecoverOne \/ RecoverEnd

Environment == Restart \/ PowerOff \/ StickRefuses \/ StickUnreadable \/ Network \/ ServerMind

Next == (\E w \in Wipes : Wipe(w)) \/ Flush \/ Recover \/ Environment

Spec == Init /\ [][Next]_vars

-----------------------------------------------------------------------------
(* Properties *)

File(R, M) == [queue: SUBSET R, pending: SUBSET M]

Phases == {"idle", "running", "ended", "final", "failed", "kept", "done", "lost"}

\* The types of the station's files, its threads and the world around it.
TypeOK ==
  /\ stick \in File(Records, Markers) /\ ram \in File(Records, Markers)
  /\ takes \in BOOLEAN /\ reads \subseteq Files
  /\ online \in BOOLEAN /\ refuses \subseteq Wipes
  /\ status \in {"up", "crashed", "off", "recovering"}
  /\ job \in [Wipes -> [phase: Phases, out: Outcomes \cup {"none", "refused"}]]
  /\ flush \in [on: BOOLEAN, todo: SUBSET Records, done: SUBSET Records]
  /\ recovery \in [todo: SUBSET Markers, filed: SUBSET Wipes]
  /\ refused \subseteq Records /\ server \subseteq Records
  /\ world \in Worlds /\ cut \in BOOLEAN
  /\ crashes \in 0..MaxCrashes /\ troubles \in 0..MaxTroubles

Waiting == stick.queue \cup ram.queue

Made == Waiting \cup server

\* Engines that may have written to their drive.
Owed(w) == job[w] # Idle /\ job[w].out # "refused"

\* The wipe's trace outlives the power.
Safe(w) ==
  \/ \E r \in stick.queue \cup server : r.wipe = w
  \/ \E m \in stick.pending : m.wipe = w

Traced(w) ==
  Safe(w) \/ (\E r \in ram.queue : r.wipe = w) \/ (\E m \in ram.pending : m.wipe = w)

\* A wipe that may have touched its drive is on the server or on the stick from
\* before its engine starts, through restarts and power cuts, as long as the
\* stick is sound; without a power cut, also when the stick refuses writes.
WipesAreKept ==
  \A w \in Wipes : Owed(w) =>
    /\ world = "sound" => Safe(w)
    /\ (world = "refuses" /\ ~cut) => Traced(w)

\* On a sound stick a wipe whose record was made is never filed again as an
\* unknown outcome: what a leftover marker files is the same record.
OneVerdict ==
  world = "sound" =>
    \A r \in Made : \A q \in Made : r.wipe = q.wipe => r = q

\* Whatever the stick does, a record that waits is neither overwritten nor
\* dropped: it reaches the server first, or the power is cut at a moment when
\* the screen says "DO NOT reboot or shut down".
QueueForgetsNothing ==
  [][\A r \in Waiting :
       \/ r \in Waiting' \cup server'
       \/ ~QueueDurable /\ status # "off" /\ status' = "off"]_vars

\* The last trace on the stick of a wipe the server does not have is given up
\* only when the engine wrote nothing, or when the screen says not to shut down.
LastTraceWatched ==
  [][\A w \in Wipes : (Safe(w) /\ Owed(w)) => (Safe(w)' \/ ~QueueDurable')]_vars

\* What this wipe is owed on the server: its record, or a leftover marker.  A
\* record lost to a power cut while it was in RAM alone is not, and a marker that
\* did not read at one start waits for the next.
Due(w) ==
  \/ job[w].phase \in {"ended", "final", "failed"} /\ job[w].out # "refused"
  \/ \E r \in Waiting \ server : r.wipe = w
  \/ \E m \in recovery.todo : m.wipe = w
  \/ world # "unreadable" /\ job[w].phase = "lost" /\ \E m \in Pending : m.wipe = w
=============================================================================
