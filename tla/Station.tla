------------------------------- MODULE Station -------------------------------
(***************************************************************************)
(* An audit station: the engines that erase drives, and the records of     *)
(* them.  The engine runs in a session of its own, so it outlives the      *)
(* process that started it; what it then says goes unread.                 *)
(***************************************************************************)
EXTENDS StationQueue, Sequences

CONSTANTS Drives,   \* the drives met, by what may be wrong with the stick
          Wants

VARIABLES left, drive, eng

E == INSTANCE EraseEngine

ASSUME DrivesAssumption ==
  \A x \in Worlds : \A d \in Drives[x] : d \in E!DriveKinds /\ E!Consistent(d)

stationVars == <<vars, left, drive, eng>>

Begin(w) == StartWipe(w) /\ E!Launch(w, Drives[world])

\* The line the engine printed is the result of the job.
Collect(w) ==
  /\ E!At(w, "told") /\ EngineEnds(w)
  /\ job'[w].out = eng[w].status
  /\ E!Leave(w)

Unread(w) ==
  /\ E!At(w, "told") /\ job[w].phase = "lost"
  /\ E!Leave(w) /\ UNCHANGED vars

Engine(w) == E!Works(w) /\ UNCHANGED vars

Record(w) == DropRefused(w) \/ Finalize(w) \/ Upload(w) \/ Enqueue(w) \/ Unmark(w)

Troubles == Restart \/ StickRefuses \/ StickUnreadable \/ Network \/ ServerMind

StationInit == Init /\ E!EngineInit

StationNext ==
  \/ \E w \in Wipes : Begin(w) \/ Engine(w) \/ Collect(w) \/ Unread(w)
  \/ \E w \in Wipes : E!Befalls(w) /\ UNCHANGED vars
  \/ (\E w \in Wipes : Record(w)) /\ UNCHANGED <<left, drive, eng>>
  \/ (Flush \/ Recover \/ Troubles) /\ UNCHANGED <<left, drive, eng>>
  \/ PowerOff /\ eng' = [w \in Wipes |-> E!Off] /\ drive' = [w \in Wipes |-> E!NoDrive] /\ UNCHANGED left

\* The engine and the process go on; a station that is off is switched on again.
\* What a drive does, and when, is its own affair.
StationFairness ==
  /\ \A w \in Wipes : WF_eng(Engine(w)) /\ WF_eng(Collect(w)) /\ WF_vars(Record(w))
  /\ WF_vars(FlushStart) /\ WF_vars(FlushOne) /\ WF_vars(FlushEnd)
  /\ WF_vars(RetryDue) /\ WF_vars(Recover)

StationSpec == StationInit /\ [][StationNext]_stationVars /\ StationFairness

-----------------------------------------------------------------------------
(* Properties *)

\* A wipe is told, and a record filed, as "wiped" only when the drive was read
\* back and none of its old data was there, whatever its controller said and
\* whatever log it showed; an end of it that was out of reach is spoken of.
WipedIsErased ==
  /\ E!WipedIsErased
  /\ \A r \in Made : r.out = "wiped" => "user" \notin left[r.wipe]

\* What a wipe left behind, on a drive whose commands do what they report, is in
\* its limitations: retired sectors always, and after a Purge the drive's other
\* namespaces too.
LeftoversNamed == E!LeftoversNamed

\* Once the server stays there, refuses nothing and the stick reads, a wipe that
\* was started is recorded there, whatever the drive does, unless its engine
\* wrote nothing; and so is what an interrupted one left on the stick.
WipesRecorded ==
  <>[](online /\ refuses = {} /\ reads = Files) =>
    \A w \in Wipes :
      []<>((\E r \in server : r.wipe = w) \/ ~(Due(w) \/ job[w].phase = "running"))
=============================================================================
