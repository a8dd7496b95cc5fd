----------------------------- MODULE DeviceLocks -----------------------------
(***************************************************************************)
(* A machine's locks from the station to its audits: each capture that is  *)
(* uploaded becomes an audit with the roll-up of its detectors, and        *)
(* technicians who saw the first Windows screen (OOBE) record it on the    *)
(* newest audit they find, in a request that reads before it writes.       *)
(***************************************************************************)
EXTENDS LockChecks, FiniteSets

CONSTANTS Technicians,
          MaxAudits   \* bound on the captures uploaded

ASSUME DeviceAssumption == MaxAudits \in Nat

VARIABLES audits,  \* the device's audits, oldest first
          oobe     \* each technician's request

deviceVars == <<captureVars, audits, oobe>>

Screens == {"organisation", "generic", "blocked"}

LockStatuses == {"LOCKED", "WARNING", "UNVERIFIED", "CLEAR"}

NoRequest == [on |-> 0, lock |-> "none", saw |-> "none"]

\* A tool reads a hive of the Windows that is mounted, whenever it is asked to.
Opens(tool, hive) == Looks(tool) /\ Has("lock-checks") /\ Located /\ Reads(tool, hive) = {TRUE}

BothOpen(hive) == Opens("hivexget", hive) /\ Opens("hivexsh", hive)

\* A lock that is written down where this capture reads.
Plain ==
  \/ "registry" \in machine.traces /\ Opens("hivexget", "software")
  \/ "file" \in machine.traces /\ Opens("hivexget", "software")
  \/ machine.enrolled /\ BothOpen("software")
  \/ machine.joined /\ BothOpen("system")
  \/ machine.sid /\ "account" \in machine.marks /\ Opens("hivexsh", "security")
  \/ machine.wpbt = "names" /\ stick.root /\ Sees("acpi") /\ Has("lock-checks")

\* lockStatusOf: the roll-up of the profile, whatever the payload's boolean says.
UploadAudit ==
  /\ step = Done /\ Len(audits) < MaxAudits
  /\ audits' = Append(audits, [rollup |-> RollUp, lock |-> RollUp, bios |-> BiosLocked,
                               saw |-> "none", plain |-> Plain])
  /\ step' = Off /\ rows' = NoRows /\ os' = "unread" /\ looked' = FALSE
  /\ UNCHANGED <<machine, stick, oobe>>

\* recordAutopilotOobe finds the newest audit ...
FindAudit(t) ==
  /\ oobe[t] = NoRequest /\ audits # <<>>
  /\ \E saw \in Screens :
       oobe' = [oobe EXCEPT ![t] = [on |-> Len(audits), lock |-> audits[Len(audits)].lock, saw |-> saw]]
  /\ UNCHANGED <<captureVars, audits>>

\* Mutant: any other screen makes the status what the profile said.
WithOobe_Rederived(request) ==
  IF request.saw = "organisation" THEN "LOCKED"
  ELSE IF request.saw = "generic" THEN "UNVERIFIED" ELSE request.lock

\* lockStatusWithOobe: one screen outranks the detectors, the others change nothing.
WithOobe(request) == IF request.saw = "organisation" THEN "LOCKED" ELSE request.lock

\* ... and writes what was seen, with the status it had read.
RecordOobe(t) ==
  /\ oobe[t] # NoRequest /\ oobe[t].on # 0
  /\ audits' = [audits EXCEPT ![oobe[t].on].saw = oobe[t].saw, ![oobe[t].on].lock = WithOobe(oobe[t])]
  /\ oobe' = [oobe EXCEPT ![t] = [NoRequest EXCEPT !.saw = "filed"]]
  /\ UNCHANGED captureVars

Capture == ReadOs \/ Detect \/ Erase \/ Image \/ \E s \in Sticks : Boot(s)

DeviceInit == CaptureInit /\ audits = <<>> /\ oobe = [t \in Technicians |-> NoRequest]

DeviceNext ==
  \/ Len(audits) < MaxAudits /\ Capture /\ UNCHANGED <<audits, oobe>>
  \/ UploadAudit
  \/ \E t \in Technicians : FindAudit(t) \/ RecordOobe(t)

DeviceSpec == DeviceInit /\ [][DeviceNext]_deviceVars

-----------------------------------------------------------------------------
(* Properties *)

\* A lock that was there to be read is on the audit as LOCKED, whatever screens
\* technicians record on it in whatever order; so is one that the screen last
\* recorded names; and the boolean sent with the capture never says otherwise.
LocksAreTold ==
  \A i \in DOMAIN audits :
    LET a == audits[i] IN
      /\ a.plain \/ a.saw = "organisation" => a.lock = "LOCKED"
      /\ a.bios # "unsaid" => (a.bios = "true" <=> a.rollup = "LOCKED")
=============================================================================
