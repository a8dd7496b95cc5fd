------------------------------ MODULE LockChecks ------------------------------
(***************************************************************************)
(* tools/lock-checks.sh and the installed-OS part of hardware-audit.sh:    *)
(* what a station, booted from its stick on somebody else's machine, can   *)
(* tell of the locks on that machine.  Ten detectors file one row each;    *)
(* the Windows ones read the registry offline, with two tools that may be  *)
(* missing, from hives that may be missing, closed to either tool, or torn *)
(* so that any read of them may fail.                                      *)
(*                                                                         *)
(* A machine has one internal disk.  A detector that dies is not modelled. *)
(***************************************************************************)
EXTENDS Naturals, Sequences

CONSTANTS Machines,  \* the machines met
          Sticks     \* the sticks they are booted from

VARIABLES machine, stick,  \* the machine on the bench, the stick it is booted from
          step,            \* what capture does next: a detector's place, or 0 when the machine is off
          looked,          \* did lock_mount_windows go through the volumes
          rows, os         \* what capture has found so far

captureVars == <<machine, stick, step, looked, rows, os>>

-----------------------------------------------------------------------------
(* Machines and sticks *)

Hives == {"software", "system", "security"}

\* Good; not there; closed to both tools, or to hivexget alone; any read may fail.
Conditions == {"good", "missing", "shut", "half", "torn"}

\* NTFS with a Windows that mounts, one that does not, without a Windows; BitLocker,
\* and BitLocker that libblkid takes for NTFS; a Linux.
Volumes == {"windows", "stuck", "data", "bitlocker", "fve", "linux"}

\* Autopilot traces: a tenant or a profile in the registry, a profile file, the log.
Traces == {"registry", "file", "log"}

\* What a domain leaves behind besides its SID.
Marks == {"account", "logons", "policy", "name", "site", "suffix"}

\* What the firmware shows of a password: a value, one nobody knows, nothing.
Shown == {"value", "odd", "nothing"}

MachineKinds ==
  [volumes: Seq(Volumes), serves: {"all", "first", "none"},   \* the disk, and which sectors of it read
   hives: [Hives -> Conditions], second: BOOLEAN,              \* ControlSet002 is the current one
   registered: BOOLEAN, traces: SUBSET Traces,
   enrolled: BOOLEAN, joined: BOOLEAN, sid: BOOLEAN, marks: SUBSET Marks,
   passwords: SUBSET {"Admin", "System"}, shown: [{"Admin", "System"} -> Shown],
   setup: BOOLEAN, tpm: {"none", "free", "owned"},
   wpbt: {"none", "bad", "names", "alias", "hides", "other"},  \* what the injected binary is called, if anything
   vendor: {"none", "off", "ready", "activated", "odd"}]

Tools == {"lock-checks", "lsblk", "dd", "blkid", "hivexget", "hivexsh", "evtxexport", "mem"}

\* What the live system shows of the machine's firmware.
Firmware == {"efivars", "tpm", "acpi", "attributes"}

StickKinds ==
  [root: BOOLEAN, tools: SUBSET Tools, sees: SUBSET Firmware,
   getcap: {"silent", "fieldless", "answers"},  \* tpm2_getcap
   automounts: BOOLEAN, kiosk: BOOLEAN]

ASSUME LocksAssumption == Machines \subseteq MachineKinds /\ Sticks \subseteq StickKinds

Has(tool) == tool \in stick.tools

Sees(what) == what \in stick.sees

-----------------------------------------------------------------------------
(* The Windows volume *)

\* lsblk's list: a disk that does not read shows none of its volumes.
Listed == IF machine.serves = "all" /\ Has("lsblk") THEN machine.volumes ELSE <<>>

Holds(vs, kinds) == \E i \in DOMAIN vs : vs[i] \in kinds

Mounted == Holds(Listed, {"windows"})

\* lock_mount_windows stops at a Windows; an encrypted volume before it was noticed,
\* unless the live desktop had mounted the Windows already.
Encrypted ==
  \E i \in DOMAIN Listed :
    /\ Listed[i] \in {"bitlocker", "fve"}
    /\ \A j \in 1..i : Listed[j] # "windows"
    /\ ~(stick.automounts /\ Mounted)

\* WIN_ENCRYPTED.
SeenEncrypted == looked /\ Encrypted

Located == Mounted /\ machine.hives["software"] # "missing"

\* The outcomes of one read of a hive with a tool.
Reads(tool, hive) ==
  CASE ~Has(tool) \/ machine.hives[hive] \in {"missing", "shut"} -> {FALSE}
    [] Has(tool) /\ machine.hives[hive] = "torn" -> BOOLEAN
    [] Has(tool) /\ machine.hives[hive] = "half" -> {tool = "hivexsh"}
    [] OTHER -> {TRUE}

\* lock_win_blocked: the lookup is made only by root, with the tool there.
Looks(tool) == stick.root /\ Has(tool)

Blocked(tool) == ~Looks(tool) \/ ~Located

-----------------------------------------------------------------------------
(* The Windows detectors: the statuses each may file *)

\* Mutant: a registry that reads and names nobody is a clean bill.
AutopilotRow_Clean(r) ==
  IF ~r.product THEN "UNKNOWN"
  ELSE IF machine.traces \cap {t \in Traces : r[t]} # {} THEN "LOCKED" ELSE "PASS"

\* The hive is trusted once ProductName reads; whatever names a tenant is the same
\* finding, and nothing on the disk can clear a machine.
AutopilotRow(r) ==
  IF r.product /\ machine.traces \cap {t \in Traces : r[t]} # {} THEN "LOCKED" ELSE "UNKNOWN"

AutopilotSays ==
  IF Blocked("hivexget") THEN {"UNKNOWN"}
  ELSE {AutopilotRow(r) : r \in
          [product: Reads("hivexget", "software"), registry: Reads("hivexget", "software"),
           file: {TRUE}, log: {FALSE, Has("evtxexport")}]}

\* Windows' own enrolments, stock, name no server; a key that is listed and that
\* none of the three reads finds ends the check.
MdmRow(r) ==
  IF ~r.opens \/ ~r.lists \/ ~r.stock THEN "UNKNOWN"
  ELSE IF ~machine.enrolled THEN "PASS"
  ELSE IF r.url THEN "LOCKED"
  ELSE IF r.id \/ r.key THEN "PASS" ELSE "UNKNOWN"

MdmSays ==
  LET sh == Reads("hivexsh", "software")
      get == Reads("hivexget", "software")
  IN IF Blocked("hivexsh") THEN {"UNKNOWN"}
     ELSE {MdmRow(r) : r \in [opens: sh, lists: sh, stock: sh, key: sh, url: get, id: get]}

\* ControlSet001 is looked at, unless Select names another that is there.
CurrentSet(r) == machine.second => r.current /\ r.set

\* A join is in the current set.
EntraRow(r) ==
  IF ~machine.joined \/ ~CurrentSet(r) \/ ~r.info THEN "PASS"
  ELSE IF r.lists THEN "LOCKED" ELSE "UNKNOWN"

EntraSays ==
  LET sh == Reads("hivexsh", "system")
  IN IF Blocked("hivexsh") \/ machine.hives["system"] = "missing" THEN {"UNKNOWN"}
     ELSE {EntraRow(r) : r \in [current: Reads("hivexget", "system"), set: sh, info: sh, lists: sh]}

\* Where each mark is, and whether it takes hivexsh to see it.  The site and the
\* suffix are taken to be in both control sets.
MarkReads(mark) ==
  CASE mark = "account" -> Reads("hivexsh", "security")
    [] mark = "logons" -> Reads("hivexget", "security")
    [] mark = "policy" -> {a /\ b : a \in Reads("hivexsh", "software"), b \in Reads("hivexget", "software")}
    [] mark = "name" -> Reads("hivexget", "software")
    [] mark \in {"site", "suffix"} -> Reads("hivexget", "system")

\* Nothing of the SECURITY hive is looked at before its Policy key was found.
SeenMarks(r) ==
  {m \in machine.marks : r.marks[m] /\ (m \in {"account", "logons"} => r.policy)}

DomainRow(r) ==
  LET sid == r.policy /\ machine.sid /\ r.sid
      strong == SeenMarks(r) \ {"suffix"}
      unread == ~Has("hivexget") \/ ~r.policy \/ machine.hives["system"] = "missing"
  IN IF sid /\ strong # {} THEN "LOCKED"
     ELSE IF sid \/ SeenMarks(r) # {} THEN "DETECTED"
     ELSE IF unread THEN "UNKNOWN" ELSE "PASS"

DomainSays ==
  LET sh == Reads("hivexsh", "security")
      markReads == {f \in [Marks -> BOOLEAN] : \A m \in Marks : f[m] \in MarkReads(m)}
  IN IF Blocked("hivexsh") THEN {"UNKNOWN"}
     ELSE {DomainRow(r) : r \in [policy: sh, sid: sh, marks: markReads]}

-----------------------------------------------------------------------------
(* The firmware detectors *)

\* A value that is neither 0 nor 1 is an unread one.
BiosPasswordSays ==
  LET shown == {w \in DOMAIN machine.shown : machine.shown[w] = "value"}
      odd == {w \in DOMAIN machine.shown : machine.shown[w] = "odd"}
  IN IF ~stick.root \/ ~Sees("attributes") THEN "UNKNOWN"
     ELSE IF shown \cap machine.passwords # {} THEN "WARNING"
     ELSE IF odd # {} \/ shown = {} THEN "UNKNOWN" ELSE "PASS"

\* Reported, never scored.
SecureBootSays == IF stick.root /\ Sees("efivars") THEN "PASS" ELSE "UNKNOWN"

SetupModeSays ==
  IF ~Sees("efivars") THEN "UNKNOWN" ELSE IF machine.setup THEN "WARNING" ELSE "PASS"

TpmSays ==
  IF ~Sees("tpm") THEN "UNKNOWN"
  ELSE IF machine.tpm = "none" \/ ~stick.root \/ stick.getcap = "silent" THEN "PASS"
  ELSE IF stick.getcap = "fieldless" THEN "UNKNOWN"
  ELSE IF machine.tpm = "owned" THEN "DETECTED" ELSE "PASS"

\* WPBT injects a binary at boot: its arguments may name it, else its payload does,
\* where /dev/mem lets it be read.  Without the table the vendor's setting speaks.
AbsoluteSays ==
  IF ~stick.root \/ ~Sees("acpi") THEN "UNKNOWN"
  ELSE CASE machine.wpbt = "bad" -> "UNKNOWN"
         [] machine.wpbt = "names" -> "LOCKED"
         [] machine.wpbt \in {"alias", "hides"} /\ Has("mem") -> "LOCKED"
         [] machine.wpbt = "alias" /\ ~Has("mem") -> "DETECTED"
         [] machine.wpbt = "hides" /\ ~Has("mem") -> "UNKNOWN"
         [] machine.wpbt = "other" -> "DETECTED"
         [] machine.wpbt = "none" ->
              IF ~Sees("attributes") THEN "PASS"
              ELSE CASE machine.vendor \in {"none", "off", "ready"} -> "PASS"
                     [] machine.vendor = "activated" -> "DETECTED"
                     [] machine.vendor = "odd" -> "UNKNOWN"

\* blkid always lists the stick; an encrypted volume it does not type may have been
\* noticed on the way to the Windows volume.
BitlockerSays ==
  IF ~Looks("blkid") THEN "UNKNOWN"
  ELSE IF machine.serves = "all" /\ Holds(machine.volumes, {"bitlocker"}) THEN "WARNING"
  ELSE IF SeenEncrypted THEN "WARNING" ELSE "PASS"

-----------------------------------------------------------------------------
(* The installed operating system *)

\* Mutant: a listing that was cut short is taken for the whole disk.
DiskVerdict_Cut(vs, done) ==
  IF Holds(vs, {"bitlocker"}) THEN "encrypted"
  ELSE IF Holds(vs, {"linux"}) /\ stick.automounts THEN "linux"
  ELSE IF Holds(vs, {"windows", "stuck", "data", "fve"}) THEN "ntfs"
  ELSE IF Holds(vs, {"linux"}) THEN "other" ELSE "none"

\* als_os_disk_verdict: that nothing is installed must be earned by having looked.
DiskVerdict(vs, done) ==
  IF Holds(vs, {"bitlocker"}) THEN "encrypted"
  ELSE IF Holds(vs, {"linux"}) /\ stick.automounts THEN "linux"
  ELSE IF Holds(vs, {"windows", "stuck", "data", "fve"}) THEN "ntfs"
  ELSE IF Holds(vs, {"linux"}) THEN "other"
  ELSE IF ~done THEN "scan failed"
  ELSE IF ~Has("dd") THEN "unchecked"
  ELSE IF machine.serves = "none" THEN "unreadable" ELSE "none"

\* lsblk runs under a time limit: it may list only the first of the volumes.
WithoutWindows ==
  IF ~Has("lsblk") THEN {"other"}
  ELSE {DiskVerdict(Listed, TRUE)}
         \cup {DiskVerdict(SubSeq(Listed, 1, n), FALSE) : n \in 0..Len(Listed)}

OsSays ==
  IF ~Looks("hivexget") THEN {"unread"}
  ELSE IF Located
  THEN {IF r THEN "windows" ELSE "unidentified" : r \in Reads("hivexget", "software")}
  ELSE IF Encrypted THEN {"encrypted"} ELSE WithoutWindows

-----------------------------------------------------------------------------
(* One capture: the OS first, then the detectors in their order *)

Detectors ==
  <<"autopilot", "mdm", "entra", "domainJoin", "biosPassword",
    "secureBoot", "setupMode", "tpm", "absolute", "bitlocker">>

Keys == {Detectors[i] : i \in DOMAIN Detectors}

Statuses == {"PASS", "DETECTED", "LOCKED", "WARNING", "UNKNOWN"}

NoRows == [k \in Keys |-> "none"]

Says(k) ==
  CASE k = "autopilot" -> AutopilotSays
    [] k = "mdm" -> MdmSays
    [] k = "entra" -> EntraSays
    [] k = "domainJoin" -> DomainSays
    [] k = "biosPassword" -> {BiosPasswordSays}
    [] k = "secureBoot" -> {SecureBootSays}
    [] k = "setupMode" -> {SetupModeSays}
    [] k = "tpm" -> {TpmSays}
    [] k = "absolute" -> {AbsoluteSays}
    [] k = "bitlocker" -> {BitlockerSays}

\* The tool a detector must have before it looks for the Windows volume.
Opener == [autopilot |-> "hivexget", mdm |-> "hivexsh", entra |-> "hivexsh", domainJoin |-> "hivexsh"]

Off == 0
Done == Len(Detectors) + 2

Boot(s) ==
  /\ step = Off
  /\ stick' = s
  /\ step' = IF "lock-checks" \in s.tools THEN 1 ELSE Done
  /\ looked' = FALSE /\ rows' = NoRows /\ os' = "unread"
  /\ UNCHANGED machine

ReadOs ==
  /\ step = 1
  /\ os' \in OsSays
  /\ looked' = Looks("hivexget")
  /\ step' = 2
  /\ UNCHANGED <<machine, stick, rows>>

Detect ==
  /\ step - 1 \in DOMAIN Detectors
  /\ LET k == Detectors[step - 1] IN
       /\ \E status \in Says(k) : rows' = [rows EXCEPT ![k] = status]
       /\ looked' = (looked \/ (k \in DOMAIN Opener /\ Looks(Opener[k])))
  /\ step' = step + 1
  /\ UNCHANGED <<machine, stick, os>>

\* lock_status.
RollUp ==
  LET filed == {rows[k] : k \in Keys}
  IN IF "LOCKED" \in filed THEN "LOCKED"
     ELSE IF filed \cap {"DETECTED", "WARNING"} # {} THEN "WARNING"
     ELSE IF filed \cap {"UNKNOWN", "none"} # {} THEN "UNVERIFIED" ELSE "CLEAR"

\* The one boolean the API takes: the text mode always sends it, the kiosk when
\* every check came to an end.
BiosLocked ==
  LET filed == {rows[k] : k \in Keys}
  IN IF ~Has("lock-checks") THEN "unsaid"
     ELSE IF "LOCKED" \in filed THEN "true"
     ELSE IF stick.kiosk /\ "UNKNOWN" \in filed THEN "unsaid" ELSE "false"

\* The machine is wiped and given a Windows of its own; its registration is not on the disk.
Blank(m) ==
  [m EXCEPT !.volumes = <<>>, !.hives = [h \in Hives |-> "missing"], !.second = FALSE,
            !.traces = {}, !.enrolled = FALSE, !.joined = FALSE, !.sid = FALSE, !.marks = {}]

Erase ==
  /\ step = Off /\ machine.serves = "all"
  /\ machine' = Blank(machine)
  /\ UNCHANGED <<stick, step, looked, rows, os>>

Image ==
  /\ step = Off /\ machine.volumes = <<>> /\ machine.serves = "all"
  /\ machine' = [machine EXCEPT !.volumes = <<"windows">>, !.hives = [h \in Hives |-> "good"]]
  /\ UNCHANGED <<stick, step, looked, rows, os>>

CaptureInit ==
  /\ machine \in Machines /\ stick \in Sticks
  /\ step = Off /\ looked = FALSE /\ rows = NoRows /\ os = "unread"

-----------------------------------------------------------------------------
(* Properties *)

\* The lock is there, whatever can be seen of it.
HasLock(k) ==
  CASE k = "autopilot" -> machine.registered
    [] k = "mdm" -> machine.enrolled
    [] k = "entra" -> machine.joined
    [] k = "domainJoin" -> machine.sid
    [] k = "biosPassword" -> machine.passwords # {}
    [] k = "secureBoot" -> FALSE
    [] k = "setupMode" -> machine.setup
    [] k = "tpm" -> machine.tpm = "owned"
    [] k = "absolute" -> machine.wpbt \in {"names", "alias", "hides"} \/ machine.vendor = "activated"
    [] k = "bitlocker" -> Holds(machine.volumes, {"bitlocker", "fve"})

\* What each check cannot see and takes for an answer all the same.
Gap(k) ==
  CASE k = "mdm" -> ~Has("hivexget") \/ machine.hives["software"] \in {"half", "torn"}
    [] k = "entra" ->
         \/ machine.hives["system"] \in {"shut", "torn"}
         \/ machine.second /\ (~Has("hivexget") \/ machine.hives["system"] = "half")
    [] k = "domainJoin" -> machine.hives["security"] = "torn"
    [] k = "biosPassword" -> \E w \in machine.passwords : machine.shown[w] = "nothing"
    [] k = "tpm" -> ~stick.root \/ stick.getcap = "silent"
    [] k = "absolute" -> ~Sees("attributes")
    [] k = "bitlocker" -> machine.serves # "all" \/ ~SeenEncrypted
    [] OTHER -> FALSE

\* A check files PASS on a machine that has the lock only where the way it looks
\* cannot see it; a wiped machine's registration is never taken for gone.
PassIsSeen == \A k \in Keys : rows[k] = "PASS" /\ HasLock(k) => Gap(k)

\* "A check that could not run reports UNKNOWN. Never PASS.": what is written in
\* the registry is never filed as absent.
RegistryNeverPasses ==
  \A k \in {"mdm", "entra", "domainJoin"} : rows[k] = "PASS" => ~HasLock(k)

\* "No operating system installed" is said of a disk that has none, unless the
\* disk serves its first sector and nothing else.
BlankIsBlank == os = "none" => machine.volumes = <<>> \/ machine.serves = "first"
=============================================================================
