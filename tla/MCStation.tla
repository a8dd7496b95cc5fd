------------------------------ MODULE MCStation ------------------------------
(* A station in two views that do not meet.  One wipe, of a disk with hidden  *)
(* areas and bad sectors, or of an NVMe drive with one or two namespaces, on  *)
(* a station that restarts and loses power.  And three jobs, of two           *)
(* namespaces and a restore, that people start and stop.                      *)
EXTENDS Station, WipeJobs, TLC

CONSTANTS w1, n1, n2, nvme0

VARIABLE view   \* which of the two

MCDrive ==
  [bus |-> "ata", barred |-> FALSE, holds |-> {"user"}, flash |-> FALSE, max |-> "whole", sees |-> TRUE,
   does |-> "erases", earlier |-> FALSE, siblings |-> FALSE, formatsAll |-> FALSE, op |-> "none",
   log |-> [act |-> "none", state |-> "never"]]

MCHidden == [MCDrive EXCEPT !.holds = {"user", "hpa"}, !.max = "set", !.sees = FALSE]

\* A disk, one that is not to be touched, one that pretends, disks with retired
\* sectors, with an HPA, alone or with an overlay, and with one that an earlier wipe lifted.
MCDisks ==
  {MCDrive, [MCDrive EXCEPT !.barred = TRUE], [MCDrive EXCEPT !.does = "pretends"]}
  \cup {[MCDrive EXCEPT !.holds = {"user", "retired"}, !.flash = f] : f \in BOOLEAN}
  \cup {MCHidden, [MCHidden EXCEPT !.holds = @ \cup {"dco"}]}
  \cup {[MCHidden EXCEPT !.max = "lifted", !.earlier = TRUE]}

MCFlash == [MCDrive EXCEPT !.bus = "nvme", !.flash = TRUE]

MCTwo == [MCFlash EXCEPT !.holds = {"user", "siblings"}, !.siblings = TRUE]

MCDone == [act |-> "crypto", state |-> "done"]

\* One namespace or two; a drive that pretends; one that shows an old sanitize; one
\* that does too, does not start the one it takes, and was overwritten before but for
\* its siblings; and one still busy with the sanitize of an engine that was killed.
MCNvme ==
  {MCTwo, [MCTwo EXCEPT !.formatsAll = TRUE], [MCTwo EXCEPT !.does = "pretends", !.formatsAll = TRUE]}
  \cup {[MCFlash EXCEPT !.log = MCDone]}
  \cup {[MCTwo EXCEPT !.does = "skips", !.holds = {"siblings", "retired"}, !.log = MCDone]}
  \cup {[MCFlash EXCEPT !.op = "crypto", !.log = [act |-> "crypto", state |-> "running"]]}

MCDrives ==
  [sound |-> MCDisks \cup MCNvme, refuses |-> {MCDrive}, unreadable |-> {MCDrive}]

MCKinds == {n1, n2, "install"}

MCOn == n1 :> nvme0 @@ n2 :> nvme0 @@ "install" :> Alone

\* The same wipe again, at once or in between; the other namespace; a restore.
MCPlans ==
  {<<n1, n2, n1>>, <<n1, n1, n2>>, <<n1, n2, n2>>, <<n1, "install", n2>>, <<"install", n1, "install">>}

\* The station stands still while the jobs are looked at.
Still == online /\ world = "sound"

MCInit ==
  /\ StationInit /\ JobsInit
  /\ \/ view = "wipes" /\ wanted = <<n1, n2, n1>>
     \/ view = "jobs" /\ Still

MCNext ==
  \/ view = "wipes" /\ StationNext /\ UNCHANGED <<view, jobVars>>
  \/ view = "jobs" /\ JobsNext /\ UNCHANGED <<view, stationVars>>

MCSpec == MCInit /\ [][MCNext]_<<view, stationVars, jobVars>> /\ StationFairness
=============================================================================
