---------------------------- MODULE MCDeviceLocks ----------------------------
(* Machines with one thing the matter each, on sticks that lack one thing.  *)
EXTENDS DeviceLocks, TLC

CONSTANTS t1, t2

MCGood == [h \in Hives |-> "good"]

MCClean ==
  [volumes |-> <<"windows">>, serves |-> "all", hives |-> MCGood, second |-> FALSE,
   registered |-> FALSE, traces |-> {}, enrolled |-> FALSE, joined |-> FALSE,
   sid |-> FALSE, marks |-> {}, passwords |-> {},
   shown |-> [w \in {"Admin", "System"} |-> "value"], setup |-> FALSE, tpm |-> "free",
   wpbt |-> "none", vendor |-> "ready"]

\* Disks: none to read, an encrypted volume before or after the Windows, a cut listing.
MCDisks ==
  {[MCClean EXCEPT !.volumes = vs] :
     vs \in {<<>>, <<"bitlocker">>, <<"fve", "windows">>, <<"windows", "fve">>, <<"data", "linux">>, <<"stuck">>}}
  \cup {[MCClean EXCEPT !.serves = s] : s \in {"first", "none"}}
  \cup {[MCClean EXCEPT !.volumes = <<>>, !.serves = "none"]}

\* A machine that belongs to somebody, with one hive that does not read as it should.
MCOwned ==
  [MCClean EXCEPT !.registered = TRUE, !.enrolled = TRUE, !.joined = TRUE, !.sid = TRUE, !.marks = {"account"}]

MCHives ==
  {[MCOwned EXCEPT !.hives[h] = c] : h \in Hives, c \in Conditions}
  \cup {[MCOwned EXCEPT !.second = TRUE], [MCOwned EXCEPT !.second = TRUE, !.hives["system"] = "half"]}

MCBound ==
  {[MCClean EXCEPT !.registered = TRUE, !.traces = ts] : ts \in {{}, {"registry"}, {"file"}, {"log"}}}
  \cup {[MCClean EXCEPT !.enrolled = TRUE], [MCClean EXCEPT !.joined = TRUE]}
  \cup {[MCClean EXCEPT !.sid = s, !.marks = ms] :
          s \in BOOLEAN, ms \in {{}, {"account"}, {"policy", "name"}, {"site"}, {"suffix"}, {"logons"}}}
  \cup {[MCClean EXCEPT !.marks = {"logons"}, !.hives["security"] = "torn"]}

MCFirmware ==
  {[MCClean EXCEPT !.wpbt = b] : b \in {"bad", "names", "alias", "hides", "other"}}
  \cup {[MCClean EXCEPT !.vendor = v] : v \in {"none", "off", "activated", "odd"}}
  \cup {[MCClean EXCEPT !.passwords = {"System"}, !.shown["System"] = x] : x \in Shown}
  \cup {[MCClean EXCEPT !.tpm = "owned"], [MCClean EXCEPT !.tpm = "none"], [MCClean EXCEPT !.setup = TRUE]}

MCMachines == MCDisks \cup MCHives \cup MCBound \cup MCFirmware

MCStick ==
  [root |-> TRUE, tools |-> Tools, sees |-> Firmware, getcap |-> "answers",
   automounts |-> FALSE, kiosk |-> TRUE]

MCSticks ==
  {MCStick} \cup {[MCStick EXCEPT !.tools = @ \ {t}] : t \in Tools}
  \cup {[MCStick EXCEPT !.sees = @ \ {f}, !.kiosk = FALSE] : f \in Firmware}
  \cup {[MCStick EXCEPT !.getcap = g] : g \in {"silent", "fieldless"}}
  \cup {[MCStick EXCEPT !.root = FALSE], [MCStick EXCEPT !.automounts = TRUE],
        [MCStick EXCEPT !.tools = @ \ {"hivexget", "hivexsh"}]}

MCSymmetry == Permutations(Technicians)
=============================================================================
