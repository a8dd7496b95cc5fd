----------------------------- MODULE EraseEngine -----------------------------
(***************************************************************************)
(* tools/hardware-audit.sh --wipe-drive: the engine that erases one drive. *)
(* It refuses what it must not touch, looks for hidden areas, tries the    *)
(* drive's own erase commands, reads the drive back, overwrites it when    *)
(* they did not work, and says in one line what was achieved and what the  *)
(* method did not reach.                                                   *)
(*                                                                         *)
(* A drive is the regions of it that still hold old data.  A region is     *)
(* erased as a whole; what a read-back of the region finds is what it      *)
(* holds.  The reasons a method was not used, the labels and the sizes are *)
(* left out, and so are the suspend that unfreezes a drive (off unless the *)
(* station's audit.conf asks for it) and eMMC, which has no method but the *)
(* overwrite.                                                              *)
(***************************************************************************)
EXTENDS Naturals, Sequences

CONSTANTS Wipes,    \* the wipes an operator starts, each on a drive of its own
          Wants     \* the methods that may be asked for

VARIABLES left,     \* the regions of each drive that hold old data
          drive,    \* the drive behind the name an engine was given, while it runs
          eng       \* the engines

engineVars == <<left, drive, eng>>

\* "hpa" and "dco": the end of the drive, behind a lowered max address or an
\* overlay; "siblings": an NVMe drive's other namespaces; "retired" and "late":
\* sectors, or flash blocks, out of service before this wipe and since.
Regions == {"user", "hpa", "dco", "siblings", "retired", "late"}

Bad == {"retired", "late"}

NoDrive == [bus |-> "none"]

Off == [pc |-> "off"]

\* A drive: holds, its regions with old data; max, is its end hidden ("set"), or not
\* until the next reset ("lifted", by an earlier wipe of the boot or by this one), and
\* sees, does the kernel see all of it; does, what its erase commands do; siblings, has
\* it namespaces that formatsAll, or not, cover; log and op, its last sanitize and the
\* one under way.
DriveKinds ==
  [bus: {"ata", "nvme"}, barred: BOOLEAN, holds: SUBSET Regions, flash: BOOLEAN,
   max: {"whole", "set", "lifted"}, sees: BOOLEAN, does: {"erases", "pretends", "skips"},
   earlier: BOOLEAN, siblings: BOOLEAN, formatsAll: BOOLEAN, op: {"none", "crypto", "block"},
   log: [act: {"none", "crypto", "block"}, state: {"never", "running", "done", "failed"}]]

\* An end is hidden by a max address, or an earlier wipe raised that; NVMe has none,
\* and is flash; only NVMe has namespaces.
Consistent(d) ==
  /\ "hpa" \in d.holds => d.max # "whole"
  /\ d.max = "lifted" => d.earlier
  /\ d.bus = "nvme" => d.flash /\ d.holds \cap {"hpa", "dco"} = {}
  /\ d.bus = "ata" => "siblings" \notin d.holds

\* An engine: todo, the methods it may still try; fresh, the sanitize must be seen to
\* run; lifted, this engine lifted the HPA; counts, bad sectors before, by SMART; kind,
\* what the method achieves; said, what the limitations speak of.
At(w, pc) == eng[w].pc = pc

Go(w, pc) == eng' = [eng EXCEPT ![w].pc = pc]

\* On to the methods that rest; after the last one, the overwrite.
Then(w, rest) ==
  [eng EXCEPT ![w].todo = rest, ![w].fresh = FALSE,
              ![w].pc = IF rest = <<>> THEN "overwrite" ELSE "firmware"]

Tell(w, status) == eng' = [eng EXCEPT ![w].pc = "told", ![w].status = status, ![w].todo = <<>>]

-----------------------------------------------------------------------------
(* Refusals and hidden areas: nothing is written yet *)

\* What the ladder holds for the method asked for.
Ladder(bus, want) ==
  IF want \in {"overwrite", "zero"} THEN <<>>
  ELSE IF bus = "ata" THEN IF want = "crypto" THEN <<"ata-enhanced">> ELSE <<"ata">>
  ELSE CASE want = "auto" -> <<"crypto", "block", "format">>
         [] want = "crypto" -> <<"crypto", "format">>
         [] OTHER -> <<"block", "format">>

Launch(w, drives) ==
  /\ At(w, "off")
  /\ \E d \in drives, want \in Wants :
       /\ drive' = [drive EXCEPT ![w] = d]
       /\ left' = [left EXCEPT ![w] = d.holds]
       /\ eng' = [eng EXCEPT ![w] = [pc |-> "asked", todo |-> Ladder(d.bus, want),
                                     fresh |-> FALSE, lifted |-> FALSE, counts |-> "unread",
                                     kind |-> "none", said |-> {}, status |-> "none"]]

\* Removable, USB, the boot disk, a pseudo-device, or not the serial asked for.
Refuse(w) ==
  /\ At(w, "asked") /\ drive[w].barred
  /\ Tell(w, "refused")
  /\ UNCHANGED <<left, drive>>

\* What smart_counts can read of reallocated and pending sectors.
Counts(w) == {"unread", IF left[w] \cap Bad # {} THEN "some" ELSE "zero"}

\* On to the erase, the bad sectors counted first.
Proceed(w, lifted, said) ==
  \E c \in Counts(w) :
    eng' = [Then(w, eng[w].todo) EXCEPT ![w].lifted = lifted, ![w].said = said, ![w].counts = c]

\* NVMe has neither, nor the counts; without nvme-cli, or with not exactly one
\* controller behind the name, no command is sent to it.
NvmeFirst(w) ==
  /\ At(w, "asked") /\ ~drive[w].barred /\ drive[w].bus = "nvme"
  /\ \E todo \in {eng[w].todo, <<>>} : eng' = Then(w, todo)
  /\ UNCHANGED <<left, drive>>

\* What the drive answers about its hidden areas: whether it says of its max
\* address, and of its overlay, anything that can be parsed.
Answers(w) == {a \in [max: BOOLEAN, dco: BOOLEAN] : a.dco /\ "dco" \in left[w] => a.max}

\* The drive's max address is set to the native one, until its next reset.
HpaRemove(w, sees) == drive' = [drive EXCEPT ![w].max = "lifted", ![w].sees = sees]

\* A DCO is never removed, an HPA only for this boot; either may fail the wipe.
HiddenPresent(w) ==
  /\ At(w, "asked") /\ ~drive[w].barred /\ drive[w].bus = "ata"
  /\ \E a \in Answers(w) :
       \/ /\ a.dco /\ "dco" \in left[w]
          /\ Tell(w, "failed") /\ UNCHANGED drive
       \/ /\ ~(a.dco /\ "dco" \in left[w]) /\ a.max /\ drive[w].max = "set"
          /\ \/ Tell(w, "failed") /\ UNCHANGED drive
             \/ \E sees \in BOOLEAN :
                  /\ HpaRemove(w, sees)
                  /\ IF sees THEN Proceed(w, TRUE, IF a.dco THEN {} ELSE {"dco"})
                             ELSE Tell(w, "failed")
  /\ UNCHANGED left

\* Does the kernel see the whole drive?  A rescan is tried when it does not, and
\* nothing is when the native size is not known.
KernelWhole(w, a, sees) ==
  /\ IF a.max THEN drive[w].sees => sees ELSE sees = drive[w].sees
  /\ drive' = [drive EXCEPT ![w].sees = sees]

\* No hidden area, or no answer.
HiddenClear(w) ==
  /\ At(w, "asked") /\ ~drive[w].barred /\ drive[w].bus = "ata"
  /\ \E a \in Answers(w), sees \in BOOLEAN :
       /\ ~(a.dco /\ "dco" \in left[w]) /\ ~(a.max /\ drive[w].max = "set")
       /\ KernelWhole(w, a, sees)
       /\ IF a.max /\ ~sees THEN Tell(w, "failed")
          ELSE Proceed(w, FALSE, IF a.max /\ a.dco THEN {} ELSE {"hpa", "dco"})
  /\ UNCHANGED left

-----------------------------------------------------------------------------
(* The drive's own erase commands *)

\* What a write through the block device reaches.
InReach(w) ==
  {"user"} \cup (IF drive[w].max = "lifted" /\ drive[w].sees THEN {"hpa"} ELSE {})

\* Reads and writes past the end of the drive fail.
Reads(w) == ~(drive[w].max = "set" /\ drive[w].sees)

\* A command the drive says it carried out.
Erases(w, regions) ==
  left' = IF drive[w].does = "pretends" THEN left ELSE [left EXCEPT ![w] = @ \ regions]

Trying(w, m) == At(w, "firmware") /\ Head(eng[w].todo) = m

\* No security feature set, frozen, no enhanced erase, or the command failed.
AtaFails(w) ==
  /\ Trying(w, "ata") \/ Trying(w, "ata-enhanced")
  /\ eng' = Then(w, <<>>)
  /\ UNCHANGED <<left, drive>>

\* The enhanced erase reaches retired sectors and is a Purge, the normal one is not.
AtaErase(w) ==
  /\ \E enhanced \in BOOLEAN :
       /\ Trying(w, "ata") \/ (enhanced /\ Trying(w, "ata-enhanced"))
       /\ Erases(w, InReach(w) \cup (IF enhanced THEN Bad ELSE {}))
       /\ eng' = [eng EXCEPT ![w].pc = "judge", ![w].todo = <<>>, ![w].kind = IF enhanced THEN "purge" ELSE "ata-normal"]
  /\ UNCHANGED drive

\* The controller does not support the sanitize, or turns it down.
SanitizeFails(w) ==
  /\ Trying(w, "crypto") \/ Trying(w, "block")
  /\ eng' = Then(w, Tail(eng[w].todo))
  /\ UNCHANGED <<left, drive>>

\* Mutant: what the log says before the command is not looked at.
Stale_Never(w, act) == FALSE

\* The log shows the success waited for before the command is issued.
Stale(w, act) == drive[w].log = [act |-> act, state |-> "done"]

\* The controller takes the command, and starts it at once, later or never.  A
\* log that could not be read before counts as stale.
Sanitize(w) ==
  /\ \E act \in {"crypto", "block"}, read \in BOOLEAN :
       /\ Trying(w, act) /\ drive[w].op = "none"
       /\ eng' = [eng EXCEPT ![w].pc = "sanitizing", ![w].fresh = ~read \/ Stale(w, act)]
       /\ drive' = IF drive[w].does = "skips" THEN drive ELSE [drive EXCEPT ![w].op = act]
  /\ UNCHANGED left

\* What the log says: the operation itself, and then its end.
SanitizeRuns(w) ==
  /\ eng[w] # Off /\ drive[w].op # "none"
  /\ drive' = [drive EXCEPT ![w].log = [act |-> drive[w].op, state |-> "running"]]
  /\ UNCHANGED <<left, eng>>

SanitizeEnds(w) ==
  /\ eng[w] # Off /\ drive[w].op # "none"
  /\ \E end \in {"done", "failed"} :
       /\ drive' = [drive EXCEPT ![w].op = "none", ![w].log = [act |-> drive[w].op, state |-> end]]
       /\ IF end = "done" THEN Erases(w, Regions) ELSE UNCHANGED left
  /\ UNCHANGED eng

\* A poll of the log; one that cannot be read says nothing.
Poll(w) ==
  /\ At(w, "sanitizing")
  /\ LET log == drive[w].log
         act == Head(eng[w].todo)
     IN  \/ /\ log.state = "running"
            /\ eng' = [eng EXCEPT ![w].fresh = FALSE]
         \/ /\ log.state = "done" /\ log.act = act /\ ~eng[w].fresh
            /\ eng' = [eng EXCEPT ![w].pc = "judge", ![w].kind = "purge", ![w].todo = <<>>]
         \/ /\ log.state = "failed"
            /\ eng' = Then(w, Tail(eng[w].todo))
  /\ UNCHANGED <<left, drive>>

\* Mutant: only an answer ends the wait.
GiveUp_Never(w) == FALSE /\ UNCHANGED engineVars

\* The grace for the new operation to show, or the whole time allowed, is over.
GiveUp(w) ==
  /\ At(w, "sanitizing")
  /\ ~(drive[w].log = [act |-> Head(eng[w].todo), state |-> "done"] /\ ~eng[w].fresh)
  /\ eng' = Then(w, Tail(eng[w].todo))
  /\ UNCHANGED <<left, drive>>

\* A format is used only when it is known to cover every namespace.
Format(w) ==
  /\ Trying(w, "format")
  /\ \E listed \in BOOLEAN :
       IF drive[w].formatsAll \/ (listed /\ ~drive[w].siblings)
       THEN \/ eng' = Then(w, <<>>) /\ UNCHANGED left
            \/ /\ Erases(w, Regions)
               /\ eng' = [eng EXCEPT ![w].pc = "judge", ![w].kind = "purge", ![w].todo = <<>>]
       ELSE /\ eng' = [Then(w, <<>>) EXCEPT ![w].said = @ \cup {"siblings"}]
            /\ UNCHANGED left
  /\ UNCHANGED drive

-----------------------------------------------------------------------------
(* The read-back, the overwrite and the verdict *)

\* What a read-back may conclude: a drive that cannot be read, or not in time,
\* shows nothing.
Verdicts(w) ==
  {"unverified"} \cup
  IF ~Reads(w) THEN {} ELSE {IF left[w] \cap InReach(w) = {} THEN "clean" ELSE "found"}

\* Mutant: a controller that says done is believed.
Judge_Believes(w) ==
  /\ At(w, "judge")
  /\ Go(w, "closing")
  /\ UNCHANGED <<left, drive>>

\* Old data found: down to the overwrite; a drive that will not read: failed.
Judge(w) ==
  /\ At(w, "judge")
  /\ \E v \in Verdicts(w) :
       CASE v = "unverified" -> Tell(w, "failed")
         [] v = "clean" -> Go(w, "closing")
         [] v = "found" -> eng' = [Then(w, <<>>) EXCEPT ![w].kind = "none"]
  /\ UNCHANGED <<left, drive>>

\* shred, to the end of what the kernel sees; a sector may go out of service.
Overwrite(w) ==
  /\ At(w, "overwrite") /\ Reads(w)
  /\ \E worn \in IF drive[w].bus = "ata" /\ "user" \in left[w] THEN {{}, {"late"}} ELSE {{}} :
       left' = [left EXCEPT ![w] = (@ \ InReach(w)) \cup worn]
  /\ eng' = [eng EXCEPT ![w].pc = "readback", ![w].kind = "overwrite"]
  /\ UNCHANGED drive

OverwriteFails(w) ==
  /\ At(w, "overwrite")
  /\ Tell(w, "failed")
  /\ UNCHANGED <<left, drive>>

ReadBack(w) ==
  /\ At(w, "readback")
  /\ \E v \in Verdicts(w) : IF v = "clean" THEN Go(w, "closing") ELSE Tell(w, "failed")
  /\ UNCHANGED <<left, drive>>

\* A hidden area removed for this boot is still removed.
StillWhole(w) == eng[w].lifted => drive[w].max = "lifted"

\* The larger of the counts before and after; a count is missing when neither was read.
Worst(c, d) ==
  IF "some" \in {c, d} THEN "some" ELSE IF "zero" \in {c, d} THEN "zero" ELSE "unread"

\* What a wipe that worked must say it did not reach.
Assess(w, after) ==
  (IF eng[w].kind = "overwrite" /\ drive[w].flash THEN Bad ELSE {}) \cup
  (IF eng[w].kind # "purge" /\ drive[w].bus = "ata" /\ Worst(eng[w].counts, after) # "zero"
   THEN Bad ELSE {})

\* An answer that cannot be read says that it came back.
Close(w) ==
  /\ At(w, "closing")
  /\ \/ eng[w].lifted /\ Tell(w, "failed")
     \/ /\ StillWhole(w)
        /\ \E after \in Counts(w) :
             eng' = [eng EXCEPT ![w].pc = "told", ![w].status = "wiped",
                                ![w].said = @ \cup Assess(w, after)]
  /\ UNCHANGED <<left, drive>>

-----------------------------------------------------------------------------
(* What happens to a drive and an engine *)

\* A reset of the bus brings a hidden area back, at once or later for the kernel.
BusReset(w) ==
  /\ eng[w] # Off /\ drive[w].max = "lifted"
  /\ \E sees \in {FALSE, drive[w].sees} :
       drive' = [drive EXCEPT ![w].max = "set", ![w].sees = sees]
  /\ UNCHANGED <<left, eng>>

\* Killed, or cancelled on the screen: it prints no verdict, and that is a failure.
Dies(w) ==
  /\ eng[w] # Off /\ ~At(w, "told")
  /\ Tell(w, "failed")
  /\ UNCHANGED <<left, drive>>

\* Its line is read, or nobody is there to read it.
Leave(w) ==
  /\ eng' = [eng EXCEPT ![w] = Off]
  /\ drive' = [drive EXCEPT ![w] = NoDrive]
  /\ UNCHANGED left

EngineInit ==
  /\ left = [w \in Wipes |-> {}]
  /\ drive = [w \in Wipes |-> NoDrive]
  /\ eng = [w \in Wipes |-> Off]

\* The engine's own steps.
Works(w) ==
  \/ Refuse(w) \/ NvmeFirst(w) \/ HiddenPresent(w) \/ HiddenClear(w)
  \/ AtaFails(w) \/ AtaErase(w)
  \/ SanitizeFails(w) \/ Sanitize(w) \/ Poll(w) \/ GiveUp(w) \/ Format(w)
  \/ Judge(w) \/ Overwrite(w) \/ OverwriteFails(w) \/ ReadBack(w) \/ Close(w)

Befalls(w) == SanitizeRuns(w) \/ SanitizeEnds(w) \/ BusReset(w) \/ Dies(w)

-----------------------------------------------------------------------------
(* Properties *)

\* An HPA that an earlier wipe of this boot lifted, and a reset brought back.
CameBack(w) == IF drive[w].earlier /\ drive[w].max = "set" THEN {"hpa"} ELSE {}

Wiped(w) == At(w, "told") /\ eng[w].status = "wiped"

\* What a wipe that worked has left, and what it says of that.
WipedIsErased ==
  \A w \in Wipes : Wiped(w) =>
    /\ "user" \notin left[w]
    /\ left[w] \cap {"hpa", "dco"} \subseteq eng[w].said \cup CameBack(w)

\* Retired sectors are named always, the other namespaces after a Purge.
LeftoversNamed ==
  \A w \in Wipes : Wiped(w) /\ drive[w].does # "pretends" =>
    left[w] \subseteq eng[w].said \cup CameBack(w) \cup {"late"} \cup
                      (IF eng[w].kind = "purge" THEN {} ELSE {"siblings"})
=============================================================================
