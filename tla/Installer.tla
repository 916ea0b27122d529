----------------------------- MODULE Installer -----------------------------
(***************************************************************************)
(* Setup.ps1 for one game (ETS2, the one with a record of version 1.0):    *)
(* installation, its rollback, and removal, each a sequence of writes to   *)
(* files of which any may fail, leaving the file as it was or cut short,   *)
(* or be the last thing that happens before the process is killed.         *)
(* Between two runs of Setup the driver edits his files.                   *)
(*                                                                         *)
(* A file's content is told apart as far as Setup does: a profile is the   *)
(* driver's version of it with the stalk's buttons bound or unbound.       *)
(* Hashes are the contents themselves.  The backup of a run is a directory *)
(* of its own, named by the number of the run.                             *)
(***************************************************************************)
EXTENDS Naturals

CONSTANTS
  Profiles,       \* the driver's profiles, each a controls.sii
  None,           \* no such file, or no choice
  Cut,            \* what a write that did not end leaves, without bindings
  MaxInstalls,    \* installations, each with a backup directory
  MaxEdits,       \* edits of the driver
  MaxFaults       \* writes that fail or are the last of their process

ASSUME InstallerAssumption ==
  /\ None # Cut
  /\ {None, Cut} \cap ({"dll", "settings"} \cup Profiles) = {}
  /\ {"dll", "settings"} \cap Profiles = {}
  /\ MaxInstalls \in Nat /\ MaxEdits \in Nat /\ MaxFaults \in Nat

VARIABLES
  disk,      \* the game's and the driver's files, with what each contains
  records,   \* install-ets2.json and install.json
  backups,   \* backup directories
  pc,        \* the next write of the running Setup, or "idle"
  job,       \* its variables
  installs, edits, faults,
  \* History, which no step of the program depends on:
  own,       \* what each file contained when Setup had not written it
  loose      \* files whose own content Setup does not restore by itself

counters == <<installs, edits, faults>>
vars == <<disk, records, backups, pc, job, counters, own, loose>>

-----------------------------------------------------------------------------
(* Files and records *)

Files == {"dll", "settings"} \cup Profiles
Units == {"kmh", "mph"}

Plugin == "package"      \* the DLL of the package

Unbound(content) ==
  IF content \in {None, Cut} THEN content ELSE [content EXCEPT !.bound = FALSE]

\* Mutant of HasBindings: a profile in which nothing is bound is edited as well.
AlwaysBindings(content) == content # None

HasBindings(content) == content \notin {None, Cut} /\ content.bound

\* A record that cannot be parsed ends every run of Setup.
Readable == records["current"] # Cut /\ records["legacy"] # Cut

\* Read-Record, for ETS2.
Record ==
  IF records["current"] # None THEN records["current"] ELSE records["legacy"]

Installed == Record \notin {None, Cut} /\ Record.installed

NoProfiles == [p \in {} |-> None]

\* What an installation of version 1.0 left behind, and one of another program
\* or a player with a settings file of his own.
OldRecord(p) ==
  [installed |-> TRUE, plugin |-> "1.0", settings |-> None,
   profiles |-> [q \in {p} |-> [backup |-> 0,
                                modified |-> [version |-> 0, bound |-> FALSE]]]]

Bare == [f \in Files |->
           IF f \in Profiles THEN [version |-> 0, bound |-> TRUE] ELSE None]

NoJob == [action |-> "none"]

Init ==
  /\ own \in {Bare, [Bare EXCEPT !["dll"] = "other", !["settings"] = "custom"]}
  /\ \/ /\ disk = own
        /\ records = [r \in {"current", "legacy"} |-> None]
     \/ \E p \in Profiles :
          /\ disk = [own EXCEPT !["dll"] = "1.0", ![p] = Unbound(@)]
          /\ records = [current |-> None, legacy |-> OldRecord(p)]
  /\ backups = [n \in 0..MaxInstalls |->
                  [f \in Files |-> IF n = 0 THEN own[f] ELSE None]]
  /\ pc = "idle" /\ job = NoJob
  /\ installs = 0 /\ edits = 0 /\ faults = 0
  /\ loose = {}

-----------------------------------------------------------------------------
(* One write of Setup *)

Here == backups[job.run]

\* `if ($editedProfile)'.
Edited == job.profile # None /\ Here[job.profile] # None

\* Where an error leads: the inner catch of an installation undoes what it can;
\* before it, in it and in a removal the error ends Setup.
Handler ==
  IF job.action # "Install" THEN "idle"
  ELSE CASE pc \in {"put plugin", "put settings", "back up profile"} ->
              "undo plugin"
         [] pc \in {"edit profile", "save", "retire"} ->
              IF Edited THEN "undo profile" ELSE "undo plugin"
         [] OTHER -> "idle"

\* Installation ends with a file changed that neither was put back nor is
\* recorded.
Abandoned ==
  IF job.action # "Install" THEN {}
  ELSE IF pc \in {"put settings", "back up profile"} THEN {"settings"}
  ELSE IF pc \in {"edit profile", "save", "undo profile"}
  THEN {"settings"} \cup (IF Edited THEN {job.profile} ELSE {})
  ELSE IF pc \in {"undo plugin", "undo settings"} THEN {"settings"} ELSE {}

GoesOn(then) ==
  /\ pc' = then
  /\ job' = IF then = "idle" THEN NoJob ELSE job
  /\ UNCHANGED <<installs, edits, faults, own, loose>>

\* The write fails, or is the last thing the process does.
Breaks ==
  /\ faults < MaxFaults /\ faults' = faults + 1
  /\ pc' \in {Handler, "idle"}
  /\ job' = IF pc' = "idle" THEN NoJob ELSE job
  /\ loose' = IF pc' = "idle"
              THEN loose \cup Abandoned \cup {f \in Files : disk'[f] = Cut}
              ELSE IF pc = "retire" THEN loose \cup {"settings"} ELSE loose
  /\ UNCHANGED <<installs, edits, own>>

\* What a write may leave that did not end.
Left(before, content) ==
  IF content \in {None, before} THEN {before} ELSE {before, Cut}

Puts(file, content, then) ==
  /\ \/ disk' = [disk EXCEPT ![file] = content] /\ GoesOn(then)
     \/ /\ \E left \in Left(disk[file], content) :
             disk' = [disk EXCEPT ![file] = left]
        /\ Breaks
  /\ UNCHANGED <<records, backups>>

BacksUp(file, then) ==
  /\ UNCHANGED <<disk, records>>
  /\ \/ /\ backups' = [backups EXCEPT ![job.run][file] = disk[file]]
        /\ GoesOn(then)
     \/ /\ \E left \in Left(None, disk[file]) :
             backups' = [backups EXCEPT ![job.run][file] = left]
        /\ Breaks

Writes(name, value, then) ==
  /\ UNCHANGED <<disk, backups>>
  /\ \/ records' = [records EXCEPT ![name] = value] /\ GoesOn(then)
     \/ /\ \E left \in Left(records[name], value) :
             records' = [records EXCEPT ![name] = left]
        /\ Breaks

-----------------------------------------------------------------------------
(* Installation *)

\* The settings that a reinstallation overwrites are the driver's, but the
\* record keeps naming the backup of the first installation.
Overwritten ==
  IF /\ Installed /\ Record.settings # None
     /\ disk["settings"] = own["settings"]
     /\ backups[Record.settings.backup]["settings"] # own["settings"]
  THEN {"settings"} ELSE {}

\* A new backup directory; which profile and which unit is the player's choice.
StartInstall ==
  /\ pc = "idle" /\ Readable /\ installs < MaxInstalls
  /\ \E profile \in Profiles \cup {None}, unit \in Units :
       job' = [action |-> "Install", run |-> installs + 1, profile |-> profile,
               unit |-> unit, before |-> disk]
  /\ installs' = installs + 1 /\ pc' = "back up settings"
  /\ loose' = loose \cup Overwritten
  /\ UNCHANGED <<disk, records, backups, edits, faults, own>>

BackUpSettings ==
  pc = "back up settings" /\ BacksUp("settings", "back up plugin")

BackUpPlugin == pc = "back up plugin" /\ BacksUp("dll", "put plugin")

PutPlugin == pc = "put plugin" /\ Puts("dll", Plugin, "put settings")

PutSettings ==
  /\ pc = "put settings"
  /\ Puts("settings", job.unit,
          IF job.profile # None /\ HasBindings(disk[job.profile])
          THEN "back up profile" ELSE "save")

\* Mutant of BackUpProfile: the profile is edited before it is backed up.
EditUnsaved ==
  /\ pc = "back up profile"
  /\ Puts(job.profile, Unbound(disk[job.profile]), "edit profile")

BackUpProfile ==
  pc = "back up profile" /\ BacksUp(job.profile, "edit profile")

EditProfile ==
  /\ pc = "edit profile"
  /\ Puts(job.profile, Unbound(disk[job.profile]), "save")

\* Mutant of KeptProfiles: a reinstallation forgets what earlier ones edited.
KeptNoProfiles == NoProfiles

\* Earlier restoration records are preserved when the game is installed again.
KeptProfiles == IF Installed THEN Record.profiles ELSE NoProfiles

SavedProfiles ==
  [p \in DOMAIN KeptProfiles \cup (IF Edited THEN {job.profile} ELSE {}) |->
     IF Edited /\ p = job.profile
     THEN [backup |-> job.run, modified |-> disk[p]] ELSE KeptProfiles[p]]

SavedSettings ==
  [backup |-> IF Installed /\ Record.settings # None
              THEN Record.settings.backup ELSE job.run,
   installed |-> disk["settings"]]

NewRecord ==
  IF job.action = "Uninstall" THEN [Record EXCEPT !.installed = FALSE]
  ELSE [installed |-> TRUE, plugin |-> disk["dll"], settings |-> SavedSettings,
        profiles |-> SavedProfiles]

\* Save-Record: the record, then the end of the record of version 1.0.
SaveRecord ==
  /\ pc = "save"
  /\ Writes("current", NewRecord,
            IF records["legacy"] = None THEN "idle" ELSE "retire")

RetireLegacy ==
  /\ pc = "retire"
  /\ Writes("legacy", [records["legacy"] EXCEPT !.installed = FALSE], "idle")

-----------------------------------------------------------------------------
(* The rollback of an installation *)

UndoProfile ==
  pc = "undo profile" /\ Puts(job.profile, Here[job.profile], "undo plugin")

UndoPlugin == pc = "undo plugin" /\ Puts("dll", Here["dll"], "undo settings")

\* Mutant of UndoSettings: settings that were not there before stay.
UndoOldSettings ==
  /\ pc = "undo settings"
  /\ Puts("settings",
          IF Here["settings"] = None THEN disk["settings"]
          ELSE Here["settings"],
          "idle")

UndoSettings ==
  pc = "undo settings" /\ Puts("settings", Here["settings"], "idle")

-----------------------------------------------------------------------------
(* Removal *)

StartUninstall ==
  /\ pc = "idle" /\ Readable /\ Installed
  /\ disk["dll"] \in {None, Record.plugin}
  /\ job' = [action |-> "Uninstall", run |-> 0, profile |-> None,
             left |-> DOMAIN Record.profiles]
  /\ pc' = "remove plugin"
  /\ UNCHANGED <<disk, records, backups, counters, own, loose>>

RemovePlugin ==
  pc = "remove plugin" /\ Puts("dll", None, "restore settings")

RestoreSettings ==
  /\ pc = "restore settings"
  /\ Puts("settings",
          IF Record.settings # None
             /\ disk["settings"] = Record.settings.installed
          THEN backups[Record.settings.backup]["settings"]
          ELSE disk["settings"],
          "restore profiles")

\* A profile the driver has edited since is left alone.
Restored(p) ==
  LET entry == Record.profiles[p] IN
  IF disk[p] = entry.modified THEN backups[entry.backup][p] ELSE disk[p]

RestoreProfiles ==
  /\ pc = "restore profiles"
  /\ \/ \E p \in job.left :
          /\ \/ /\ disk' = [disk EXCEPT ![p] = Restored(p)]
                /\ job' = [job EXCEPT !.left = @ \ {p}]
                /\ UNCHANGED <<pc, counters, own, loose>>
             \/ /\ \E left \in Left(disk[p], Restored(p)) :
                     disk' = [disk EXCEPT ![p] = left]
                /\ Breaks
          /\ UNCHANGED <<records, backups>>
     \/ /\ job.left = {} /\ GoesOn("save")
        /\ UNCHANGED <<disk, records, backups>>

-----------------------------------------------------------------------------
(* The driver, between two runs of Setup *)

\* To write what Setup wrote is to give the file back to it: it goes by hashes.
OwnAfter(file, content) ==
  IF /\ file = "settings" /\ Installed /\ Record.settings # None
     /\ content = Record.settings.installed
  THEN backups[Record.settings.backup][file] ELSE content

DriverEdits(file, content) ==
  /\ pc = "idle" /\ edits < MaxEdits /\ edits' = edits + 1
  /\ content # disk[file]
  /\ disk' = [disk EXCEPT ![file] = content]
  /\ own' = [own EXCEPT ![file] = OwnAfter(file, content)]
  /\ loose' = IF file = "settings" /\ Installed THEN loose ELSE loose \ {file}
  /\ UNCHANGED <<records, backups, pc, job, installs, faults>>

DriverEditsProfile ==
  \E p \in Profiles, bound \in BOOLEAN :
    DriverEdits(p, [version |-> edits + 1, bound |-> bound])

DriverEditsSettings ==
  \E content \in Units \cup {"custom", None} : DriverEdits("settings", content)

DriverReplacesPlugin ==
  \E content \in {"other", None} : DriverEdits("dll", content)

\* Setup finds a game running, cannot read a record, or has nothing to remove.
SetupRefuses == pc = "idle" /\ UNCHANGED vars

Install ==
  \/ StartInstall \/ BackUpSettings \/ BackUpPlugin \/ PutPlugin \/ PutSettings
  \/ BackUpProfile \/ EditProfile \/ SaveRecord \/ RetireLegacy

Rollback == UndoProfile \/ UndoPlugin \/ UndoSettings

Uninstall ==
  StartUninstall \/ RemovePlugin \/ RestoreSettings \/ RestoreProfiles

Next ==
  \/ Install \/ Rollback \/ Uninstall
  \/ DriverEditsProfile \/ DriverEditsSettings \/ DriverReplacesPlugin
  \/ SetupRefuses

Spec == Init /\ [][Next]_vars

-----------------------------------------------------------------------------
(* Properties *)

Versions == [version : 0..MaxEdits, bound : BOOLEAN]

\* What a file may contain that is there and whole.
Contents ==
  [dll |-> {"1.0", "other", Plugin}, settings |-> Units \cup {"custom"}]

Whole(f) == IF f \in Profiles THEN Versions ELSE Contents[f]

FilesType(filled) ==
  /\ filled = [f \in Files |-> filled[f]]
  /\ \A f \in Files : filled[f] \in {None, Cut} \cup Whole(f)

\* The profiles a record tells of are ones that Setup has edited to the end.
Entry ==
  [backup : 0..MaxInstalls, modified : [version : 0..MaxEdits, bound : {FALSE}]]

RecordType ==
  [installed : BOOLEAN, plugin : {"1.0", Plugin},
   settings : {None} \cup [backup : 0..MaxInstalls, installed : Units],
   profiles : UNION {[P -> Entry] : P \in SUBSET Profiles}]

ASSUME ContentsAssumption ==
  \A nothing \in {None, Cut} :
    /\ nothing \notin Versions /\ nothing \notin RecordType
    /\ nothing \notin [backup : 0..MaxInstalls, installed : Units]
    /\ nothing \notin Units \cup {"custom", "other", "1.0", Plugin}

InstallSteps ==
  {"back up settings", "back up plugin", "put plugin", "put settings",
   "back up profile", "edit profile", "save", "retire",
   "undo profile", "undo plugin", "undo settings"}

UninstallSteps ==
  {"remove plugin", "restore settings", "restore profiles", "save", "retire"}

StoredTypeOK ==
  /\ FilesType(disk) /\ FilesType(own)
  /\ records \in [{"current", "legacy"} -> {None, Cut} \cup RecordType]
  /\ backups = [n \in 0..MaxInstalls |-> backups[n]]
  /\ \A n \in 0..MaxInstalls : FilesType(backups[n])
  /\ installs \in 0..MaxInstalls /\ edits \in 0..MaxEdits
  /\ faults \in 0..MaxFaults /\ loose \subseteq Files

RunTypeOK ==
  \/ pc = "idle" /\ job = NoJob
  \/ /\ pc \in InstallSteps /\ job.action = "Install"
     /\ job.run = installs /\ job.run # 0 /\ job.unit \in Units
     /\ job.profile \in Profiles \cup {None} /\ FilesType(job.before)
     /\ pc \in {"back up profile", "edit profile", "undo profile"} =>
          job.profile # None /\ HasBindings(job.before[job.profile])
  \/ /\ pc \in UninstallSteps
     /\ job \in [action : {"Uninstall"}, run : {0}, profile : {None},
                 left : SUBSET Profiles]
     /\ pc # "retire" => Installed

\* Every variable keeps its type, and what the step of a run needs is there: an
\* installation edits and undoes only a profile that was chosen.
TypeOK == StoredTypeOK /\ RunTypeOK

\* Whatever fails, whenever Setup is killed and however often it is run again,
\* the last content of each file that was not Setup's is in its place or in a
\* backup.  README.md:30: "saves backups before changing existing files".
NothingLost ==
  \A f \in Files :
    own[f] \in {None, disk[f]} \cup {backups[n][f] : n \in DOMAIN backups}

\* An installation that fails and can undo its work leaves every file as it was
\* before, including those that did not exist and those of an earlier
\* installation.  test-installer.py: "Failure after replacement restores both
\* the previous DLL and settings."
RollsBack ==
  [][ pc = "undo settings" /\ pc' = "idle" /\ faults' = faults
      => \A f \in Files : disk'[f] = job.before[f] ]_vars

\* Once nothing is installed, after any sequence of installations, removals,
\* failures and retries, the driver has his own profiles and settings again.
\* The exceptions are in `loose': an installation that was killed, or whose
\* rollback failed, before its edits were recorded; a file cut short by a write
\* that did not end; settings edited between two installations, or rolled back
\* when their record had been written.
RestoresOwn ==
  pc = "idle" /\ Readable /\ ~Installed =>
    \A f \in (Profiles \cup {"settings"}) \ loose : disk[f] = own[f]

-----------------------------------------------------------------------------
(* The inductive invariant behind NothingLost *)

\* The driver's content of a file is in a backup, or is that there is no file.
Secured(f) == own[f] = None \/ \E n \in 0..MaxInstalls : backups[n][f] = own[f]

\* It is where it may be overwritten only if it is in a backup as well.
AllSafe == \A f \in Files : disk[f] = own[f] \/ Secured(f)

\* The DLL is not the driver's own once Setup has put one there; a profile is
\* his latest, with or without its bindings.
OwnContents ==
  /\ own["dll"] \in {None, "other"}
  /\ \A p \in Profiles :
       /\ own[p] \in Versions /\ own[p].version <= edits
       /\ disk[p] \in {Cut, own[p], Unbound(own[p])}

\* Backups are written to a directory that was empty.
Unused == \A n \in 0..MaxInstalls, f \in Files :
            n > installs => backups[n][f] = None

\* A record's profile is one Setup unbound.  If it is of the driver's latest
\* version, the backup has the version with its bindings.
EntriesSound(record) ==
  \A p \in DOMAIN record.profiles :
    LET entry == record.profiles[p] IN
    /\ entry.modified.version <= edits
    /\ entry.modified = Unbound(own[p]) =>
         HasBindings(own[p]) /\ backups[entry.backup][p] = own[p]

\* A removal would put back the settings although they may be the driver's.
ToRestore(record) ==
  /\ record.installed /\ record.settings # None
  /\ own["settings"] = record.settings.installed

RecordsSound ==
  /\ \A r \in {"current", "legacy"} :
       records[r] \notin {None, Cut} => EntriesSound(records[r])
  /\ records["legacy"] \notin {None, Cut} => records["legacy"].settings = None
  /\ records["current"] \notin {None, Cut} /\ ToRestore(records["current"])
       => Secured("settings")

\* The profile of the running installation is, or may be, edited.
AtProfile ==
  \/ pc \in {"edit profile", "undo profile"}
  \/ pc \in {"save", "retire"} /\ Edited

\* What an installation has backed up and written when it comes to a step.
Installing ==
  job.action = "Install" =>
    /\ pc \in {"back up settings", "back up plugin", "put plugin",
               "put settings", "back up profile"} =>
         \A p \in Profiles : Here[p] = None /\ disk[p] = job.before[p]
    /\ pc = "back up settings" => Here["settings"] = None
    /\ pc \in {"back up settings", "back up plugin"} => Here["dll"] = None
    /\ pc # "back up settings" => Secured("settings")
    /\ pc \notin {"back up settings", "back up plugin"} => Secured("dll")
    /\ pc \in {"put settings", "back up profile", "edit profile", "save"} =>
         disk["dll"] = Plugin
    /\ pc \in {"back up profile", "edit profile", "save"} =>
         disk["settings"] = job.unit
    /\ AtProfile =>
         /\ job.profile # None /\ HasBindings(job.before[job.profile])
         /\ HasBindings(own[job.profile])
         /\ Here[job.profile] = own[job.profile]
    /\ pc = "edit profile" => disk[job.profile] = own[job.profile]
    /\ pc = "save" /\ Edited =>
         disk[job.profile] = Unbound(own[job.profile])

\* What a removal finds.
Uninstalling ==
  job.action = "Uninstall" =>
    /\ pc = "remove plugin" => disk["dll"] \in {None, "1.0", Plugin}
    /\ pc \in {"remove plugin", "restore settings", "restore profiles"} =>
         job.left \subseteq DOMAIN Record.profiles

\* The records can be read until a write of one of them fails.
RecordsReadable ==
  /\ pc \notin {"idle", "undo profile", "undo plugin", "undo settings"} =>
       Readable
  /\ pc = "retire" => records["legacy"] # None

Stored == StoredTypeOK /\ AllSafe /\ OwnContents /\ Unused /\ RecordsSound

Running == RunTypeOK /\ Installing /\ Uninstalling /\ RecordsReadable

IInv == Stored /\ Running

-----------------------------------------------------------------------------
(* The inductive invariant behind RollsBack, together with IInv *)

\* An installation has, at each of its writes, what it needs to undo those
\* before: no profile but its own is changed, and what it changes or has changed
\* is in the run's backup as it was at the start.
Undoable ==
  job.action = "Install" =>
    /\ \A p \in Profiles :
         disk[p] = job.before[p] \/ (AtProfile /\ p = job.profile)
    /\ AtProfile => Here[job.profile] = job.before[job.profile]
    /\ pc = "back up settings" => disk["settings"] = job.before["settings"]
    /\ pc # "back up settings" => Here["settings"] = job.before["settings"]
    /\ pc \in {"back up settings", "back up plugin", "undo settings"} =>
         disk["dll"] = job.before["dll"]
    /\ pc \notin {"back up settings", "back up plugin"} =>
         Here["dll"] = job.before["dll"]

-----------------------------------------------------------------------------
(* The inductive invariant behind RestoresOwn, together with the two above *)

\* A profile is the driver's own, or what a removal will know as edited.
Covered(p) ==
  \/ disk[p] = own[p]
  \/ /\ Installed /\ p \in DOMAIN Record.profiles
     /\ disk[p] = Record.profiles[p].modified

\* An installation has no record of its work yet.
Unrecorded == job.action = "Install" /\ pc # "retire"

ProfilesCovered ==
  \A p \in Profiles \ loose :
    Covered(p) \/ (Unrecorded /\ AtProfile /\ p = job.profile)

RecordsSettings == Installed /\ Record.settings # None

SettingsSaved ==
  backups[Record.settings.backup]["settings"] = own["settings"]

\* The settings, or those to which an installation without a record goes back.
Standing == IF Unrecorded THEN job.before["settings"] ELSE disk["settings"]

\* They are the driver's own, or those of the record whose backup has his.  An
\* installation keeps the record's backup, also if they are his own.
SettingsCovered ==
  "settings" \notin loose =>
    /\ IF RecordsSettings /\ Standing = Record.settings.installed
       THEN SettingsSaved ELSE Standing = own["settings"]
    /\ Unrecorded /\ RecordsSettings => SettingsSaved

\* What a removal has restored when it comes to a step.
Removed ==
  job.action = "Uninstall" =>
    /\ pc \in {"remove plugin", "restore settings", "restore profiles"} =>
         \A p \in Profiles \ (loose \cup job.left) : disk[p] = own[p]
    /\ pc \in {"save", "retire"} =>
         \A p \in Profiles \ loose : disk[p] = own[p]
    /\ pc \in {"restore profiles", "save", "retire"} /\ "settings" \notin loose
         => disk["settings"] = own["settings"]

\* A new backup is not the one the record names for the settings.
BackupKept ==
  LET record == records["current"] IN
  record \notin {None, Cut} /\ record.settings # None =>
    /\ record.settings.backup <= installs
    /\ pc = "back up settings" => record.settings.backup < installs

InstallOrder ==
  /\ job.action = "Install"
     /\ pc \in {"back up settings", "back up plugin", "put plugin"} =>
       disk["settings"] = job.before["settings"]
  /\ pc = "retire" => records["current"] # None

Restorable ==
  /\ BackupKept /\ InstallOrder
  /\ Readable => ProfilesCovered /\ SettingsCovered /\ Removed
=============================================================================
