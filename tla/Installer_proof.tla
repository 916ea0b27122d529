--------------------------- MODULE Installer_proof ---------------------------
(***************************************************************************)
(* Proofs about Setup: its types, that no sequence of installations,       *)
(* removals, failures and edits of the driver loses a file's content, that *)
(* a rollback which ends is complete, and that a removal gives the driver  *)
(* his files back, for any number of each and any set of profiles.         *)
(***************************************************************************)
EXTENDS Installer, TLAPS

-----------------------------------------------------------------------------
(* Contents of files *)

LEMMA WholeIs ==
  /\ "dll" \in Files /\ "settings" \in Files /\ Profiles \subseteq Files
  /\ Whole("dll") = {"1.0", "other", Plugin}
  /\ Whole("settings") = Units \cup {"custom"}
  /\ \A p \in Profiles : Whole(p) = Versions
  /\ \A p \in Profiles : p # "dll" /\ p # "settings"
BY InstallerAssumption DEF Files, Whole, Contents

\* What unbinding does to a version of a profile.
LEMMA UnboundIs ==
  ASSUME NEW v \in Versions
  PROVE  /\ v # None /\ v # Cut
         /\ Unbound(v) \in Versions /\ Unbound(v).bound = FALSE
         /\ Unbound(v).version = v.version
         /\ HasBindings(v) <=> v.bound
         /\ HasBindings(v) => v # Unbound(v)
         /\ ~HasBindings(v) => v = Unbound(v)
         /\ Unbound(v) \in [version : 0..MaxEdits, bound : {FALSE}]
         /\ ~HasBindings(Unbound(v))
<1>1. v # None /\ v # Cut
  BY ContentsAssumption
<1>2. Unbound(v) = [v EXCEPT !.bound = FALSE]
  BY <1>1 DEF Unbound
<1>3. /\ Unbound(v) \in Versions /\ Unbound(v).bound = FALSE
      /\ Unbound(v).version = v.version
      /\ Unbound(v) \in [version : 0..MaxEdits, bound : {FALSE}]
  BY <1>2 DEF Versions
<1>4. HasBindings(v) <=> v.bound
  BY <1>1 DEF HasBindings
<1>5. ~v.bound => v = Unbound(v)
  BY <1>2 DEF Versions
<1> QED BY <1>1, <1>3, <1>4, <1>5 DEF HasBindings

\* One file changes, the rest stay.
LEMMA OneChanged ==
  ASSUME NEW filled, FilesType(filled), NEW f \in Files,
         NEW content \in {None, Cut} \cup Whole(f)
  PROVE  /\ FilesType([filled EXCEPT ![f] = content])
         /\ [filled EXCEPT ![f] = content][f] = content
         /\ \A g \in Files \ {f} : [filled EXCEPT ![f] = content][g] = filled[g]
<1> DEFINE changed == [filled EXCEPT ![f] = content]
<1>1. changed = [g \in Files |-> IF g = f THEN content ELSE filled[g]]
  BY DEF FilesType
<1>2. \A g \in Files : changed[g] = IF g = f THEN content ELSE filled[g]
  BY <1>1
<1>3. changed = [g \in Files |-> changed[g]]
  BY <1>1
<1> HIDE DEF changed
<1>4. FilesType(changed)
  BY <1>2, <1>3 DEF FilesType
<1> QED BY <1>2, <1>4 DEF changed

\* The fields of a record.
LEMMA RecordIs ==
  ASSUME NEW r \in RecordType
  PROVE  /\ r # None /\ r # Cut
         /\ r.installed \in BOOLEAN /\ r.plugin \in {"1.0", Plugin}
         /\ r.settings # None =>
              /\ r.settings \in [backup : 0..MaxInstalls, installed : Units]
              /\ r.settings.backup \in 0..MaxInstalls
              /\ r.settings.installed \in Units
         /\ DOMAIN r.profiles \subseteq Profiles
         /\ r.profiles \in [DOMAIN r.profiles -> Entry]
         /\ \A p \in DOMAIN r.profiles :
              /\ r.profiles[p] \in Entry
              /\ r.profiles[p].backup \in 0..MaxInstalls
              /\ r.profiles[p].modified
                   \in [version : 0..MaxEdits, bound : {FALSE}]
<1>1. /\ r.installed \in BOOLEAN /\ r.plugin \in {"1.0", Plugin}
      /\ r.settings \in {None} \cup [backup : 0..MaxInstalls, installed : Units]
      /\ r.profiles \in UNION {[P -> Entry] : P \in SUBSET Profiles}
  BY DEF RecordType
<1>2. PICK P \in SUBSET Profiles : r.profiles \in [P -> Entry]
  BY <1>1
<1>3. r # None /\ r # Cut
  BY ContentsAssumption
<1> QED BY <1>1, <1>2, <1>3 DEF Entry

LEMMA TypedContent ==
  ASSUME NEW filled, FilesType(filled), NEW f \in Files
  PROVE  filled[f] \in {None, Cut} \cup Whole(f)
BY DEF FilesType

\* What the driver has stays secured while neither it nor a backup changes.
LEMMA SecuredStays ==
  ASSUME UNCHANGED <<own, backups>>
  PROVE  \A f : Secured(f) <=> Secured(f)'
BY DEF Secured

-----------------------------------------------------------------------------
(* What a write does, whether it ends or not *)

\* Setup goes on, turns to its handler, or is gone.
Went(then) ==
  /\ pc' \in {then, Handler, "idle"}
  /\ job' = IF pc' = "idle" THEN NoJob ELSE job
  /\ UNCHANGED <<installs, edits, own>>
  /\ faults' \in 0..MaxFaults /\ loose' \subseteq Files

Ended == pc' \notin {Handler, "idle"}

LEMMA GoesOnWent ==
  ASSUME StoredTypeOK, NEW then, GoesOn(then)
  PROVE  Went(then)
BY DEF GoesOn, Went, StoredTypeOK

\* What is known of the run from the step it is at.
LEMMA JobIs ==
  ASSUME RunTypeOK
  PROVE  /\ job.action = "Install" =>
              /\ pc \in InstallSteps /\ job.run = installs /\ job.run # 0
              /\ job.unit \in Units /\ job.profile \in Profiles \cup {None}
              /\ FilesType(job.before)
         /\ job.action = "Uninstall" =>
              /\ pc \in UninstallSteps
              /\ job \in [action : {"Uninstall"}, run : {0}, profile : {None},
                          left : SUBSET Profiles]
         /\ pc = "idle" <=> job = NoJob
         /\ pc \in InstallSteps \ {"save", "retire"} => job.action = "Install"
         /\ pc \in UninstallSteps \ {"save", "retire"} =>
              job.action = "Uninstall"
         /\ pc # "idle" => job.action \in {"Install", "Uninstall"}
<1>0. NoJob.action = "none"
  BY DEF NoJob
<1>1. CASE pc = "idle" /\ job = NoJob
  BY <1>0, <1>1 DEF InstallSteps, UninstallSteps
<1>2. CASE /\ pc \in InstallSteps /\ job.action = "Install"
           /\ job.run = installs /\ job.run # 0
           /\ job.unit \in Units /\ job.profile \in Profiles \cup {None}
           /\ FilesType(job.before)
  BY <1>0, <1>2 DEF InstallSteps, UninstallSteps
<1>3. CASE /\ pc \in UninstallSteps
           /\ job \in [action : {"Uninstall"}, run : {0}, profile : {None},
                       left : SUBSET Profiles]
  <2>1. job.action = "Uninstall"
    BY <1>3
  <2> QED BY <1>0, <1>3, <2>1 DEF InstallSteps, UninstallSteps
<1> QED BY <1>1, <1>2, <1>3 DEF RunTypeOK

LEMMA AbandonedIsFiles ==
  ASSUME RunTypeOK
  PROVE  Abandoned \subseteq Files
<1>1. "settings" \in Files /\ Profiles \subseteq Files
  BY WholeIs
<1>2. job.action = "Install" /\ Edited => job.profile \in Profiles
  BY JobIs DEF Edited
<1> QED BY <1>1, <1>2 DEF Abandoned

LEMMA BreaksWent ==
  ASSUME StoredTypeOK, RunTypeOK, NEW then, Breaks
  PROVE  Went(then) /\ pc' \in {Handler, "idle"}
<1>1. pc' \in {Handler, "idle"} /\ job' = IF pc' = "idle" THEN NoJob ELSE job
  BY DEF Breaks
<1>2. UNCHANGED <<installs, edits, own>>
  BY DEF Breaks
<1>3. faults' \in 0..MaxFaults
  BY InstallerAssumption DEF Breaks, StoredTypeOK
<1>4. loose' \subseteq Files
  BY AbandonedIsFiles, WholeIs DEF Breaks, StoredTypeOK
<1> QED BY <1>1, <1>2, <1>3, <1>4 DEF Went

LEMMA DiskIs ==
  ASSUME FilesType(disk), NEW file \in Files,
         NEW written \in {None, Cut} \cup Whole(file)
  PROVE  disk' = [disk EXCEPT ![file] = written] =>
           /\ FilesType(disk') /\ disk'[file] = written
           /\ \A f \in Files \ {file} : disk'[f] = disk[f]
<1> DEFINE after == [disk EXCEPT ![file] = written]
<1>1. /\ FilesType(after) /\ after[file] = written
      /\ \A f \in Files \ {file} : after[f] = disk[f]
  BY OneChanged
<1> HIDE DEF after
<1>2. disk' = after =>
        /\ FilesType(disk') /\ disk'[file] = written
        /\ \A f \in Files \ {file} : disk'[f] = disk[f]
  BY <1>1
<1> QED BY <1>2 DEF after

\* A file may be overwritten if its content is secured, or not the driver's.
LEMMA DiskStored ==
  ASSUME IInv, NEW file \in Files, NEW written \in {None, Cut} \cup Whole(file),
         FilesType(disk'), disk'[file] = written,
         \A f \in Files \ {file} : disk'[f] = disk[f],
         UNCHANGED <<records, backups, own, installs, edits>>,
         faults' \in 0..MaxFaults, loose' \subseteq Files,
         written = disk[file] \/ (disk[file] = own[file] => Secured(file)),
         file \in Profiles => written \in {Cut, own[file], Unbound(own[file])}
  PROVE  Stored'
<1>1. StoredTypeOK
  BY DEF IInv, Stored
<1>2. FilesType(disk') /\ disk'[file] = written
  OBVIOUS
<1>3. StoredTypeOK'
  BY <1>1, <1>2 DEF StoredTypeOK
<1>4. AllSafe'
  <2>1. ASSUME NEW f \in Files
        PROVE  disk'[f] = own[f] \/ Secured(f)
    <3>1. disk[f] = own[f] \/ Secured(f)
      BY DEF IInv, Stored, AllSafe
    <3> QED BY <1>2, <3>1
  <2> QED BY <2>1 DEF AllSafe, Secured
<1>5. OwnContents'
  <2>1. ASSUME NEW p \in Profiles
        PROVE  disk'[p] \in {Cut, own[p], Unbound(own[p])}
    <3>1. disk[p] \in {Cut, own[p], Unbound(own[p])} /\ p \in Files
      BY WholeIs DEF IInv, Stored, OwnContents
    <3> QED BY <1>2, <3>1
  <2> QED BY <2>1 DEF IInv, Stored, OwnContents
<1>6. Unused'
  BY DEF IInv, Stored, Unused
<1>7. RecordsSound'
  BY DEF IInv, Stored, RecordsSound, EntriesSound, ToRestore, Secured
<1> QED BY <1>2, <1>3, <1>4, <1>5, <1>6, <1>7 DEF Stored

LEMMA PutsStored ==
  ASSUME IInv, NEW file \in Files, NEW content, NEW then,
         Puts(file, content, then),
         content \in {None, Cut} \cup Whole(file),
         content = disk[file] \/ (disk[file] = own[file] => Secured(file)),
         file \in Profiles => content \in {Cut, own[file], Unbound(own[file])}
  PROVE  /\ Stored' /\ Went(then) /\ UNCHANGED <<records, backups>>
         /\ \A f \in Files \ {file} : disk'[f] = disk[f]
         /\ Ended => disk'[file] = content
<1>1. StoredTypeOK /\ RunTypeOK
  BY DEF IInv, Stored, Running
<1>2. UNCHANGED <<records, backups>>
  BY DEF Puts
<1>3. PICK written :
        /\ disk' = [disk EXCEPT ![file] = written]
        /\ \/ written = content /\ GoesOn(then)
           \/ written \in Left(disk[file], content) /\ Breaks
  BY DEF Puts
<1>4. Went(then) /\ (Ended => written = content)
  BY <1>1, <1>3, GoesOnWent, BreaksWent DEF Ended
<1>5. /\ written \in {content, disk[file], Cut}
      /\ content = disk[file] => written = disk[file]
  BY <1>3 DEF Left
<1>6. written \in {None, Cut} \cup Whole(file)
  BY <1>1, <1>5, TypedContent DEF StoredTypeOK
<1>7. file \in Profiles => written \in {Cut, own[file], Unbound(own[file])}
  <2>1. file \in Profiles => disk[file] \in {Cut, own[file], Unbound(own[file])}
    BY DEF IInv, Stored, OwnContents
  <2> QED BY <1>5, <2>1
<1>8. /\ UNCHANGED <<own, installs, edits>>
      /\ faults' \in 0..MaxFaults /\ loose' \subseteq Files
  BY <1>4 DEF Went
<1>9. /\ FilesType(disk') /\ disk'[file] = written
      /\ \A f \in Files \ {file} : disk'[f] = disk[f]
  BY <1>1, <1>3, <1>6, DiskIs DEF StoredTypeOK
<1>10. Stored'
  BY <1>2, <1>5, <1>6, <1>7, <1>8, <1>9, DiskStored
<1> QED BY <1>2, <1>4, <1>9, <1>10

\* Nothing that is stored changes.
LEMMA StoredStays ==
  ASSUME Stored, UNCHANGED <<disk, records, backups, own, installs, edits>>,
         faults' \in 0..MaxFaults, loose' \subseteq Files
  PROVE  Stored'
BY DEF Stored, StoredTypeOK, AllSafe, OwnContents, Unused, RecordsSound,
       EntriesSound, ToRestore, Secured

\* An installation backs up a file where there was no backup of it yet.
LEMMA BacksUpStored ==
  ASSUME IInv, job.action = "Install", NEW file \in Files, NEW then,
         Here[file] = None, BacksUp(file, then)
  PROVE  /\ Stored' /\ Went(then) /\ UNCHANGED <<disk, records>>
         /\ \A f \in Files : Secured(f) => Secured(f)'
         /\ \A f \in Files \ {file} : backups'[job.run][f] = Here[f]
         /\ Ended => backups'[job.run][file] = disk[file] /\ Secured(file)'
<1>1. StoredTypeOK /\ RunTypeOK
  BY DEF IInv, Stored, Running
<1>2. UNCHANGED <<disk, records>>
  BY DEF BacksUp
<1>3. PICK written :
        /\ backups' = [backups EXCEPT ![job.run][file] = written]
        /\ \/ written = disk[file] /\ GoesOn(then)
           \/ written \in Left(None, disk[file]) /\ Breaks
  BY DEF BacksUp
<1>4. Went(then) /\ (Ended => written = disk[file])
  BY <1>1, <1>3, GoesOnWent, BreaksWent DEF Ended
<1>5. UNCHANGED <<own, installs, edits>>
  BY <1>4 DEF Went
<1>6. /\ job.run = installs /\ job.run # 0 /\ job.run \in 0..MaxInstalls
      /\ FilesType(Here) /\ FilesType(disk)
  BY <1>1, JobIs DEF StoredTypeOK, Here
<1>7. written \in {None, Cut} \cup Whole(file)
  BY <1>3, <1>6, TypedContent DEF Left
\* The directories after the write.
<1>8. /\ FilesType(backups'[job.run]) /\ backups'[job.run][file] = written
      /\ \A f \in Files \ {file} : backups'[job.run][f] = Here[f]
      /\ \A n \in (0..MaxInstalls) \ {job.run} : backups'[n] = backups[n]
      /\ backups' = [n \in 0..MaxInstalls |-> backups'[n]]
  <2> DEFINE after == [Here EXCEPT ![file] = written]
  <2>1. /\ FilesType(after) /\ after[file] = written
        /\ \A f \in Files \ {file} : after[f] = Here[f]
    BY <1>6, <1>7, OneChanged
  <2>2. backups' = [backups EXCEPT ![job.run] = after]
    BY <1>3 DEF Here
  <2> HIDE DEF after
  <2>3. /\ backups'[job.run] = after
        /\ \A n \in (0..MaxInstalls) \ {job.run} : backups'[n] = backups[n]
        /\ backups' = [n \in 0..MaxInstalls |-> backups'[n]]
    BY <1>1, <1>6, <2>2 DEF StoredTypeOK
  <2> QED BY <2>1, <2>3
<1>9. ASSUME NEW n \in 0..MaxInstalls, NEW f \in Files, backups[n][f] # None
      PROVE  backups'[n][f] = backups[n][f]
  BY <1>6, <1>8, <1>9 DEF Here
<1>10. ASSUME NEW f \in Files, Secured(f)
       PROVE  Secured(f)'
  BY <1>5, <1>9, <1>10 DEF Secured
<1>11. Ended => backups'[job.run][file] = disk[file] /\ Secured(file)'
  <2>1. disk[file] = own[file] \/ Secured(file)
    BY DEF IInv, Stored, AllSafe
  <2>2. written = own[file] => Secured(file)'
    BY <1>5, <1>6, <1>8 DEF Secured
  <2> QED BY <1>4, <1>8, <1>10, <2>1, <2>2
<1>12. StoredTypeOK'
  <2>1. \A n \in 0..MaxInstalls : FilesType(backups'[n])
    BY <1>1, <1>6, <1>8 DEF StoredTypeOK
  <2> QED BY <1>1, <1>2, <1>4, <1>5, <1>8, <2>1 DEF StoredTypeOK, Went
<1>13. AllSafe' /\ OwnContents'
  BY <1>2, <1>5, <1>10 DEF IInv, Stored, AllSafe, OwnContents
<1>14. Unused'
  BY <1>5, <1>6, <1>8 DEF IInv, Stored, Unused, StoredTypeOK
<1>15. RecordsSound'
  <2>1. "settings" \in Files /\ Profiles \subseteq Files
    BY WholeIs
  <2>2. ASSUME NEW r \in {"current", "legacy"}, records[r] \notin {None, Cut}
        PROVE  EntriesSound(records[r])'
    <3>1. records[r] \in RecordType /\ EntriesSound(records[r])
      BY <1>1, <2>2 DEF IInv, Stored, RecordsSound, StoredTypeOK
    <3>2. ASSUME NEW p \in DOMAIN records[r].profiles
          PROVE  LET entry == records[r].profiles[p] IN
                 /\ entry.modified.version <= edits
                 /\ entry.modified = Unbound(own[p]) =>
                      HasBindings(own[p]) /\ backups'[entry.backup][p] = own[p]
      <4>1. p \in Profiles /\ records[r].profiles[p].backup \in 0..MaxInstalls
          BY <3>1, RecordIs
      <4>2. own[p] # None
        BY <4>1, UnboundIs DEF IInv, Stored, OwnContents
      <4> QED BY <1>9, <2>1, <3>1, <4>1, <4>2 DEF EntriesSound
    <3> QED BY <1>2, <1>5, <3>2 DEF EntriesSound
  <2> QED BY <1>2, <1>5, <1>10, <2>1, <2>2
          DEF IInv, Stored, RecordsSound, ToRestore
<1> QED BY <1>2, <1>4, <1>8, <1>10, <1>11, <1>12, <1>13, <1>14, <1>15 DEF Stored

\* A record is written that is sound.
LEMMA WritesStored ==
  ASSUME IInv, NEW name \in {"current", "legacy"}, NEW value \in RecordType,
         NEW then, Writes(name, value, then), EntriesSound(value),
         name = "legacy" => value.settings = None,
         name = "current" /\ ToRestore(value) => Secured("settings")
  PROVE  /\ Stored' /\ Went(then) /\ UNCHANGED <<disk, backups>>
         /\ \A r \in {"current", "legacy"} \ {name} : records'[r] = records[r]
         /\ Ended => records'[name] = value
<1>1. StoredTypeOK /\ RunTypeOK
  BY DEF IInv, Stored, Running
<1>2. UNCHANGED <<disk, backups>>
  BY DEF Writes
<1>3. PICK written :
        /\ records' = [records EXCEPT ![name] = written]
        /\ \/ written = value /\ GoesOn(then)
           \/ written \in Left(records[name], value) /\ Breaks
  BY DEF Writes
<1>4. Went(then) /\ (Ended => written = value)
  BY <1>1, <1>3, GoesOnWent, BreaksWent DEF Ended
<1>5. UNCHANGED <<own, installs, edits>>
  BY <1>4 DEF Went
<1>6. written \in {value, records[name], Cut}
  BY <1>3 DEF Left
<1>7. /\ records' \in [{"current", "legacy"} -> {None, Cut} \cup RecordType]
      /\ records'[name] = written
      /\ \A r \in {"current", "legacy"} \ {name} : records'[r] = records[r]
  BY <1>1, <1>3, <1>6 DEF StoredTypeOK
<1>8. StoredTypeOK'
  BY <1>1, <1>2, <1>4, <1>5, <1>7 DEF StoredTypeOK, Went
<1>9. AllSafe' /\ OwnContents' /\ Unused'
  BY <1>2, <1>5 DEF IInv, Stored, AllSafe, OwnContents, Unused, Secured
<1>10. /\ EntriesSound(value) <=> EntriesSound(value)'
       /\ \A r \in {"current", "legacy"} :
            records'[r] = records[r] /\ EntriesSound(records[r])
              => EntriesSound(records[r])'
       /\ records'[name] = value => EntriesSound(records[name])'
  BY <1>2, <1>5 DEF EntriesSound
<1>11. RecordsSound'
  <2>1. ASSUME NEW r \in {"current", "legacy"}, records'[r] \notin {None, Cut}
        PROVE  EntriesSound(records[r])'
    BY <1>6, <1>7, <1>10, <2>1 DEF IInv, Stored, RecordsSound
  <2>2. records'["legacy"] \notin {None, Cut} =>
          records'["legacy"].settings = None
    BY <1>6, <1>7 DEF IInv, Stored, RecordsSound
  <2>3. records'["current"] \notin {None, Cut} /\ ToRestore(records["current"])'
          => Secured("settings")'
    BY <1>2, <1>5, <1>6, <1>7
       DEF IInv, Stored, RecordsSound, ToRestore, Secured
  <2> QED BY <2>1, <2>2, <2>3 DEF RecordsSound
<1> QED BY <1>2, <1>4, <1>7, <1>8, <1>9, <1>11 DEF Stored

-----------------------------------------------------------------------------
(* What follows a write that did not end, or the last one of a run *)

LEMMA IdleRuns ==
  ASSUME pc' = "idle", job' = NoJob
  PROVE  Running'
BY DEF Running, RunTypeOK, Installing, Uninstalling, RecordsReadable, NoJob

\* An installation that goes on.
LEMMA InstallRuns ==
  ASSUME IInv, job.action = "Install", job' = job, installs' = installs,
         pc' \in InstallSteps,
         pc' \in {"back up profile", "edit profile", "undo profile"} =>
           job.profile # None /\ HasBindings(job.before[job.profile]),
         Installing', RecordsReadable'
  PROVE  Running'
<1>1. /\ job.run = installs /\ job.run # 0 /\ job.unit \in Units
      /\ job.profile \in Profiles \cup {None} /\ FilesType(job.before)
  BY JobIs DEF IInv, Running
<1>2. RunTypeOK'
  BY <1>1 DEF RunTypeOK
<1>3. Uninstalling'
  BY DEF Uninstalling
<1> QED BY <1>2, <1>3 DEF Running

LEMMA HandlerIs ==
  ASSUME Handler # "idle"
  PROVE  /\ job.action = "Install"
         /\ pc \in {"put plugin", "put settings", "back up profile",
                    "edit profile", "save", "retire"}
         /\ \/ Handler = "undo plugin"
            \/ /\ Handler = "undo profile" /\ Edited
               /\ pc \in {"edit profile", "save", "retire"}
<1>1. job.action = "Install"
  BY DEF Handler
<1>2. CASE pc \in {"put plugin", "put settings", "back up profile"}
  BY <1>1, <1>2 DEF Handler
<1>3. CASE pc \in {"edit profile", "save", "retire"}
  BY <1>1, <1>3 DEF Handler
<1>4. CASE pc \notin {"put plugin", "put settings", "back up profile",
                      "edit profile", "save", "retire"}
  BY <1>1, <1>4 DEF Handler
<1> QED BY <1>1, <1>2, <1>3, <1>4

\* A run that turns to its handler, or is over.
LEMMA NotEnded ==
  ASSUME IInv, Stored', NEW then, Went(then), ~Ended,
         \A f \in Files : Secured(f) => Secured(f)',
         pc \in {"edit profile", "save", "retire"} => UNCHANGED backups
  PROVE  IInv'
<1>1. CASE pc' = "idle"
  BY <1>1, IdleRuns DEF Went, IInv
<1>2. CASE pc' # "idle"
  <2>1. pc' = Handler /\ Handler # "idle" /\ UNCHANGED <<job, installs, own>>
    BY <1>2 DEF Ended, Went
  <2>2. RunTypeOK /\ Installing
    BY DEF IInv, Running
  <2>3. /\ job.action = "Install"
        /\ pc \in {"put plugin", "put settings", "back up profile",
                   "edit profile", "save", "retire"}
        /\ \/ Handler = "undo plugin"
           \/ /\ Handler = "undo profile" /\ Edited
              /\ pc \in {"edit profile", "save", "retire"}
    BY <2>1, HandlerIs
  <2>4. Secured("settings")' /\ Secured("dll")'
    <3>1. Secured("settings") /\ Secured("dll")
      BY <2>2, <2>3 DEF Installing
    <3> QED BY <3>1, WholeIs
  <2>5. CASE pc' = "undo plugin"
    <3>1. Installing' /\ RecordsReadable'
      BY <2>4, <2>5 DEF Installing, AtProfile, RecordsReadable
    <3> QED BY <2>1, <2>3, <2>5, <3>1, InstallRuns DEF InstallSteps, IInv
  <2>6. CASE /\ pc' = "undo profile" /\ Edited
             /\ pc \in {"edit profile", "save", "retire"}
    <3>1. AtProfile /\ backups' = backups
      BY <2>6 DEF AtProfile
    <3>2. /\ job.profile # None /\ HasBindings(job.before[job.profile])
          /\ HasBindings(own[job.profile])
          /\ Here[job.profile] = own[job.profile]
      BY <2>2, <2>3, <3>1 DEF Installing
    <3>3. Installing' /\ RecordsReadable'
      BY <2>1, <2>4, <2>6, <3>1, <3>2 DEF Installing, RecordsReadable, Here
    <3> QED BY <2>1, <2>3, <2>6, <3>2, <3>3, InstallRuns DEF InstallSteps, IInv
  <2> QED BY <2>1, <2>3, <2>5, <2>6
<1> QED BY <1>1, <1>2

\* A write that ended and was not the last.
LEMMA EndedIs ==
  ASSUME NEW then, Went(then), Ended
  PROVE  pc' = then /\ UNCHANGED <<job, installs, edits, own>>
BY DEF Ended, Went

-----------------------------------------------------------------------------
(* Installation, write by write *)

LEMMA BackUpSettingsKeeps == IInv /\ BackUpSettings => IInv'
<1> SUFFICES ASSUME IInv, BackUpSettings PROVE IInv'
  OBVIOUS
<1>1. /\ pc = "back up settings" /\ job.action = "Install"
      /\ BacksUp("settings", "back up plugin")
  BY JobIs DEF BackUpSettings, InstallSteps, UninstallSteps, IInv, Running
<1>2. /\ Here["settings"] = None /\ Here["dll"] = None
      /\ \A p \in Profiles : Here[p] = None /\ disk[p] = job.before[p]
  BY <1>1 DEF IInv, Running, Installing
<1>3. /\ Stored' /\ Went("back up plugin") /\ UNCHANGED <<disk, records>>
      /\ \A f \in Files : Secured(f) => Secured(f)'
      /\ \A f \in Files \ {"settings"} : backups'[job.run][f] = Here[f]
      /\ Ended => Secured("settings")'
  BY <1>1, <1>2, WholeIs, BacksUpStored
<1>4. CASE ~Ended
  BY <1>1, <1>3, <1>4, NotEnded
<1>5. CASE Ended
  <2>1. pc' = "back up plugin" /\ UNCHANGED <<job, installs, own>>
    BY <1>3, <1>5, EndedIs
  <2>2. /\ \A p \in Profiles : backups'[job.run][p] = None
        /\ backups'[job.run]["dll"] = None
    BY <1>2, <1>3, WholeIs
  <2>3. Installing'
    BY <1>2, <1>3, <1>5, <2>1, <2>2 DEF Installing, AtProfile, Here
  <2>4. RecordsReadable'
    BY <1>1, <1>3, <2>1 DEF IInv, Running, RecordsReadable, Readable
  <2> QED BY <1>1, <1>3, <2>1, <2>3, <2>4, InstallRuns DEF InstallSteps, IInv
<1> QED BY <1>4, <1>5

LEMMA BackUpPluginKeeps == IInv /\ BackUpPlugin => IInv'
<1> SUFFICES ASSUME IInv, BackUpPlugin PROVE IInv'
  OBVIOUS
<1>1. /\ pc = "back up plugin" /\ job.action = "Install"
      /\ BacksUp("dll", "put plugin")
  BY JobIs DEF BackUpPlugin, InstallSteps, UninstallSteps, IInv, Running
<1>2. /\ Here["dll"] = None /\ Secured("settings")
      /\ \A p \in Profiles : Here[p] = None /\ disk[p] = job.before[p]
  BY <1>1 DEF IInv, Running, Installing
<1>3. /\ Stored' /\ Went("put plugin") /\ UNCHANGED <<disk, records>>
      /\ \A f \in Files : Secured(f) => Secured(f)'
      /\ \A f \in Files \ {"dll"} : backups'[job.run][f] = Here[f]
      /\ Ended => Secured("dll")'
  BY <1>1, <1>2, WholeIs, BacksUpStored
<1>4. CASE ~Ended
  BY <1>1, <1>3, <1>4, NotEnded
<1>5. CASE Ended
  <2>1. pc' = "put plugin" /\ UNCHANGED <<job, installs, own>>
    BY <1>3, <1>5, EndedIs
  <2>2. \A p \in Profiles : backups'[job.run][p] = None
    BY <1>2, <1>3, WholeIs
  <2>3. Secured("settings")'
    BY <1>2, <1>3, WholeIs
  <2>4. Installing'
    BY <1>2, <1>3, <1>5, <2>1, <2>2, <2>3 DEF Installing, AtProfile, Here
  <2>5. RecordsReadable'
    BY <1>1, <1>3, <2>1 DEF IInv, Running, RecordsReadable, Readable
  <2> QED BY <1>1, <1>3, <2>1, <2>4, <2>5, InstallRuns DEF InstallSteps, IInv
<1> QED BY <1>4, <1>5

LEMMA PutPluginKeeps == IInv /\ PutPlugin => IInv'
<1> SUFFICES ASSUME IInv, PutPlugin PROVE IInv'
  OBVIOUS
<1>1. /\ pc = "put plugin" /\ job.action = "Install"
      /\ Puts("dll", Plugin, "put settings")
  BY JobIs DEF PutPlugin, InstallSteps, UninstallSteps, IInv, Running
<1>2. /\ Secured("settings") /\ Secured("dll")
      /\ \A p \in Profiles : Here[p] = None /\ disk[p] = job.before[p]
  BY <1>1 DEF IInv, Running, Installing
<1>3. /\ Stored' /\ Went("put settings") /\ UNCHANGED <<records, backups>>
      /\ \A f \in Files \ {"dll"} : disk'[f] = disk[f]
      /\ Ended => disk'["dll"] = Plugin
  BY <1>1, <1>2, WholeIs, PutsStored
<1>4. \A f : Secured(f) <=> Secured(f)'
  BY <1>3, SecuredStays DEF Went
<1>5. CASE ~Ended
  BY <1>3, <1>4, <1>5, NotEnded
<1>6. CASE Ended
  <2>1. pc' = "put settings" /\ UNCHANGED <<job, installs, own>>
    BY <1>3, <1>6, EndedIs
  <2>2. \A p \in Profiles : disk'[p] = job.before[p]
    BY <1>2, <1>3, WholeIs
  <2>3. Installing'
    BY <1>2, <1>3, <1>4, <1>6, <2>1, <2>2 DEF Installing, AtProfile, Here
  <2>4. RecordsReadable'
    BY <1>1, <1>3, <2>1 DEF IInv, Running, RecordsReadable, Readable
  <2> QED BY <1>1, <1>3, <2>1, <2>3, <2>4, InstallRuns DEF InstallSteps, IInv
<1> QED BY <1>5, <1>6

LEMMA PutSettingsKeeps == IInv /\ PutSettings => IInv'
<1> SUFFICES ASSUME IInv, PutSettings PROVE IInv'
  OBVIOUS
<1> DEFINE Edits == job.profile # None /\ HasBindings(disk[job.profile])
<1> DEFINE then == IF Edits THEN "back up profile" ELSE "save"
<1>1. pc = "put settings" /\ job.action = "Install"
  BY JobIs DEF PutSettings, InstallSteps, UninstallSteps, IInv, Running
<1>2. Puts("settings", job.unit, then)
  BY DEF PutSettings
<1>3. /\ Secured("settings") /\ Secured("dll") /\ disk["dll"] = Plugin
      /\ \A p \in Profiles : Here[p] = None /\ disk[p] = job.before[p]
  BY <1>1 DEF IInv, Running, Installing
<1>4. job.unit \in Units /\ job.profile \in Profiles \cup {None}
  BY <1>1, JobIs DEF IInv, Running
<1> HIDE DEF then
<1>5. /\ Stored' /\ Went(then) /\ UNCHANGED <<records, backups>>
      /\ \A f \in Files \ {"settings"} : disk'[f] = disk[f]
      /\ Ended => disk'["settings"] = job.unit
  BY <1>2, <1>3, <1>4, WholeIs, PutsStored
<1>6. \A f : Secured(f) <=> Secured(f)'
  BY <1>5, SecuredStays DEF Went
<1>7. CASE ~Ended
  BY <1>5, <1>6, <1>7, NotEnded
<1>8. CASE Ended
  <2>1. pc' = then /\ UNCHANGED <<job, installs, own>>
    BY <1>5, <1>8, EndedIs
  <2>2. /\ \A p \in Profiles : disk'[p] = job.before[p]
        /\ disk'["dll"] = Plugin
    BY <1>3, <1>5, WholeIs
  \* Nothing is backed up of the profile yet.
  <2>3. ~Edited /\ ~Edited' /\ pc' \in {"back up profile", "save"}
    BY <1>3, <1>4, <1>5, <2>1 DEF Edited, Here, then
  <2>4. Installing'
    BY <1>3, <1>5, <1>6, <1>8, <2>1, <2>2, <2>3
       DEF Installing, AtProfile, Here
  <2>5. RecordsReadable'
    BY <1>1, <1>5, <2>1, <2>3 DEF IInv, Running, RecordsReadable, Readable
  <2>6. pc' = "back up profile" =>
          job.profile # None /\ HasBindings(job.before[job.profile])
    BY <1>3, <1>4, <2>1 DEF then
  <2> QED BY <1>1, <1>5, <2>1, <2>3, <2>4, <2>5, <2>6, InstallRuns
          DEF InstallSteps, IInv
<1> QED BY <1>7, <1>8

\* A profile that has bindings is the driver's own.
LEMMA BoundIsOwn ==
  ASSUME IInv, NEW p \in Profiles, HasBindings(disk[p])
  PROVE  disk[p] = own[p] /\ HasBindings(own[p])
<1>1. own[p] \in Versions /\ disk[p] \in {Cut, own[p], Unbound(own[p])}
  BY DEF IInv, Stored, OwnContents
<1>2. ~HasBindings(Cut) /\ ~HasBindings(Unbound(own[p]))
  BY <1>1, UnboundIs DEF HasBindings
<1> QED BY <1>1, <1>2

LEMMA BackUpProfileKeeps == IInv /\ BackUpProfile => IInv'
<1> SUFFICES ASSUME IInv, BackUpProfile PROVE IInv'
  OBVIOUS
<1>1. /\ pc = "back up profile" /\ job.action = "Install"
      /\ BacksUp(job.profile, "edit profile")
  BY JobIs DEF BackUpProfile, InstallSteps, UninstallSteps, IInv, Running
<1>2. /\ Secured("settings") /\ Secured("dll") /\ disk["dll"] = Plugin
      /\ disk["settings"] = job.unit
      /\ \A p \in Profiles : Here[p] = None /\ disk[p] = job.before[p]
  BY <1>1 DEF IInv, Running, Installing
<1>3. /\ job.profile \in Profiles /\ job.profile # None
      /\ HasBindings(job.before[job.profile])
  <2>1. job.profile # None /\ HasBindings(job.before[job.profile])
    BY <1>1 DEF IInv, Running, RunTypeOK, UninstallSteps
  <2> QED BY <1>1, <2>1, JobIs DEF IInv, Running
<1>4. disk[job.profile] = own[job.profile] /\ HasBindings(own[job.profile])
  BY <1>2, <1>3, BoundIsOwn
<1>5. /\ Stored' /\ Went("edit profile") /\ UNCHANGED <<disk, records>>
      /\ \A f \in Files : Secured(f) => Secured(f)'
      /\ Ended => backups'[job.run][job.profile] = disk[job.profile]
  BY <1>1, <1>2, <1>3, WholeIs, BacksUpStored
<1>6. CASE ~Ended
  BY <1>1, <1>5, <1>6, NotEnded
<1>7. CASE Ended
  <2>1. pc' = "edit profile" /\ UNCHANGED <<job, installs, own>>
    BY <1>5, <1>7, EndedIs
  <2>2. Secured("settings")' /\ Secured("dll")'
    BY <1>2, <1>5, WholeIs
  <2>3. Installing'
    BY <1>2, <1>3, <1>4, <1>5, <1>7, <2>1, <2>2 DEF Installing, Here
  <2>4. RecordsReadable'
    BY <1>1, <1>5, <2>1 DEF IInv, Running, RecordsReadable, Readable
  <2> QED BY <1>1, <1>3, <1>5, <2>1, <2>3, <2>4, InstallRuns
          DEF InstallSteps, IInv
<1> QED BY <1>6, <1>7

\* What an installation knows of the profile it has backed up.
LEMMA AtProfileIs ==
  ASSUME IInv, job.action = "Install", AtProfile
  PROVE  /\ job.profile \in Profiles /\ job.profile # None
         /\ HasBindings(job.before[job.profile])
         /\ own[job.profile] \in Versions /\ HasBindings(own[job.profile])
         /\ Here[job.profile] = own[job.profile] /\ Secured(job.profile)
<1>1. /\ job.profile # None /\ HasBindings(job.before[job.profile])
      /\ HasBindings(own[job.profile])
      /\ Here[job.profile] = own[job.profile]
  BY DEF IInv, Running, Installing
<1>2. job.profile \in Profiles /\ job.run \in 0..MaxInstalls
  BY <1>1, JobIs DEF IInv, Running, Stored, StoredTypeOK
<1>3. own[job.profile] \in Versions
  BY <1>2 DEF IInv, Stored, OwnContents
<1> QED BY <1>1, <1>2, <1>3 DEF Secured, Here

LEMMA EditProfileKeeps == IInv /\ EditProfile => IInv'
<1> SUFFICES ASSUME IInv, EditProfile PROVE IInv'
  OBVIOUS
<1> DEFINE p == job.profile
<1>1. /\ pc = "edit profile" /\ job.action = "Install"
      /\ Puts(p, Unbound(disk[p]), "save")
  BY JobIs DEF EditProfile, InstallSteps, UninstallSteps, IInv, Running
<1>2. /\ p \in Profiles /\ p # None /\ HasBindings(job.before[p])
      /\ own[p] \in Versions /\ HasBindings(own[p])
      /\ Here[p] = own[p] /\ Secured(p)
  BY <1>1, AtProfileIs DEF AtProfile
<1>3. /\ Secured("settings") /\ Secured("dll") /\ disk["dll"] = Plugin
      /\ disk["settings"] = job.unit /\ disk[p] = own[p]
  BY <1>1 DEF IInv, Running, Installing
<1> HIDE DEF p
<1>4. Unbound(own[p]) \in Whole(p) /\ p \in Files
  BY <1>2, UnboundIs, WholeIs
<1>5. /\ Stored' /\ Went("save") /\ UNCHANGED <<records, backups>>
      /\ \A f \in Files \ {p} : disk'[f] = disk[f]
      /\ Ended => disk'[p] = Unbound(own[p])
  BY <1>1, <1>2, <1>3, <1>4, PutsStored
<1>6. \A f : Secured(f) <=> Secured(f)'
  BY <1>5, SecuredStays DEF Went
<1>7. CASE ~Ended
  BY <1>5, <1>6, <1>7, NotEnded
<1>8. CASE Ended
  <2>1. pc' = "save" /\ UNCHANGED <<job, installs, own>>
    BY <1>5, <1>8, EndedIs
  <2>2. disk'["dll"] = Plugin /\ disk'["settings"] = job.unit
    BY <1>2, <1>3, <1>5, WholeIs
  <2>3. Installing'
    BY <1>2, <1>3, <1>5, <1>6, <1>8, <2>1, <2>2 DEF Installing, Here, p
  <2>4. RecordsReadable'
    BY <1>1, <1>5, <2>1 DEF IInv, Running, RecordsReadable, Readable
  <2> QED BY <1>1, <1>5, <2>1, <2>3, <2>4, InstallRuns DEF InstallSteps, IInv
<1> QED BY <1>7, <1>8

\* A record that is written differs from one that was read.
LEMMA RetiredIs ==
  ASSUME NEW r \in RecordType, EntriesSound(r)
  PROVE  LET retired == [r EXCEPT !.installed = FALSE] IN
         /\ retired \in RecordType /\ EntriesSound(retired)
         /\ ~ToRestore(retired) /\ retired.settings = r.settings
<1> DEFINE retired == [r EXCEPT !.installed = FALSE]
<1>1. /\ retired \in RecordType /\ retired.installed = FALSE
      /\ retired.settings = r.settings /\ retired.profiles = r.profiles
  BY DEF RecordType
<1> HIDE DEF retired
<1>2. EntriesSound(retired) /\ ~ToRestore(retired)
  BY <1>1 DEF EntriesSound, ToRestore
<1> QED BY <1>1, <1>2 DEF retired

\* What is installed has a record that can be read and is sound.
LEMMA InstalledIs ==
  ASSUME IInv, Installed
  PROVE  /\ Record \in RecordType /\ Record.installed /\ EntriesSound(Record)
         /\ Record.settings # None => Record = records["current"]
         /\ ToRestore(Record) => Secured("settings")
<1>1. records \in [{"current", "legacy"} -> {None, Cut} \cup RecordType]
  BY DEF IInv, Stored, StoredTypeOK
<1>2. /\ Record \notin {None, Cut} /\ Record.installed
      /\ Record \in {records["current"], records["legacy"]}
  BY DEF Installed, Record
<1>3. Record \in RecordType /\ EntriesSound(Record)
  BY <1>1, <1>2 DEF IInv, Stored, RecordsSound
<1>4. Record.settings # None => Record = records["current"]
  BY <1>2 DEF IInv, Stored, RecordsSound
<1>5. ToRestore(Record) => Secured("settings")
  BY <1>2, <1>4 DEF IInv, Stored, RecordsSound, ToRestore
<1> QED BY <1>2, <1>3, <1>4, <1>5

\* The record of an installation.
LEMMA NewRecordIs ==
  ASSUME IInv, job.action = "Install", pc = "save"
  PROVE  /\ NewRecord \in RecordType /\ EntriesSound(NewRecord)
         /\ ToRestore(NewRecord) => Secured("settings")
<1>1. /\ Secured("settings") /\ disk["dll"] = Plugin
      /\ disk["settings"] = job.unit /\ job.unit \in Units
      /\ job.run \in 0..MaxInstalls
  BY JobIs DEF IInv, Running, Installing, Stored, StoredTypeOK
<1>2. Edited => /\ job.profile \in Profiles
                /\ disk[job.profile] = Unbound(own[job.profile])
                /\ own[job.profile] \in Versions
                /\ HasBindings(own[job.profile])
                /\ backups[job.run][job.profile] = own[job.profile]
  <2>1. Edited => AtProfile
    BY DEF AtProfile
  <2>2. Edited => disk[job.profile] = Unbound(own[job.profile])
    BY DEF IInv, Running, Installing
  <2> QED BY <2>1, <2>2, AtProfileIs DEF Here
<1>3. /\ DOMAIN KeptProfiles \subseteq Profiles
      /\ \A p \in DOMAIN KeptProfiles :
           LET entry == KeptProfiles[p] IN
           /\ entry \in Entry /\ entry.modified.version <= edits
           /\ entry.modified = Unbound(own[p]) =>
                HasBindings(own[p]) /\ backups[entry.backup][p] = own[p]
  <2>1. CASE Installed
    BY <2>1, InstalledIs, RecordIs DEF KeptProfiles, EntriesSound
  <2>2. CASE ~Installed
    BY <2>2 DEF KeptProfiles, NoProfiles
  <2> QED BY <2>1, <2>2
<1>4. Edited =>
        LET entry == [backup |-> job.run, modified |-> disk[job.profile]] IN
        entry \in Entry /\ entry.modified.version <= edits
  <2>1. Edited => own[job.profile].version <= edits
    BY <1>2 DEF IInv, Stored, OwnContents
  <2>2. Edited => /\ disk[job.profile].version = own[job.profile].version
                  /\ disk[job.profile]
                       \in [version : 0..MaxEdits, bound : {FALSE}]
    <3>1. Edited => /\ Unbound(own[job.profile]).version
                         = own[job.profile].version
                    /\ Unbound(own[job.profile])
                         \in [version : 0..MaxEdits, bound : {FALSE}]
      BY <1>2, UnboundIs
    <3> QED BY <1>2, <3>1
  <2>3. Edited => job.run \in 0..MaxInstalls
    BY <1>1
  <2> QED BY <2>1, <2>2, <2>3 DEF Entry
<1>5. /\ DOMAIN SavedProfiles \subseteq Profiles
      /\ SavedProfiles \in [DOMAIN SavedProfiles -> Entry]
      /\ \A p \in DOMAIN SavedProfiles :
           LET entry == SavedProfiles[p] IN
           /\ entry.modified.version <= edits
           /\ entry.modified = Unbound(own[p]) =>
                HasBindings(own[p]) /\ backups[entry.backup][p] = own[p]
  <2>1. CASE Edited
    BY <1>2, <1>3, <1>4, <2>1 DEF SavedProfiles
  <2>2. CASE ~Edited
    BY <1>3, <2>2 DEF SavedProfiles
  <2> QED BY <2>1, <2>2
<1>6. SavedSettings \in [backup : 0..MaxInstalls, installed : Units]
  <2>1. Installed /\ Record.settings # None =>
          Record.settings.backup \in 0..MaxInstalls
    BY InstalledIs, RecordIs
  <2> QED BY <1>1, <2>1 DEF SavedSettings
<1>7. /\ NewRecord.installed = TRUE /\ NewRecord.plugin = Plugin
      /\ NewRecord.settings = SavedSettings
      /\ NewRecord.profiles = SavedProfiles
      /\ NewRecord = [installed |-> TRUE, plugin |-> Plugin,
                      settings |-> SavedSettings, profiles |-> SavedProfiles]
  BY <1>1 DEF NewRecord
<1>8. NewRecord \in RecordType
  BY <1>5, <1>6, <1>7 DEF RecordType
<1> QED BY <1>1, <1>5, <1>7, <1>8 DEF EntriesSound

\* A removal that goes on.
LEMMA UninstallRuns ==
  ASSUME job'.action = "Uninstall", pc' \in UninstallSteps,
         job' \in [action : {"Uninstall"}, run : {0}, profile : {None},
                   left : SUBSET Profiles],
         pc' # "retire" => Installed',
         Uninstalling', RecordsReadable'
  PROVE  Running'
<1>1. RunTypeOK'
  BY DEF RunTypeOK
<1>2. Installing'
  BY DEF Installing
<1> QED BY <1>1, <1>2 DEF Running

LEMMA SaveRecordKeeps == IInv /\ SaveRecord => IInv'
<1> SUFFICES ASSUME IInv, SaveRecord PROVE IInv'
  OBVIOUS
<1> DEFINE then == IF records["legacy"] = None THEN "idle" ELSE "retire"
<1>1. /\ pc = "save" /\ job.action \in {"Install", "Uninstall"}
      /\ Writes("current", NewRecord, then)
  BY JobIs DEF SaveRecord, IInv, Running
<1>2. job.action = "Uninstall" => Installed
  BY <1>1, JobIs DEF IInv, Running, RunTypeOK
<1>3. /\ NewRecord \in RecordType /\ EntriesSound(NewRecord)
      /\ ToRestore(NewRecord) => Secured("settings")
  <2>1. CASE job.action = "Install"
    BY <1>1, <2>1, NewRecordIs
  <2>2. CASE job.action = "Uninstall"
    <3>1. NewRecord = [Record EXCEPT !.installed = FALSE]
      BY <2>2 DEF NewRecord
    <3> QED BY <1>2, <2>2, <3>1, InstalledIs, RetiredIs
  <2> QED BY <1>1, <2>1, <2>2
<1> HIDE DEF then
<1>4. /\ Stored' /\ Went(then) /\ UNCHANGED <<disk, backups>>
      /\ records'["legacy"] = records["legacy"]
      /\ Ended => records'["current"] = NewRecord
  BY <1>1, <1>3, WritesStored
<1>5. \A f : Secured(f) <=> Secured(f)'
  BY <1>4, SecuredStays DEF Went
<1>6. CASE ~Ended
  BY <1>4, <1>5, <1>6, NotEnded
<1>7. CASE Ended
  <2>1. /\ pc' = "retire" /\ records["legacy"] # None
        /\ UNCHANGED <<job, installs, edits, own>>
    BY <1>4, <1>7, EndedIs DEF Ended, then
  <2>2. RecordsReadable'
    <3>1. NewRecord # Cut /\ records["legacy"] # Cut
      BY <1>1, <1>3, RecordIs DEF IInv, Running, RecordsReadable, Readable
    <3> QED BY <1>4, <1>7, <2>1, <3>1 DEF RecordsReadable, Readable
  <2>3. CASE job.action = "Install"
    <3>1. Secured("settings") /\ Secured("dll")
      BY <1>1, <2>3 DEF IInv, Running, Installing
    <3>2. Edited' <=> Edited
      BY <1>4, <2>1 DEF Edited, Here
    <3>3. AtProfile' => AtProfile
      BY <1>1, <2>1, <3>2 DEF AtProfile
    <3>4. AtProfile => /\ job.profile # None
                       /\ HasBindings(job.before[job.profile])
                       /\ HasBindings(own[job.profile])
                       /\ Here[job.profile] = own[job.profile]
      BY <2>3, AtProfileIs
    <3>5. Installing'
      BY <1>4, <1>5, <2>1, <3>1, <3>3, <3>4 DEF Installing, Here
    <3> QED BY <1>4, <2>1, <2>2, <2>3, <3>5, InstallRuns DEF InstallSteps, IInv
  <2>4. CASE job.action = "Uninstall"
    <3>1. Uninstalling'
      BY <2>1 DEF Uninstalling
    <3>2. job' \in [action : {"Uninstall"}, run : {0}, profile : {None},
                    left : SUBSET Profiles]
      BY <2>1, <2>4, JobIs DEF IInv, Running
    <3> QED BY <1>4, <2>1, <2>2, <2>4, <3>1, <3>2, UninstallRuns
            DEF UninstallSteps, IInv
  <2> QED BY <1>1, <2>3, <2>4
<1> QED BY <1>6, <1>7

LEMMA RetireLegacyKeeps == IInv /\ RetireLegacy => IInv'
<1> SUFFICES ASSUME IInv, RetireLegacy PROVE IInv'
  OBVIOUS
<1> DEFINE retired == [records["legacy"] EXCEPT !.installed = FALSE]
<1>1. pc = "retire" /\ Writes("legacy", retired, "idle")
  BY DEF RetireLegacy
<1>2. records["legacy"] \notin {None, Cut}
  BY <1>1 DEF IInv, Running, RecordsReadable, Readable
<1>3. /\ records["legacy"] \in RecordType /\ EntriesSound(records["legacy"])
      /\ records["legacy"].settings = None
  BY <1>2 DEF IInv, Stored, StoredTypeOK, RecordsSound
<1>4. /\ retired \in RecordType /\ EntriesSound(retired)
      /\ retired.settings = None
  BY <1>3, RetiredIs
<1> HIDE DEF retired
<1>5. Stored' /\ Went("idle") /\ UNCHANGED <<disk, backups>>
  BY <1>1, <1>4, WritesStored
<1>6. \A f : Secured(f) <=> Secured(f)'
  BY <1>5, SecuredStays DEF Went
<1>7. ~Ended
  BY <1>5 DEF Ended, Went
<1> QED BY <1>5, <1>6, <1>7, NotEnded

-----------------------------------------------------------------------------
(* The rollback, write by write *)

LEMMA UndoProfileKeeps == IInv /\ UndoProfile => IInv'
<1> SUFFICES ASSUME IInv, UndoProfile PROVE IInv'
  OBVIOUS
<1> DEFINE p == job.profile
<1>1. /\ pc = "undo profile" /\ job.action = "Install"
      /\ Puts(p, Here[p], "undo plugin")
  BY JobIs DEF UndoProfile, InstallSteps, UninstallSteps, IInv, Running
<1>2. /\ p \in Profiles /\ own[p] \in Versions
      /\ Here[p] = own[p] /\ Secured(p)
  BY <1>1, AtProfileIs DEF AtProfile
<1>3. Secured("settings") /\ Secured("dll")
  BY <1>1 DEF IInv, Running, Installing
<1> HIDE DEF p
<1>4. own[p] \in Whole(p) /\ p \in Files
  BY <1>2, WholeIs
<1>5. Stored' /\ Went("undo plugin") /\ UNCHANGED <<records, backups>>
  BY <1>1, <1>2, <1>4, PutsStored
<1>6. \A f : Secured(f) <=> Secured(f)'
  BY <1>5, SecuredStays DEF Went
<1>7. CASE ~Ended
  BY <1>1, <1>5, <1>6, <1>7, NotEnded
<1>8. CASE Ended
  <2>1. pc' = "undo plugin" /\ UNCHANGED <<job, installs, own>>
    BY <1>5, <1>8, EndedIs
  <2>2. Installing' /\ RecordsReadable'
    BY <1>3, <1>6, <2>1 DEF Installing, AtProfile, RecordsReadable
  <2> QED BY <1>1, <1>5, <2>1, <2>2, InstallRuns DEF InstallSteps, IInv
<1> QED BY <1>7, <1>8

LEMMA UndoPluginKeeps == IInv /\ UndoPlugin => IInv'
<1> SUFFICES ASSUME IInv, UndoPlugin PROVE IInv'
  OBVIOUS
<1>1. /\ pc = "undo plugin" /\ job.action = "Install"
      /\ Puts("dll", Here["dll"], "undo settings")
  BY JobIs DEF UndoPlugin, InstallSteps, UninstallSteps, IInv, Running
<1>2. Secured("settings") /\ Secured("dll")
  BY <1>1 DEF IInv, Running, Installing
<1>3. FilesType(Here)
  BY <1>1, JobIs DEF IInv, Running, Stored, StoredTypeOK, Here
<1>4. Here["dll"] \in {None, Cut} \cup Whole("dll")
  BY <1>3, TypedContent, WholeIs
<1>5. Stored' /\ Went("undo settings") /\ UNCHANGED <<records, backups>>
  BY <1>1, <1>2, <1>4, WholeIs, PutsStored
<1>6. \A f : Secured(f) <=> Secured(f)'
  BY <1>5, SecuredStays DEF Went
<1>7. CASE ~Ended
  BY <1>1, <1>5, <1>6, <1>7, NotEnded
<1>8. CASE Ended
  <2>1. pc' = "undo settings" /\ UNCHANGED <<job, installs, own>>
    BY <1>5, <1>8, EndedIs
  <2>2. Installing' /\ RecordsReadable'
    BY <1>2, <1>6, <2>1 DEF Installing, AtProfile, RecordsReadable
  <2> QED BY <1>1, <1>5, <2>1, <2>2, InstallRuns DEF InstallSteps, IInv
<1> QED BY <1>7, <1>8

LEMMA UndoSettingsKeeps == IInv /\ UndoSettings => IInv'
<1> SUFFICES ASSUME IInv, UndoSettings PROVE IInv'
  OBVIOUS
<1>1. /\ pc = "undo settings" /\ job.action = "Install"
      /\ Puts("settings", Here["settings"], "idle")
  BY JobIs DEF UndoSettings, InstallSteps, UninstallSteps, IInv, Running
<1>2. Secured("settings")
  BY <1>1 DEF IInv, Running, Installing
<1>3. FilesType(Here)
  BY <1>1, JobIs DEF IInv, Running, Stored, StoredTypeOK, Here
<1>4. Here["settings"] \in {None, Cut} \cup Whole("settings")
  BY <1>3, TypedContent, WholeIs
<1>5. Stored' /\ Went("idle") /\ UNCHANGED <<records, backups>>
  BY <1>1, <1>2, <1>4, WholeIs, PutsStored
<1>6. \A f : Secured(f) <=> Secured(f)'
  BY <1>5, SecuredStays DEF Went
<1>7. ~Ended
  BY <1>5 DEF Ended, Went
<1> QED BY <1>1, <1>5, <1>6, <1>7, NotEnded

-----------------------------------------------------------------------------
(* Removal, write by write *)

\* What is known of a removal before it saves its record.
LEMMA RemovalIs ==
  ASSUME IInv,
         pc \in {"remove plugin", "restore settings", "restore profiles"}
  PROVE  /\ job.action = "Uninstall" /\ Installed /\ Readable
         /\ job \in [action : {"Uninstall"}, run : {0}, profile : {None},
                     left : SUBSET Profiles]
         /\ job.left \subseteq DOMAIN Record.profiles
         /\ Handler = "idle"
<1>1. /\ job.action = "Uninstall"
      /\ job \in [action : {"Uninstall"}, run : {0}, profile : {None},
                  left : SUBSET Profiles]
  BY JobIs DEF IInv, Running, UninstallSteps
<1>2. Installed
  BY <1>1 DEF IInv, Running, RunTypeOK, NoJob
<1>3. Readable
  BY DEF IInv, Running, RecordsReadable
<1>4. job.left \subseteq DOMAIN Record.profiles
  BY <1>1 DEF IInv, Running, Uninstalling
<1>5. Handler = "idle"
  BY <1>1 DEF Handler
<1> QED BY <1>1, <1>2, <1>3, <1>4, <1>5

LEMMA RemovePluginKeeps == IInv /\ RemovePlugin => IInv'
<1> SUFFICES ASSUME IInv, RemovePlugin PROVE IInv'
  OBVIOUS
<1>1. pc = "remove plugin" /\ Puts("dll", None, "restore settings")
  BY DEF RemovePlugin
<1>2. /\ job.action = "Uninstall" /\ Installed /\ Readable
      /\ job \in [action : {"Uninstall"}, run : {0}, profile : {None},
                  left : SUBSET Profiles]
      /\ job.left \subseteq DOMAIN Record.profiles
  BY <1>1, RemovalIs
\* The driver's own DLL is not removed.
<1>3. disk["dll"] = own["dll"] => disk["dll"] = None
  <2>1. disk["dll"] \in {None, "1.0", Plugin}
    BY <1>1, <1>2 DEF IInv, Running, Uninstalling
  <2>2. own["dll"] \in {None, "other"}
    BY DEF IInv, Stored, OwnContents
  <2> QED BY <2>1, <2>2 DEF Plugin
<1>4. /\ None = disk["dll"] \/ (disk["dll"] = own["dll"] => Secured("dll"))
      /\ "dll" \in Files /\ "dll" \notin Profiles
  BY <1>3, WholeIs
<1>5. Stored' /\ Went("restore settings") /\ UNCHANGED <<records, backups>>
  BY <1>1, <1>4, PutsStored
<1>6. \A f : Secured(f) <=> Secured(f)'
  BY <1>5, SecuredStays DEF Went
<1>7. CASE ~Ended
  BY <1>1, <1>5, <1>6, <1>7, NotEnded
<1>8. CASE Ended
  <2>1. pc' = "restore settings" /\ UNCHANGED <<job, installs, own>>
    BY <1>5, <1>8, EndedIs
  <2>2. Installed' /\ Uninstalling' /\ RecordsReadable'
    BY <1>2, <1>5, <2>1
       DEF Installed, Record, Uninstalling, RecordsReadable, Readable
  <2> QED BY <1>2, <1>5, <2>1, <2>2, UninstallRuns DEF UninstallSteps, IInv
<1> QED BY <1>7, <1>8

LEMMA RestoreSettingsKeeps == IInv /\ RestoreSettings => IInv'
<1> SUFFICES ASSUME IInv, RestoreSettings PROVE IInv'
  OBVIOUS
<1> DEFINE Restores == /\ Record.settings # None
                       /\ disk["settings"] = Record.settings.installed
<1> DEFINE content == IF Restores
                      THEN backups[Record.settings.backup]["settings"]
                      ELSE disk["settings"]
<1>1. /\ pc = "restore settings"
      /\ Puts("settings", content, "restore profiles")
  BY DEF RestoreSettings
<1>2. /\ job.action = "Uninstall" /\ Installed /\ Readable
      /\ job \in [action : {"Uninstall"}, run : {0}, profile : {None},
                  left : SUBSET Profiles]
      /\ job.left \subseteq DOMAIN Record.profiles
  BY <1>1, RemovalIs
<1>3. "settings" \in Files /\ "settings" \notin Profiles
  BY WholeIs
<1>4. content \in {None, Cut} \cup Whole("settings")
  <2>1. CASE Restores
    <3>1. Record.settings.backup \in 0..MaxInstalls
      BY <1>2, <2>1, InstalledIs, RecordIs
    <3>2. FilesType(backups[Record.settings.backup])
      BY <3>1 DEF IInv, Stored, StoredTypeOK
    <3> QED BY <1>3, <2>1, <3>2, TypedContent
  <2>2. CASE ~Restores
    <3>1. FilesType(disk)
      BY DEF IInv, Stored, StoredTypeOK
    <3> QED BY <1>3, <2>2, <3>1, TypedContent
  <2> QED BY <2>1, <2>2
<1>5. /\ content = disk["settings"]
      \/ (disk["settings"] = own["settings"] => Secured("settings"))
  <2>1. CASE Restores /\ disk["settings"] = own["settings"]
    <3>1. ToRestore(Record)
      BY <1>2, <2>1, InstalledIs DEF ToRestore
    <3> QED BY <1>2, <3>1, InstalledIs
  <2>2. CASE ~Restores
    BY <2>2
  <2> QED BY <2>1, <2>2
<1> HIDE DEF content
<1>6. Stored' /\ Went("restore profiles") /\ UNCHANGED <<records, backups>>
  BY <1>1, <1>3, <1>4, <1>5, PutsStored
<1>7. \A f : Secured(f) <=> Secured(f)'
  BY <1>6, SecuredStays DEF Went
<1>8. CASE ~Ended
  BY <1>1, <1>6, <1>7, <1>8, NotEnded
<1>9. CASE Ended
  <2>1. pc' = "restore profiles" /\ UNCHANGED <<job, installs, own>>
    BY <1>6, <1>9, EndedIs
  <2>2. Installed' /\ Uninstalling' /\ RecordsReadable'
    BY <1>2, <1>6, <2>1
       DEF Installed, Record, Uninstalling, RecordsReadable, Readable
  <2> QED BY <1>2, <1>6, <2>1, <2>2, UninstallRuns DEF UninstallSteps, IInv
<1> QED BY <1>8, <1>9

\* A profile is left alone, or is given back what is the driver's and in a
\* backup.
LEMMA RestoredIs ==
  ASSUME IInv, Installed, NEW p \in DOMAIN Record.profiles
  PROVE  /\ p \in Profiles /\ p \in Files
         /\ Restored(p) \in {None, Cut} \cup Whole(p)
         /\ \/ Restored(p) = disk[p]
            \/ Restored(p) = own[p] /\ Secured(p)
         /\ Restored(p) \in {Cut, own[p], Unbound(own[p])}
         /\ disk[p] = Record.profiles[p].modified => Restored(p) = own[p]
<1> DEFINE entry == Record.profiles[p]
<1>1. /\ Record \in RecordType /\ EntriesSound(Record)
      /\ p \in Profiles /\ entry.backup \in 0..MaxInstalls
      /\ entry.modified \in [version : 0..MaxEdits, bound : {FALSE}]
  BY InstalledIs, RecordIs
<1>2. /\ own[p] \in Versions /\ disk[p] \in {Cut, own[p], Unbound(own[p])}
  BY <1>1 DEF IInv, Stored, OwnContents
<1>3. /\ entry.modified = Unbound(own[p]) =>
           HasBindings(own[p]) /\ backups[entry.backup][p] = own[p]
  BY <1>1 DEF EntriesSound
<1>4. /\ own[p] \in Whole(p) /\ Unbound(own[p]) \in Whole(p)
      /\ p \in Files
  BY <1>1, <1>2, UnboundIs, WholeIs
<1>5. CASE disk[p] # entry.modified
  BY <1>1, <1>2, <1>4, <1>5 DEF Restored
<1>6. CASE disk[p] = entry.modified
  <2>1. entry.modified # Cut /\ ~HasBindings(entry.modified)
    <3>1. entry.modified \in Versions /\ entry.modified.bound = FALSE
      BY <1>1 DEF Versions
    <3> QED BY <3>1, UnboundIs
  <2>2. entry.modified = Unbound(own[p])
    <3>1. CASE disk[p] = own[p]
      BY <1>2, <1>6, <2>1, <3>1, UnboundIs
    <3>2. CASE disk[p] = Unbound(own[p])
      BY <1>6, <3>2
    <3> QED BY <1>2, <1>6, <2>1, <3>1, <3>2
  <2>3. Restored(p) = own[p]
    BY <1>3, <1>6, <2>2 DEF Restored
  <2>4. Secured(p)
    BY <1>1, <1>3, <2>2 DEF Secured
  <2> QED BY <1>1, <1>4, <2>3, <2>4
<1> QED BY <1>5, <1>6

LEMMA RestoreProfilesKeeps == IInv /\ RestoreProfiles => IInv'
<1> SUFFICES ASSUME IInv, RestoreProfiles PROVE IInv'
  OBVIOUS
<1>1. pc = "restore profiles"
  BY DEF RestoreProfiles
<1>2. /\ job.action = "Uninstall" /\ Installed /\ Readable
      /\ job \in [action : {"Uninstall"}, run : {0}, profile : {None},
                  left : SUBSET Profiles]
      /\ job.left \subseteq DOMAIN Record.profiles /\ Handler = "idle"
  BY <1>1, RemovalIs
<1>3. ASSUME NEW p \in job.left,
             disk' = [disk EXCEPT ![p] = Restored(p)],
             job' = [job EXCEPT !.left = @ \ {p}],
             UNCHANGED <<pc, counters, own, loose, records, backups>>
      PROVE  IInv'
  <2>1. /\ p \in Profiles /\ p \in Files
        /\ Restored(p) \in {None, Cut} \cup Whole(p)
        /\ \/ Restored(p) = disk[p]
           \/ Restored(p) = own[p] /\ Secured(p)
        /\ Restored(p) \in {Cut, own[p], Unbound(own[p])}
    BY <1>2, RestoredIs
  <2>2. StoredTypeOK /\ FilesType(disk)
    BY DEF IInv, Stored, StoredTypeOK
  <2>3. /\ FilesType(disk') /\ disk'[p] = Restored(p)
        /\ \A f \in Files \ {p} : disk'[f] = disk[f]
    BY <1>3, <2>1, <2>2, DiskIs
  <2>4. /\ UNCHANGED <<records, backups, own, installs, edits>>
        /\ faults' \in 0..MaxFaults /\ loose' \subseteq Files
    BY <1>3, <2>2 DEF counters, StoredTypeOK
  <2>5. Stored'
    BY <2>1, <2>3, <2>4, DiskStored
  <2>6. /\ job' \in [action : {"Uninstall"}, run : {0}, profile : {None},
                     left : SUBSET Profiles]
        /\ job'.action = "Uninstall" /\ job'.left \subseteq job.left
    BY <1>2, <1>3
  <2>7. Installed' /\ Uninstalling' /\ RecordsReadable'
    BY <1>1, <1>2, <1>3, <2>4, <2>6
       DEF Installed, Record, Uninstalling, RecordsReadable, Readable
  <2> QED BY <1>1, <1>3, <2>5, <2>6, <2>7, UninstallRuns
          DEF UninstallSteps, IInv
<1>4. ASSUME NEW p \in job.left, UNCHANGED <<records, backups>>, Breaks,
             \E left \in Left(disk[p], Restored(p)) :
               disk' = [disk EXCEPT ![p] = left]
      PROVE  IInv'
  <2>1. /\ p \in Profiles /\ p \in Files
        /\ Restored(p) \in {None, Cut} \cup Whole(p)
        /\ \/ Restored(p) = disk[p]
           \/ Restored(p) = own[p] /\ Secured(p)
        /\ Restored(p) \in {Cut, own[p], Unbound(own[p])}
    BY <1>2, RestoredIs
  <2>2. Puts(p, Restored(p), "restore profiles")
    BY <1>4 DEF Puts
  <2>3. Stored' /\ Went("restore profiles")
    BY <2>1, <2>2, PutsStored
  <2>4. pc' = "idle"
    BY <1>2, <1>4 DEF Breaks
  <2> QED BY <2>3, <2>4, IdleRuns DEF Went, IInv
<1>5. ASSUME GoesOn("save"), UNCHANGED <<disk, records, backups>>
      PROVE  IInv'
  <2>1. /\ pc' = "save" /\ job' = job
        /\ UNCHANGED <<installs, edits, faults, own, loose>>
    BY <1>5 DEF GoesOn
  <2>2. Stored'
    BY <1>5, <2>1, StoredStays DEF IInv, Stored, StoredTypeOK
  <2>3. Installed' /\ Uninstalling' /\ RecordsReadable'
    BY <1>2, <1>5, <2>1
       DEF Installed, Record, Uninstalling, RecordsReadable, Readable
  <2> QED BY <1>2, <2>1, <2>2, <2>3, UninstallRuns DEF UninstallSteps, IInv
<1> QED BY <1>3, <1>4, <1>5 DEF RestoreProfiles

-----------------------------------------------------------------------------
(* The start of a run *)

LEMMA StartInstallKeeps == IInv /\ StartInstall => IInv'
<1> SUFFICES ASSUME IInv, StartInstall PROVE IInv'
  OBVIOUS
<1>1. PICK profile \in Profiles \cup {None}, unit \in Units :
        job' = [action |-> "Install", run |-> installs + 1,
                profile |-> profile, unit |-> unit, before |-> disk]
  BY DEF StartInstall
<1>2. /\ Readable /\ installs < MaxInstalls /\ installs' = installs + 1
      /\ pc' = "back up settings" /\ loose' = loose \cup Overwritten
      /\ UNCHANGED <<disk, records, backups, edits, faults, own>>
  BY DEF StartInstall
<1>3. /\ installs' \in 0..MaxInstalls /\ installs' # 0
      /\ \A n \in 0..MaxInstalls : n > installs' => n > installs
      /\ installs' > installs
  <2>1. installs \in 0..MaxInstalls /\ MaxInstalls \in Nat
    BY InstallerAssumption DEF IInv, Stored, StoredTypeOK
  <2>2. installs < MaxInstalls /\ installs' = installs + 1
    BY <1>2
  <2> QED BY <2>1, <2>2
<1>4. Overwritten \subseteq Files
  BY WholeIs DEF Overwritten
<1>5. StoredTypeOK'
  BY <1>2, <1>3, <1>4 DEF IInv, Stored, StoredTypeOK
<1>6. Unused'
  BY <1>2, <1>3 DEF IInv, Stored, Unused
<1>7. AllSafe' /\ OwnContents' /\ RecordsSound'
  BY <1>2 DEF IInv, Stored, AllSafe, OwnContents, RecordsSound, EntriesSound,
              ToRestore, Secured
<1>8. RunTypeOK'
  BY <1>1, <1>2, <1>3
     DEF RunTypeOK, InstallSteps, IInv, Stored, StoredTypeOK
<1>9. \A f \in Files : Here'[f] = None
  <2>1. job'.run = installs'
    BY <1>1, <1>2
  <2> QED BY <1>2, <1>3, <2>1 DEF Here, IInv, Stored, Unused
<1>10. Installing'
  BY <1>1, <1>2, <1>9, WholeIs DEF Installing, AtProfile
<1>11. Uninstalling' /\ RecordsReadable'
  BY <1>1, <1>2 DEF Uninstalling, RecordsReadable, Readable
<1> QED BY <1>5, <1>6, <1>7, <1>8, <1>10, <1>11 DEF IInv, Stored, Running

LEMMA StartUninstallKeeps == IInv /\ StartUninstall => IInv'
<1> SUFFICES ASSUME IInv, StartUninstall PROVE IInv'
  OBVIOUS
<1>1. /\ Readable /\ Installed /\ disk["dll"] \in {None, Record.plugin}
      /\ job' = [action |-> "Uninstall", run |-> 0, profile |-> None,
                 left |-> DOMAIN Record.profiles]
      /\ pc' = "remove plugin"
      /\ UNCHANGED <<disk, records, backups, counters, own, loose>>
  BY DEF StartUninstall
<1>2. DOMAIN Record.profiles \subseteq Profiles
      /\ Record.plugin \in {"1.0", Plugin}
  BY <1>1, InstalledIs, RecordIs
<1>3. UNCHANGED <<installs, edits, faults>>
  BY <1>1 DEF counters
<1>4. Stored'
  BY <1>1, <1>3, StoredStays DEF IInv, Stored, StoredTypeOK
<1>5. Installed' /\ Uninstalling' /\ RecordsReadable'
  BY <1>1, <1>2 DEF Installed, Record, Uninstalling, RecordsReadable, Readable
<1> QED BY <1>1, <1>2, <1>4, <1>5, UninstallRuns DEF UninstallSteps, IInv

-----------------------------------------------------------------------------
(* The driver *)

\* What he writes is his own, or is Setup's and is then taken for it.
LEMMA OwnAfterIs ==
  ASSUME IInv, NEW file \in Files, NEW content \in {None, Cut} \cup Whole(file)
  PROVE  /\ OwnAfter(file, content) \in {None, Cut} \cup Whole(file)
         /\ file # "settings" => OwnAfter(file, content) = content
         /\ \/ OwnAfter(file, content) = content
               /\ ~(/\ file = "settings" /\ Installed /\ Record.settings # None
                    /\ content = Record.settings.installed)
            \/ \E n \in 0..MaxInstalls :
                 OwnAfter(file, content) = backups[n][file]
<1> DEFINE Again == /\ file = "settings" /\ Installed
                    /\ Record.settings # None
                    /\ content = Record.settings.installed
<1>1. CASE ~Again
  BY <1>1 DEF OwnAfter
<1>2. CASE Again
  <2>1. OwnAfter(file, content) = backups[Record.settings.backup][file]
    BY <1>2 DEF OwnAfter
  <2>2. Record.settings.backup \in 0..MaxInstalls
    BY <1>2, InstalledIs, RecordIs
  <2>3. FilesType(backups[Record.settings.backup])
    BY <2>2 DEF IInv, Stored, StoredTypeOK
  <2>4. OwnAfter(file, content) \in {None, Cut} \cup Whole(file)
    BY <2>1, <2>3, TypedContent
  <2> QED BY <1>2, <2>1, <2>2, <2>4
<1> QED BY <1>1, <1>2

LEMMA DriverEditsKeeps ==
  ASSUME IInv, NEW file \in Files, NEW content \in {None, Cut} \cup Whole(file),
         DriverEdits(file, content),
         file = "dll" => content \in {None, "other"},
         file \in Profiles =>
           content \in Versions /\ content.version = edits + 1
  PROVE  IInv'
<1> DEFINE mine == OwnAfter(file, content)
<1>1. /\ pc = "idle" /\ edits < MaxEdits /\ edits' = edits + 1
      /\ disk' = [disk EXCEPT ![file] = content]
      /\ own' = [own EXCEPT ![file] = mine]
      /\ loose' \subseteq loose
      /\ UNCHANGED <<records, backups, pc, job, installs, faults>>
  BY DEF DriverEdits
<1>2. /\ mine \in {None, Cut} \cup Whole(file)
      /\ file # "settings" => mine = content
      /\ \/ mine = content
            /\ ~(/\ file = "settings" /\ Installed /\ Record.settings # None
                 /\ content = Record.settings.installed)
         \/ \E n \in 0..MaxInstalls : mine = backups[n][file]
  BY OwnAfterIs
<1> HIDE DEF mine
<1>3. StoredTypeOK /\ FilesType(disk) /\ FilesType(own)
  BY DEF IInv, Stored, StoredTypeOK
<1>4. /\ FilesType(disk') /\ disk'[file] = content
      /\ \A f \in Files \ {file} : disk'[f] = disk[f]
  BY <1>1, <1>3, DiskIs
<1>5. /\ FilesType(own') /\ own'[file] = mine
      /\ \A f \in Files \ {file} : own'[f] = own[f]
  <2> DEFINE after == [own EXCEPT ![file] = mine]
  <2>1. /\ FilesType(after) /\ after[file] = mine
        /\ \A f \in Files \ {file} : after[f] = own[f]
    BY <1>2, <1>3, OneChanged
  <2> HIDE DEF after
  <2>2. own' = after
    BY <1>1 DEF after
  <2> QED BY <2>1, <2>2
<1>6. edits \in Nat /\ edits' \in 0..MaxEdits /\ edits' > edits
  BY <1>1, <1>3, InstallerAssumption DEF StoredTypeOK
<1>7. StoredTypeOK'
  BY <1>1, <1>3, <1>4, <1>5, <1>6 DEF StoredTypeOK
<1>8. \A f \in Files \ {file} : Secured(f)' <=> Secured(f)
  BY <1>1, <1>5 DEF Secured
<1>9. AllSafe'
  <2>1. disk'[file] = own'[file] \/ Secured(file)'
    BY <1>1, <1>2, <1>4, <1>5 DEF Secured
  <2>2. ASSUME NEW f \in Files \ {file}
        PROVE  disk'[f] = own'[f] \/ Secured(f)'
    BY <1>4, <1>5, <1>8 DEF IInv, Stored, AllSafe
  <2> QED BY <2>1, <2>2 DEF AllSafe
<1>10. OwnContents'
  <2>1. own'["dll"] \in {None, "other"}
    BY <1>2, <1>5, WholeIs DEF IInv, Stored, OwnContents
  <2>2. ASSUME NEW p \in Profiles
        PROVE  /\ own'[p] \in Versions /\ own'[p].version <= edits'
               /\ disk'[p] \in {Cut, own'[p], Unbound(own'[p])}
    <3>1. CASE p = file
      BY <1>1, <1>2, <1>4, <1>5, <1>6, <3>1, WholeIs
    <3>2. CASE p # file
      <4>1. /\ own[p] \in Versions /\ own[p].version <= edits
            /\ disk[p] \in {Cut, own[p], Unbound(own[p])} /\ p \in Files
        BY WholeIs DEF IInv, Stored, OwnContents
      <4>2. own[p].version \in Nat
        BY <4>1 DEF Versions
      <4> QED BY <1>4, <1>5, <1>6, <3>2, <4>1, <4>2
    <3> QED BY <3>1, <3>2
  <2> QED BY <2>1, <2>2 DEF OwnContents
<1>11. Unused'
  BY <1>1 DEF IInv, Stored, Unused
\* A record tells of versions older than the one the driver has just made.
<1>12. ASSUME NEW r \in {"current", "legacy"}, records[r] \notin {None, Cut}
       PROVE  EntriesSound(records[r])'
  <2>1. records[r] \in RecordType /\ EntriesSound(records[r])
    BY <1>3, <1>12 DEF IInv, Stored, RecordsSound, StoredTypeOK
  <2>2. ASSUME NEW p \in DOMAIN records[r].profiles
        PROVE  LET entry == records[r].profiles[p] IN
               /\ entry.modified.version <= edits'
               /\ entry.modified = Unbound(own'[p]) =>
                    HasBindings(own'[p]) /\ backups[entry.backup][p] = own'[p]
    <3> DEFINE entry == records[r].profiles[p]
    <3>1. /\ p \in Profiles /\ p \in Files /\ p # "settings"
          /\ entry.modified.version \in 0..MaxEdits
      BY <2>1, RecordIs, WholeIs
    <3>2. /\ entry.modified.version <= edits
          /\ entry.modified = Unbound(own[p]) =>
               HasBindings(own[p]) /\ backups[entry.backup][p] = own[p]
      BY <2>1 DEF EntriesSound
    <3>3. CASE p = file
      <4>1. own'[p] \in Versions /\ own'[p].version = edits + 1
        BY <1>2, <1>5, <3>1, <3>3
      <4>2. Unbound(own'[p]).version = edits + 1
        BY <4>1, UnboundIs
      <4> QED BY <1>6, <3>1, <3>2, <4>2
    <3>4. CASE p # file
      BY <1>5, <1>6, <3>1, <3>2, <3>4
    <3> QED BY <3>3, <3>4
  <2> QED BY <1>1, <2>2 DEF EntriesSound
<1>13. records'["current"] \notin {None, Cut} /\ ToRestore(records["current"])'
         => Secured("settings")'
  <2>1. SUFFICES ASSUME records["current"] \notin {None, Cut},
                        records["current"].installed,
                        records["current"].settings # None,
                        own'["settings"] = records["current"].settings.installed
                 PROVE  Secured("settings")'
    BY <1>1 DEF ToRestore
  <2>2. CASE file # "settings"
    <3>1. ToRestore(records["current"])
      BY <1>5, <2>1, <2>2, WholeIs DEF ToRestore
    <3> QED BY <1>8, <2>1, <2>2, <3>1, WholeIs DEF IInv, Stored, RecordsSound
  <2>3. CASE file = "settings"
    <3>1. Record = records["current"] /\ Installed
      BY <2>1 DEF Record, Installed
    <3> QED BY <1>1, <1>2, <1>5, <2>1, <2>3, <3>1 DEF Secured
  <2> QED BY <2>2, <2>3
<1>14. RecordsSound'
  BY <1>1, <1>12, <1>13 DEF IInv, Stored, RecordsSound
<1>15. Running'
  BY <1>1, IdleRuns, JobIs DEF IInv, Running
<1> QED BY <1>7, <1>9, <1>10, <1>11, <1>14, <1>15 DEF IInv, Stored

-----------------------------------------------------------------------------
(* The invariant *)

\* What the files contain before the first run of Setup.
LEMMA InitOwn ==
  ASSUME Init
  PROVE  /\ FilesType(own) /\ own["dll"] \in {None, "other"}
         /\ own["settings"] \in {None, "custom"}
         /\ \A p \in Profiles : own[p] = [version |-> 0, bound |-> TRUE]
         /\ \A p \in Profiles : own[p] \in Versions
<1>1. [version |-> 0, bound |-> TRUE] \in Versions
  BY InstallerAssumption DEF Versions
<1>2. \A p \in Profiles : p \in Files /\ p # "dll" /\ p # "settings"
  BY WholeIs
<1>3. /\ FilesType(Bare) /\ Bare["dll"] = None /\ Bare["settings"] = None
      /\ \A p \in Profiles : Bare[p] = [version |-> 0, bound |-> TRUE]
  <2>1. \A f \in Files :
          Bare[f] = IF f \in Profiles THEN [version |-> 0, bound |-> TRUE]
                    ELSE None
    BY DEF Bare
  <2>2. Bare = [f \in Files |-> Bare[f]]
    BY DEF Bare
  <2>3. "dll" \notin Profiles /\ "settings" \notin Profiles
    BY WholeIs
  <2>4. \A f \in Files : Bare[f] \in {None, Cut} \cup Whole(f)
    BY <1>1, <2>1, WholeIs
  <2> QED BY <1>2, <2>1, <2>2, <2>3, <2>4, WholeIs DEF FilesType
<1>4. CASE own = Bare
  BY <1>1, <1>3, <1>4
<1>5. CASE own = [Bare EXCEPT !["dll"] = "other", !["settings"] = "custom"]
  <2> DEFINE first == [Bare EXCEPT !["dll"] = "other"]
  <2> DEFINE second == [first EXCEPT !["settings"] = "custom"]
  <2>1. /\ FilesType(first) /\ first["dll"] = "other"
        /\ \A f \in Files \ {"dll"} : first[f] = Bare[f]
    BY <1>3, OneChanged, WholeIs
  <2> HIDE DEF first
  <2>2. /\ FilesType(second) /\ second["settings"] = "custom"
        /\ \A f \in Files \ {"settings"} : second[f] = first[f]
    BY <2>1, OneChanged, WholeIs
  <2> HIDE DEF second
  <2>3. own = second
    BY <1>5 DEF first, second
  <2>4. \A p \in Profiles : own[p] = [version |-> 0, bound |-> TRUE]
    BY <1>2, <1>3, <2>1, <2>2, <2>3
  <2>5. own["dll"] = "other"
    BY <2>1, <2>2, <2>3, WholeIs
  <2> QED BY <1>1, <2>2, <2>3, <2>4, <2>5
<1> QED BY <1>4, <1>5 DEF Init

\* The record of version 1.0, whose backups are of the directory 0.
LEMMA OldRecordIs ==
  ASSUME Init, NEW q \in Profiles
  PROVE  /\ OldRecord(q) \in RecordType /\ EntriesSound(OldRecord(q))
         /\ OldRecord(q).settings = None
<1>1. /\ 0 \in 0..MaxEdits /\ 0 \in 0..MaxInstalls
  BY InstallerAssumption
<1> DEFINE entry == [backup |-> 0,
                     modified |-> [version |-> 0, bound |-> FALSE]]
<1>2. /\ OldRecord(q).profiles = [p \in {q} |-> entry]
      /\ OldRecord(q).settings = None
      /\ OldRecord(q) =
           [installed |-> TRUE, plugin |-> "1.0", settings |-> None,
            profiles |-> [p \in {q} |-> entry]]
  BY DEF OldRecord
<1>3. entry \in Entry
  BY <1>1 DEF Entry
<1>4. OldRecord(q) \in RecordType
  BY <1>2, <1>3 DEF RecordType
<1>5. backups[0][q] = own[q]
  BY <1>1, WholeIs DEF Init
<1>6. HasBindings(own[q]) /\ edits = 0
  <2>1. own[q].bound = TRUE
    BY InitOwn
  <2> QED BY <2>1, InitOwn, UnboundIs DEF Init
<1>7. EntriesSound(OldRecord(q))
  BY <1>2, <1>5, <1>6 DEF EntriesSound
<1> QED BY <1>2, <1>4, <1>7

LEMMA Initially == Init => IInv
<1> SUFFICES ASSUME Init PROVE IInv
  OBVIOUS
<1>1. /\ FilesType(own) /\ own["dll"] \in {None, "other"}
      /\ own["settings"] \in {None, "custom"}
      /\ \A p \in Profiles : own[p] = [version |-> 0, bound |-> TRUE]
      /\ \A p \in Profiles : own[p] \in Versions
  BY InitOwn
<1>2. /\ pc = "idle" /\ job = NoJob
      /\ installs = 0 /\ edits = 0 /\ faults = 0 /\ loose = {}
      /\ backups = [n \in 0..MaxInstalls |->
                      [f \in Files |-> IF n = 0 THEN own[f] ELSE None]]
  BY DEF Init
<1>3. /\ 0 \in 0..MaxInstalls /\ 0 \in 0..MaxEdits /\ 0 \in 0..MaxFaults
  BY InstallerAssumption
<1>4. /\ \A n \in 0..MaxInstalls : FilesType(backups[n])
      /\ \A f \in Files : backups[0][f] = own[f]
      /\ \A n \in 0..MaxInstalls, f \in Files : n > 0 => backups[n][f] = None
      /\ backups = [n \in 0..MaxInstalls |-> backups[n]]
  <2>1. \A n \in 0..MaxInstalls :
          backups[n] = [f \in Files |-> IF n = 0 THEN own[f] ELSE None]
    BY <1>2
  <2>2. \A n \in 0..MaxInstalls, f \in Files :
          backups[n][f] = IF n = 0 THEN own[f] ELSE None
    BY <2>1
  <2>3. \A n \in 0..MaxInstalls :
          backups[n] = [f \in Files |-> backups[n][f]]
    BY <2>1, <2>2
  <2>4. \A n \in 0..MaxInstalls : FilesType(backups[n])
    BY <1>1, <2>2, <2>3 DEF FilesType
  <2>5. backups = [n \in 0..MaxInstalls |-> backups[n]]
    BY <1>2
  <2>6. /\ \A f \in Files : backups[0][f] = own[f]
        /\ \A n \in 0..MaxInstalls, f \in Files : n > 0 => backups[n][f] = None
    BY <1>3, <2>2
  <2> QED BY <2>4, <2>5, <2>6
<1>5. \A f \in Files : Secured(f)
  BY <1>3, <1>4 DEF Secured
<1>6. /\ FilesType(disk)
      /\ \A p \in Profiles : disk[p] \in {own[p], Unbound(own[p])}
      /\ records \in [{"current", "legacy"} -> {None, Cut} \cup RecordType]
      /\ records["current"] = None
      /\ \/ records["legacy"] = None
         \/ \E q \in Profiles : records["legacy"] = OldRecord(q)
  <2>1. CASE disk = own /\ records = [r \in {"current", "legacy"} |-> None]
    BY <1>1, <2>1
  <2>2. CASE \E p \in Profiles :
               /\ disk = [own EXCEPT !["dll"] = "1.0", ![p] = Unbound(@)]
               /\ records = [current |-> None, legacy |-> OldRecord(p)]
    <3>0. PICK p \in Profiles :
            /\ disk = [own EXCEPT !["dll"] = "1.0", ![p] = Unbound(@)]
            /\ records = [current |-> None, legacy |-> OldRecord(p)]
      BY <2>2
    <3> DEFINE first == [own EXCEPT !["dll"] = "1.0"]
    <3> DEFINE second == [first EXCEPT ![p] = Unbound(own[p])]
    <3>1. /\ FilesType(first)
          /\ \A f \in Files \ {"dll"} : first[f] = own[f]
      BY <1>1, OneChanged, WholeIs
    <3>2. p \in Files /\ p # "dll"
      BY WholeIs
    <3> HIDE DEF first
    <3>3. first[p] = own[p]
      BY <3>1, <3>2
    <3>4. Unbound(own[p]) \in Whole(p)
      <4>1. own[p] \in Versions
        BY <1>1
      <4>2. Unbound(own[p]) \in Versions
        BY <4>1, UnboundIs
      <4> QED BY <4>2, WholeIs
    <3>5. /\ FilesType(second) /\ second[p] = Unbound(own[p])
          /\ \A f \in Files \ {p} : second[f] = first[f]
      BY <3>1, <3>2, <3>4, OneChanged
    <3>6. disk = second
      BY <3>0, <3>3 DEF first, second
    <3> HIDE DEF second
    <3>7. \A r \in Profiles : disk[r] \in {own[r], Unbound(own[r])}
      BY <3>1, <3>5, <3>6, WholeIs
    <3>8. OldRecord(p) \in RecordType
      BY OldRecordIs
    <3>9. records = [current |-> None, legacy |-> OldRecord(p)]
      BY <3>0
    <3>10. /\ records \in [{"current", "legacy"} -> {None, Cut} \cup RecordType]
           /\ records["current"] = None /\ records["legacy"] = OldRecord(p)
      BY <3>8, <3>9
    <3> QED BY <3>5, <3>6, <3>7, <3>10
  <2>3. \/ disk = own /\ records = [r \in {"current", "legacy"} |-> None]
        \/ \E p \in Profiles :
             /\ disk = [own EXCEPT !["dll"] = "1.0", ![p] = Unbound(@)]
             /\ records = [current |-> None, legacy |-> OldRecord(p)]
    BY DEF Init
  <2> QED BY <2>1, <2>2, <2>3
<1>7. StoredTypeOK
  BY <1>1, <1>2, <1>3, <1>4, <1>6 DEF StoredTypeOK
<1>8. AllSafe /\ OwnContents /\ Unused
  BY <1>1, <1>2, <1>4, <1>5, <1>6 DEF AllSafe, OwnContents, Unused
<1>9. RecordsSound
  <2>1. records["legacy"] # None =>
          EntriesSound(records["legacy"]) /\ records["legacy"].settings = None
    BY <1>6, OldRecordIs
  <2> QED BY <1>6, <2>1 DEF RecordsSound
<1>10. Running
  BY <1>2 DEF Running, RunTypeOK, Installing, Uninstalling, RecordsReadable,
              NoJob
<1> QED BY <1>7, <1>8, <1>9, <1>10 DEF IInv, Stored

\* No step of Setup or of the driver breaks the invariant.
LEMMA Inductive == IInv /\ [Next]_vars => IInv'
<1> SUFFICES ASSUME IInv, [Next]_vars PROVE IInv'
  OBVIOUS
<1>1. CASE Install
  BY <1>1, BackUpSettingsKeeps, BackUpPluginKeeps, PutPluginKeeps,
     PutSettingsKeeps, BackUpProfileKeeps, EditProfileKeeps, SaveRecordKeeps,
     RetireLegacyKeeps, StartInstallKeeps DEF Install
<1>2. CASE Rollback
  BY <1>2, UndoProfileKeeps, UndoPluginKeeps, UndoSettingsKeeps DEF Rollback
<1>3. CASE Uninstall
  BY <1>3, StartUninstallKeeps, RemovePluginKeeps, RestoreSettingsKeeps,
     RestoreProfilesKeeps DEF Uninstall
<1>4. CASE DriverEditsProfile
  <2>1. PICK p \in Profiles, bound \in BOOLEAN :
          DriverEdits(p, [version |-> edits + 1, bound |-> bound])
    BY <1>4 DEF DriverEditsProfile
  <2> DEFINE content == [version |-> edits + 1, bound |-> bound]
  <2>2. edits \in 0..MaxEdits /\ edits < MaxEdits /\ MaxEdits \in Nat
    BY <2>1, InstallerAssumption DEF IInv, Stored, StoredTypeOK, DriverEdits
  <2>3. content \in Versions /\ content.version = edits + 1
    BY <2>2 DEF Versions
  <2>4. DriverEdits(p, content)
    BY <2>1
  <2> HIDE DEF content
  <2> QED BY <2>3, <2>4, WholeIs, DriverEditsKeeps
<1>5. CASE DriverEditsSettings
  BY <1>5, WholeIs, DriverEditsKeeps DEF DriverEditsSettings
<1>6. CASE DriverReplacesPlugin
  BY <1>6, WholeIs, DriverEditsKeeps DEF DriverReplacesPlugin
<1>7. CASE UNCHANGED vars
  <2>1. /\ UNCHANGED <<disk, records, backups, pc, job, own, loose>>
        /\ UNCHANGED <<installs, edits, faults>>
    BY <1>7 DEF vars, counters
  <2>2. Stored'
    BY <2>1, StoredStays DEF IInv, Stored, StoredTypeOK
  <2>3. RunTypeOK' /\ Uninstalling' /\ RecordsReadable'
    BY <2>1 DEF IInv, Running, RunTypeOK, Uninstalling, RecordsReadable,
                Readable, Installed, Record
  <2>4. Installing'
    BY <2>1 DEF IInv, Running, Installing, AtProfile, Edited, Here, Secured
  <2> QED BY <2>2, <2>3, <2>4 DEF IInv, Running
<1> QED BY <1>1, <1>2, <1>3, <1>4, <1>5, <1>6, <1>7 DEF Next, SetupRefuses

\* What the driver has is in its place or in a backup.
LEMMA NothingLostIs == IInv => NothingLost
<1> SUFFICES ASSUME IInv, NEW f \in Files
             PROVE  own[f] \in {None, disk[f]}
                               \cup {backups[n][f] : n \in DOMAIN backups}
  BY DEF NothingLost
<1>1. disk[f] = own[f] \/ Secured(f)
  BY DEF IInv, Stored, AllSafe
<1>2. DOMAIN backups = 0..MaxInstalls
  BY DEF IInv, Stored, StoredTypeOK
<1> QED BY <1>1, <1>2 DEF Secured

\* The invariant holds in every state of every sequence of runs.
LEMMA InvariantHolds == Spec => []IInv
BY Initially, Inductive, PTL DEF Spec

\* Files, backups, records and the variables of a run keep their types, however
\* many installations, edits and failures there are: the next step of a run
\* finds what it needs.
THEOREM TypeCorrect == Spec => []TypeOK
<1>1. IInv => TypeOK
  BY DEF IInv, Stored, Running, TypeOK
<1> QED BY <1>1, InvariantHolds, PTL

\* No installation, rollback or removal loses what the driver had, whichever
\* write fails and wherever Setup is killed.
THEOREM NothingIsLost == Spec => []NothingLost
BY InvariantHolds, NothingLostIs, PTL

-----------------------------------------------------------------------------
(* A rollback that ends has undone everything *)

\* A write to a file of the disk leaves the others alone.
LEMMA PutsOnly ==
  ASSUME IInv, NEW file \in Files, NEW content, NEW then,
         Puts(file, content, then)
  PROVE  /\ Went(then) /\ UNCHANGED backups
         /\ \A f \in Files \ {file} : disk'[f] = disk[f]
         /\ Ended => disk'[file] = content
<1>1. StoredTypeOK /\ RunTypeOK /\ disk = [f \in Files |-> disk[f]]
  BY DEF IInv, Stored, StoredTypeOK, FilesType, Running
<1>2. PICK written :
        /\ disk' = [disk EXCEPT ![file] = written]
        /\ \/ written = content /\ GoesOn(then)
           \/ Breaks
  BY DEF Puts
<1>3. disk'[file] = written /\ \A f \in Files \ {file} : disk'[f] = disk[f]
  BY <1>1, <1>2
<1>4. Went(then)
  BY <1>1, <1>2, GoesOnWent, BreaksWent
<1>5. Ended => written = content
  BY <1>1, <1>2, BreaksWent DEF Ended
<1>6. UNCHANGED backups
  BY DEF Puts
<1> QED BY <1>3, <1>4, <1>5, <1>6

\* A write to a backup leaves the disk and the other backups alone.
LEMMA BacksUpOnly ==
  ASSUME IInv, job.action = "Install", NEW file \in Files, NEW then,
         BacksUp(file, then)
  PROVE  /\ Went(then) /\ UNCHANGED disk
         /\ \A f \in Files \ {file} : backups'[job.run][f] = Here[f]
         /\ Ended => backups'[job.run][file] = disk[file]
<1>1. StoredTypeOK /\ RunTypeOK /\ job.run \in 0..MaxInstalls
  BY JobIs DEF IInv, Stored, StoredTypeOK, Running
<1>2. /\ backups = [n \in 0..MaxInstalls |-> backups[n]]
      /\ Here = [f \in Files |-> Here[f]]
  BY <1>1 DEF StoredTypeOK, FilesType, Here
<1>3. PICK written :
        /\ backups' = [backups EXCEPT ![job.run][file] = written]
        /\ \/ written = disk[file] /\ GoesOn(then)
           \/ Breaks
  BY DEF BacksUp
<1>4. backups'[job.run] = [Here EXCEPT ![file] = written]
  BY <1>1, <1>2, <1>3 DEF Here
<1>5. /\ backups'[job.run][file] = written
      /\ \A f \in Files \ {file} : backups'[job.run][f] = Here[f]
  BY <1>2, <1>4
<1>6. Went(then)
  BY <1>1, <1>3, GoesOnWent, BreaksWent
<1>7. Ended => written = disk[file]
  BY <1>1, <1>3, BreaksWent DEF Ended
<1> QED BY <1>5, <1>6, <1>7 DEF BacksUp

\* The profile of an installation can be told from the settings and the DLL, and
\* there is a backup of it where it may be edited.
LEMMA EditedIs ==
  ASSUME IInv, job.action = "Install"
  PROVE  /\ job.profile \in Profiles \cup {None}
         /\ AtProfile => Edited /\ job.profile \in Profiles
<1>1. job.profile \in Profiles \cup {None}
  BY JobIs DEF IInv, Running
<1>2. ASSUME AtProfile PROVE Edited /\ job.profile \in Profiles
  <2>1. /\ job.profile \in Profiles /\ job.profile # None
        /\ own[job.profile] \in Versions /\ Here[job.profile] = own[job.profile]
    BY <1>2, AtProfileIs
  <2> QED BY <2>1, UnboundIs DEF Edited
<1> QED BY <1>1, <1>2

\* A write that fails leads to the rollback with what it needs, or ends the run.
LEMMA FailureUndoable ==
  ASSUME IInv, Undoable, NEW then, Went(then), ~Ended,
         \A p \in Profiles :
           disk'[p] = disk[p] \/ (AtProfile /\ p = job.profile),
         pc \notin {"back up settings", "back up plugin"} =>
           /\ backups'[job.run]["settings"] = Here["settings"]
           /\ backups'[job.run]["dll"] = Here["dll"],
         AtProfile => UNCHANGED backups
  PROVE  Undoable'
<1>1. CASE pc' = "idle"
  BY <1>1 DEF Went, Undoable, NoJob
<1>2. CASE pc' # "idle"
  <2>1. pc' = Handler /\ Handler # "idle" /\ UNCHANGED job
    BY <1>2 DEF Ended, Went
  <2>2. /\ job.action = "Install"
        /\ pc \in {"put plugin", "put settings", "back up profile",
                   "edit profile", "save", "retire"}
        /\ \/ Handler = "undo plugin"
           \/ /\ Handler = "undo profile" /\ Edited
              /\ pc \in {"edit profile", "save", "retire"}
    BY <2>1, HandlerIs
  <2>3. /\ Here'["settings"] = job.before["settings"]
        /\ Here'["dll"] = job.before["dll"]
    BY <2>1, <2>2 DEF Undoable, Here
  <2>4. CASE pc' = "undo plugin"
    \* Had the profile been edited, the rollback would begin with it.
    <3>1. ~AtProfile
      <4>1. pc \in {"edit profile", "save", "retire"} /\ Edited =>
              Handler = "undo profile"
        BY <2>2 DEF Handler
      <4> QED BY <2>1, <2>2, <2>4, <4>1, EditedIs DEF AtProfile
    <3>2. \A p \in Profiles : disk'[p] = job.before[p]
      BY <2>2, <3>1 DEF Undoable
    <3>3. ~AtProfile'
      BY <2>4 DEF AtProfile
    <3> QED BY <2>1, <2>3, <2>4, <3>2, <3>3 DEF Undoable
  <2>5. CASE pc' = "undo profile" /\ Edited
             /\ pc \in {"edit profile", "save", "retire"}
    <3>1. AtProfile /\ AtProfile'
      BY <2>5 DEF AtProfile
    <3>2. Here'[job.profile] = job.before[job.profile]
      BY <2>1, <2>2, <3>1 DEF Undoable, Here
    <3>3. \A p \in Profiles : disk'[p] = job.before[p] \/ p = job.profile
      BY <2>2 DEF Undoable
    <3> QED BY <2>1, <2>3, <2>5, <3>1, <3>2, <3>3 DEF Undoable
  <2> QED BY <2>1, <2>2, <2>4, <2>5
<1> QED BY <1>1, <1>2

\* A failed write of the disk, when it is not of a profile.
LEMMA PutsUndoable ==
  ASSUME IInv, Undoable, NEW file \in Files, NEW content, NEW then,
         Puts(file, content, then), ~Ended,
         file \in Profiles => AtProfile /\ file = job.profile
  PROVE  Undoable'
<1>1. /\ Went(then) /\ UNCHANGED backups
      /\ \A f \in Files \ {file} : disk'[f] = disk[f]
  BY PutsOnly
<1>2. \A p \in Profiles : disk'[p] = disk[p] \/ (AtProfile /\ p = job.profile)
  BY <1>1, WholeIs
<1> QED BY <1>1, <1>2, FailureUndoable DEF Here

LEMMA BackUpSettingsUndoable ==
  ASSUME IInv, Undoable, BackUpSettings PROVE Undoable'
<1>1. /\ pc = "back up settings" /\ job.action = "Install"
      /\ BacksUp("settings", "back up plugin")
  BY JobIs DEF BackUpSettings, InstallSteps, UninstallSteps, IInv, Running
<1>2. /\ Went("back up plugin") /\ UNCHANGED disk
      /\ Ended => backups'[job.run]["settings"] = disk["settings"]
  BY <1>1, WholeIs, BacksUpOnly
<1>3. CASE ~Ended
  BY <1>1, <1>2, <1>3, FailureUndoable DEF AtProfile
<1>4. CASE Ended
  <2>1. pc' = "back up plugin" /\ UNCHANGED job
    BY <1>2, <1>4, EndedIs
  <2>2. ~AtProfile /\ ~AtProfile'
    BY <1>1, <2>1 DEF AtProfile
  <2> QED BY <1>1, <1>2, <1>4, <2>1, <2>2 DEF Undoable, Here
<1> QED BY <1>3, <1>4

LEMMA BackUpPluginUndoable ==
  ASSUME IInv, Undoable, BackUpPlugin PROVE Undoable'
<1>1. /\ pc = "back up plugin" /\ job.action = "Install"
      /\ BacksUp("dll", "put plugin")
  BY JobIs DEF BackUpPlugin, InstallSteps, UninstallSteps, IInv, Running
<1>2. /\ Went("put plugin") /\ UNCHANGED disk
      /\ \A f \in Files \ {"dll"} : backups'[job.run][f] = Here[f]
      /\ Ended => backups'[job.run]["dll"] = disk["dll"]
  BY <1>1, WholeIs, BacksUpOnly
<1>3. CASE ~Ended
  BY <1>1, <1>2, <1>3, FailureUndoable DEF AtProfile
<1>4. CASE Ended
  <2>1. pc' = "put plugin" /\ UNCHANGED job
    BY <1>2, <1>4, EndedIs
  <2>2. ~AtProfile /\ ~AtProfile'
    BY <1>1, <2>1 DEF AtProfile
  <2>3. backups'[job.run]["settings"] = job.before["settings"]
    BY <1>1, <1>2, WholeIs DEF Undoable
  <2> QED BY <1>1, <1>2, <1>4, <2>1, <2>2, <2>3 DEF Undoable, Here
<1> QED BY <1>3, <1>4

LEMMA PutPluginUndoable ==
  ASSUME IInv, Undoable, PutPlugin PROVE Undoable'
<1>1. /\ pc = "put plugin" /\ job.action = "Install"
      /\ Puts("dll", Plugin, "put settings")
  BY JobIs DEF PutPlugin, InstallSteps, UninstallSteps, IInv, Running
<1>2. /\ Went("put settings") /\ UNCHANGED backups
      /\ \A f \in Files \ {"dll"} : disk'[f] = disk[f]
  BY <1>1, WholeIs, PutsOnly
<1>3. CASE ~Ended
  BY <1>1, <1>3, WholeIs, PutsUndoable
<1>4. CASE Ended
  <2>1. pc' = "put settings" /\ UNCHANGED job
    BY <1>2, <1>4, EndedIs
  <2>2. ~AtProfile /\ ~AtProfile'
    BY <1>1, <2>1 DEF AtProfile
  <2>3. \A p \in Profiles : disk'[p] = job.before[p]
    BY <1>1, <1>2, <2>2, WholeIs DEF Undoable
  <2> QED BY <1>1, <1>2, <2>1, <2>2, <2>3 DEF Undoable, Here
<1> QED BY <1>3, <1>4

LEMMA PutSettingsUndoable ==
  ASSUME IInv, Undoable, PutSettings PROVE Undoable'
<1> DEFINE then == IF job.profile # None /\ HasBindings(disk[job.profile])
                   THEN "back up profile" ELSE "save"
<1>1. pc = "put settings" /\ job.action = "Install"
  BY JobIs DEF PutSettings, InstallSteps, UninstallSteps, IInv, Running
<1>2. Puts("settings", job.unit, then) /\ then \in {"back up profile", "save"}
  BY DEF PutSettings
<1> HIDE DEF then
<1>3. /\ Went(then) /\ UNCHANGED backups
      /\ \A f \in Files \ {"settings"} : disk'[f] = disk[f]
  BY <1>2, WholeIs, PutsOnly
<1>4. CASE ~Ended
  BY <1>2, <1>4, WholeIs, PutsUndoable
<1>5. CASE Ended
  <2>1. pc' = then /\ UNCHANGED job
    BY <1>3, <1>5, EndedIs
  <2>2. ~AtProfile
    BY <1>1 DEF AtProfile
  \* Nothing is backed up of the profile yet.
  <2>3. ~AtProfile'
    <3>1. job.profile \in Profiles => Here[job.profile] = None
      BY <1>1 DEF IInv, Running, Installing
    <3>2. ~Edited
      BY <1>1, <3>1, EditedIs DEF Edited
    <3>3. ~Edited'
      BY <1>3, <2>1, <3>2 DEF Edited, Here
    <3> QED BY <1>2, <2>1, <3>3 DEF AtProfile
  <2>4. \A p \in Profiles : disk'[p] = job.before[p]
    BY <1>1, <1>3, <2>2, WholeIs DEF Undoable
  <2> QED BY <1>1, <1>2, <1>3, <2>1, <2>3, <2>4 DEF Undoable, Here
<1> QED BY <1>4, <1>5

LEMMA BackUpProfileUndoable ==
  ASSUME IInv, Undoable, BackUpProfile PROVE Undoable'
<1> DEFINE p == job.profile
<1>1. /\ pc = "back up profile" /\ job.action = "Install"
      /\ BacksUp(p, "edit profile")
  BY JobIs DEF BackUpProfile, InstallSteps, UninstallSteps, IInv, Running
<1>2. p \in Profiles /\ p \in Files /\ p # "settings" /\ p # "dll"
  <2>1. p # None
    BY <1>1 DEF IInv, Running, RunTypeOK, UninstallSteps
  <2> QED BY <1>1, <2>1, EditedIs, WholeIs
<1> HIDE DEF p
<1>3. /\ Went("edit profile") /\ UNCHANGED disk
      /\ \A f \in Files \ {p} : backups'[job.run][f] = Here[f]
      /\ Ended => backups'[job.run][p] = disk[p]
  BY <1>1, <1>2, BacksUpOnly
<1>4. /\ backups'[job.run]["settings"] = Here["settings"]
      /\ backups'[job.run]["dll"] = Here["dll"]
  BY <1>2, <1>3, WholeIs
<1>5. ~AtProfile
  BY <1>1 DEF AtProfile
<1>6. CASE ~Ended
  BY <1>1, <1>3, <1>4, <1>5, <1>6, FailureUndoable
<1>7. CASE Ended
  <2>1. pc' = "edit profile" /\ UNCHANGED job
    BY <1>3, <1>7, EndedIs
  <2>2. \A q \in Profiles : disk[q] = job.before[q]
    BY <1>1, <1>5 DEF Undoable
  <2>3. backups'[job.run][p] = job.before[p]
    BY <1>2, <1>3, <1>7, <2>2
  <2> QED BY <1>1, <1>3, <1>4, <2>1, <2>2, <2>3 DEF Undoable, Here, p
<1> QED BY <1>6, <1>7

LEMMA EditProfileUndoable ==
  ASSUME IInv, Undoable, EditProfile PROVE Undoable'
<1> DEFINE p == job.profile
<1>1. /\ pc = "edit profile" /\ job.action = "Install"
      /\ Puts(p, Unbound(disk[p]), "save")
  BY JobIs DEF EditProfile, InstallSteps, UninstallSteps, IInv, Running
<1>2. AtProfile /\ Edited /\ p \in Profiles /\ p \in Files
  BY <1>1, EditedIs, WholeIs DEF AtProfile
<1>3. /\ Went("save") /\ UNCHANGED backups
      /\ \A f \in Files \ {p} : disk'[f] = disk[f]
  BY <1>1, <1>2, PutsOnly
<1>4. CASE ~Ended
  BY <1>1, <1>2, <1>4, PutsUndoable
<1>5. CASE Ended
  <2>1. pc' = "save" /\ UNCHANGED job
    BY <1>3, <1>5, EndedIs
  <2>2. AtProfile'
    BY <1>2, <1>3, <2>1 DEF AtProfile, Edited, Here
  <2>3. \A q \in Profiles : disk'[q] = job.before[q] \/ q = p
    BY <1>1, <1>3, WholeIs DEF Undoable
  <2> QED BY <1>1, <1>2, <1>3, <2>1, <2>2, <2>3 DEF Undoable, Here
<1> QED BY <1>4, <1>5

\* The records are not what a rollback goes by.
LEMMA WritesUndoable ==
  ASSUME IInv, Undoable, job.action = "Install", pc \in {"save", "retire"},
         NEW name, NEW value, NEW then \in {"retire", "idle"},
         Writes(name, value, then)
  PROVE  Undoable'
<1>1. UNCHANGED <<disk, backups>>
  BY DEF Writes
<1>2. Went(then)
  <2>1. StoredTypeOK /\ RunTypeOK
    BY DEF IInv, Stored, Running
  <2> QED BY <2>1, GoesOnWent, BreaksWent DEF Writes
<1>3. CASE ~Ended
  BY <1>1, <1>2, <1>3, FailureUndoable DEF Here
<1>4. CASE Ended
  <2>1. pc' = "retire" /\ UNCHANGED job
    BY <1>2, <1>4, EndedIs DEF Ended
  <2>2. AtProfile <=> AtProfile'
    BY <1>1, <2>1 DEF AtProfile, Edited, Here
  <2> QED BY <1>1, <2>1, <2>2 DEF Undoable, Here
<1> QED BY <1>3, <1>4

LEMMA SaveRecordUndoable ==
  ASSUME IInv, Undoable, SaveRecord \/ RetireLegacy PROVE Undoable'
<1>1. pc \in {"save", "retire"}
  BY DEF SaveRecord, RetireLegacy
<1>2. CASE job.action = "Install"
  BY <1>1, <1>2, WritesUndoable DEF SaveRecord, RetireLegacy
<1>3. CASE job.action # "Install"
  <2>1. job' \in {job, NoJob}
    BY DEF SaveRecord, RetireLegacy, Writes, GoesOn, Breaks
  <2>2. job'.action # "Install"
    BY <1>3, <2>1 DEF NoJob
  <2> QED BY <2>2 DEF Undoable
<1> QED BY <1>2, <1>3

LEMMA UndoProfileUndoable ==
  ASSUME IInv, Undoable, UndoProfile PROVE Undoable'
<1> DEFINE p == job.profile
<1>1. /\ pc = "undo profile" /\ job.action = "Install"
      /\ Puts(p, Here[p], "undo plugin")
  BY JobIs DEF UndoProfile, InstallSteps, UninstallSteps, IInv, Running
<1>2. AtProfile /\ p \in Profiles /\ p \in Files
  BY <1>1, EditedIs, WholeIs DEF AtProfile
<1> HIDE DEF p
<1>3. /\ Went("undo plugin") /\ UNCHANGED backups
      /\ \A f \in Files \ {p} : disk'[f] = disk[f]
      /\ Ended => disk'[p] = Here[p]
  BY <1>1, <1>2, PutsOnly
<1>4. CASE ~Ended
  BY <1>1, <1>2, <1>4, PutsUndoable DEF p
<1>5. CASE Ended
  <2>1. pc' = "undo plugin" /\ UNCHANGED job
    BY <1>3, <1>5, EndedIs
  <2>2. \A q \in Profiles : disk'[q] = job.before[q]
    BY <1>1, <1>2, <1>3, <1>5, WholeIs DEF Undoable, p
  <2> QED BY <1>1, <1>3, <2>1, <2>2 DEF Undoable, Here, AtProfile
<1> QED BY <1>4, <1>5

LEMMA UndoPluginUndoable ==
  ASSUME IInv, Undoable, UndoPlugin PROVE Undoable'
<1>1. /\ pc = "undo plugin" /\ job.action = "Install"
      /\ Puts("dll", Here["dll"], "undo settings")
  BY JobIs DEF UndoPlugin, InstallSteps, UninstallSteps, IInv, Running
<1>2. /\ Went("undo settings") /\ UNCHANGED backups
      /\ \A f \in Files \ {"dll"} : disk'[f] = disk[f]
      /\ Ended => disk'["dll"] = Here["dll"]
  BY <1>1, WholeIs, PutsOnly
<1>3. CASE ~Ended
  BY <1>1, <1>3, WholeIs, PutsUndoable
<1>4. CASE Ended
  <2>1. pc' = "undo settings" /\ UNCHANGED job
    BY <1>2, <1>4, EndedIs
  <2>2. ~AtProfile /\ ~AtProfile'
    BY <1>1, <2>1 DEF AtProfile
  <2>3. \A p \in Profiles : disk'[p] = job.before[p]
    BY <1>1, <1>2, <2>2, WholeIs DEF Undoable
  <2> QED BY <1>1, <1>2, <1>4, <2>1, <2>2, <2>3 DEF Undoable, Here
<1> QED BY <1>3, <1>4

\* Whatever becomes of the last write of a rollback, the run is over.
LEMMA UndoSettingsUndoable ==
  ASSUME IInv, Undoable, UndoSettings PROVE Undoable'
<1>1. Handler = "idle"
  BY DEF UndoSettings, Handler
<1>2. job' = NoJob
  BY <1>1 DEF UndoSettings, Puts, GoesOn, Breaks
<1> QED BY <1>2 DEF Undoable, NoJob

LEMMA StartInstallUndoable ==
  ASSUME IInv, Undoable, StartInstall PROVE Undoable'
<1>1. PICK profile \in Profiles \cup {None}, unit \in Units :
        job' = [action |-> "Install", run |-> installs + 1,
                profile |-> profile, unit |-> unit, before |-> disk]
  BY DEF StartInstall
<1>2. pc' = "back up settings" /\ UNCHANGED disk /\ job'.before = disk
  BY <1>1 DEF StartInstall
<1> QED BY <1>2 DEF Undoable, AtProfile

\* A removal and the driver do not run in an installation.
LEMMA OthersUndoable ==
  ASSUME Undoable, IInv,
         \/ Uninstall
         \/ DriverEditsProfile \/ DriverEditsSettings \/ DriverReplacesPlugin
  PROVE  Undoable'
<1>1. CASE Uninstall
  <2>1. CASE StartUninstall
    BY <2>1 DEF StartUninstall, Undoable
  <2>2. ASSUME RemovePlugin \/ RestoreSettings \/ RestoreProfiles
        PROVE  job'.action # "Install"
    <3>1. job.action = "Uninstall" /\ job \in
            [action : {"Uninstall"}, run : {0}, profile : {None},
             left : SUBSET Profiles]
      BY <2>2, JobIs DEF RemovePlugin, RestoreSettings, RestoreProfiles,
                         InstallSteps, UninstallSteps, IInv, Running
    <3>2. \/ job' \in {job, NoJob}
          \/ \E p \in Profiles : job' = [job EXCEPT !.left = @ \ {p}]
      BY <2>2, <3>1 DEF RemovePlugin, RestoreSettings, RestoreProfiles, Puts,
                        GoesOn, Breaks
    <3> QED BY <3>1, <3>2 DEF NoJob
  <2> QED BY <1>1, <2>1, <2>2 DEF Uninstall, Undoable
<1>2. ASSUME DriverEditsProfile \/ DriverEditsSettings \/ DriverReplacesPlugin
      PROVE  job' = NoJob
  BY <1>2, JobIs DEF DriverEditsProfile, DriverEditsSettings,
                     DriverReplacesPlugin, DriverEdits, IInv, Running
<1>3. NoJob.action # "Install"
  BY DEF NoJob
<1> QED BY <1>1, <1>2, <1>3 DEF Undoable

LEMMA UndoableInductive == IInv /\ Undoable /\ [Next]_vars => Undoable'
<1> SUFFICES ASSUME IInv, Undoable, [Next]_vars PROVE Undoable'
  OBVIOUS
<1>1. CASE Install
  BY <1>1, BackUpSettingsUndoable, BackUpPluginUndoable, PutPluginUndoable,
     PutSettingsUndoable, BackUpProfileUndoable, EditProfileUndoable,
     SaveRecordUndoable, StartInstallUndoable DEF Install
<1>2. CASE Rollback
  BY <1>2, UndoProfileUndoable, UndoPluginUndoable, UndoSettingsUndoable
     DEF Rollback
<1>3. CASE UNCHANGED vars
  BY <1>3 DEF vars, Undoable, AtProfile, Edited, Here
<1> QED BY <1>1, <1>2, <1>3, OthersUndoable DEF Next, SetupRefuses

\* The last write of a rollback completes it.
LEMMA UndoesAll ==
  ASSUME IInv, Undoable, UndoSettings, UNCHANGED faults, NEW f \in Files
  PROVE  disk'[f] = job.before[f]
<1>1. pc = "undo settings" /\ job.action = "Install"
  BY JobIs DEF UndoSettings, InstallSteps, UninstallSteps, IInv, Running
<1>2. ~Breaks
  BY InstallerAssumption DEF Breaks, IInv, Stored, StoredTypeOK
<1>3. /\ disk' = [disk EXCEPT !["settings"] = Here["settings"]]
      /\ disk = [g \in Files |-> disk[g]]
  BY <1>2 DEF UndoSettings, Puts, IInv, Stored, StoredTypeOK, FilesType
<1>4. /\ disk'["settings"] = Here["settings"]
      /\ \A g \in Files \ {"settings"} : disk'[g] = disk[g]
  BY <1>3, WholeIs
<1>5. ~AtProfile
  BY <1>1 DEF AtProfile
<1> QED BY <1>1, <1>4, <1>5, WholeIs DEF Undoable, Files

\* An installation that fails at any of its writes and can undo its work leaves
\* every file of the game and of the driver as it was before, however many runs
\* there were and whatever they left.
THEOREM RollbackIsComplete == Spec => RollsBack
<1> DEFINE Complete ==
      pc = "undo settings" /\ pc' = "idle" /\ faults' = faults
        => \A f \in Files : disk'[f] = job.before[f]
<1>1. Init => Undoable
  BY DEF Init, Undoable, NoJob
<1>2. IInv /\ Undoable /\ [Next]_vars => [Complete]_vars
  <2> SUFFICES ASSUME IInv, Undoable, Next, pc = "undo settings",
                      pc' = "idle", faults' = faults
               PROVE  \A f \in Files : disk'[f] = job.before[f]
    BY DEF Complete
  <2>1. UndoSettings
    BY DEF Next, Install, Rollback, Uninstall, StartInstall, BackUpSettings,
           BackUpPlugin, PutPlugin, PutSettings, BackUpProfile, EditProfile,
           SaveRecord, RetireLegacy, UndoProfile, UndoPlugin, StartUninstall,
           RemovePlugin, RestoreSettings, RestoreProfiles, DriverEditsProfile,
           DriverEditsSettings, DriverReplacesPlugin, DriverEdits, SetupRefuses
  <2> QED BY <2>1, UndoesAll
<1>3. Spec => []Undoable
  BY <1>1, UndoableInductive, InvariantHolds, PTL DEF Spec
<1> QED BY <1>2, <1>3, InvariantHolds, PTL DEF Spec, RollsBack, Complete

-----------------------------------------------------------------------------
(* Once nothing is installed, the driver has his own files again *)

LEMMA RecordStays ==
  ASSUME UNCHANGED records
  PROVE  /\ Record' = Record /\ Installed' = Installed
         /\ Readable' = Readable /\ RecordsSettings' = RecordsSettings
BY DEF Record, Installed, Readable, RecordsSettings

LEMMA CoveredStays ==
  ASSUME UNCHANGED <<records, own>>, NEW p, disk'[p] = disk[p], Covered(p)
  PROVE  Covered(p)'
BY RecordStays DEF Covered

\* The backup of the settings that the record names keeps them.
BackupStays ==
  RecordsSettings => backups'[Record.settings.backup]["settings"]
                       = backups[Record.settings.backup]["settings"]

LEMMA SettingsStay ==
  ASSUME UNCHANGED <<records, own>>, Standing' = Standing, BackupStays,
         Unrecorded' => Unrecorded, loose \subseteq loose', SettingsCovered
  PROVE  SettingsCovered'
<1>1. Record' = Record /\ RecordsSettings' = RecordsSettings
  BY RecordStays
<1>2. RecordsSettings => SettingsSaved' = SettingsSaved
  BY <1>1 DEF BackupStays, SettingsSaved
<1> QED BY <1>1, <1>2 DEF SettingsCovered

\* Between two runs.
LEMMA IdleRestorable ==
  ASSUME pc' = "idle", job' = NoJob, BackupKept',
         Readable' =>
           /\ \A p \in Profiles \ loose' : Covered(p)'
           /\ "settings" \notin loose' =>
                IF RecordsSettings'
                   /\ disk'["settings"] = Record'.settings.installed
                THEN SettingsSaved' ELSE disk'["settings"] = own'["settings"]
  PROVE  Restorable'
<1>1. ~Unrecorded' /\ Standing' = disk'["settings"]
  BY DEF Unrecorded, Standing, NoJob
<1>2. InstallOrder' /\ Removed'
  BY DEF InstallOrder, Removed, NoJob
<1> QED BY <1>1, <1>2 DEF Restorable, ProfilesCovered, SettingsCovered

\* The backup that is kept is one of an earlier run.
LEMMA BackupKeptStays ==
  ASSUME UNCHANGED <<records, installs>>, pc' # "back up settings", BackupKept
  PROVE  BackupKept'
BY DEF BackupKept

\* What a write to the disk, or to the run's backup, leaves as it is.
LEMMA PutsIs ==
  ASSUME IInv, NEW file \in Files, NEW content, NEW then,
         Puts(file, content, then)
  PROVE  /\ UNCHANGED <<records, backups>> /\ BackupStays
         /\ \A f \in Files \ {file} : disk'[f] = disk[f]
         /\ \/ GoesOn(then) /\ disk'[file] = content
            \/ Breaks /\ disk'[file] \in {disk[file], Cut}
<1>1. disk = [f \in Files |-> disk[f]]
  BY DEF IInv, Stored, StoredTypeOK, FilesType
<1>2. PICK written :
        /\ disk' = [disk EXCEPT ![file] = written]
        /\ \/ written = content /\ GoesOn(then)
           \/ written \in {disk[file], Cut} /\ Breaks
  BY DEF Puts, Left
<1>3. disk'[file] = written /\ \A f \in Files \ {file} : disk'[f] = disk[f]
  BY <1>1, <1>2
<1> QED BY <1>2, <1>3 DEF Puts, BackupStays

LEMMA EarlierIs == \A m, n \in 0..MaxInstalls : m < n => m # n
BY InstallerAssumption

LEMMA BacksUpIs ==
  ASSUME IInv, Restorable, job.action = "Install", NEW file \in Files,
         NEW then, BacksUp(file, then),
         file = "settings" => pc = "back up settings"
  PROVE  /\ UNCHANGED <<disk, records>> /\ BackupStays
         /\ GoesOn(then) \/ Breaks
<1>1. StoredTypeOK /\ job.run \in 0..MaxInstalls /\ job.run = installs
  BY JobIs DEF IInv, Stored, StoredTypeOK, Running
<1>2. PICK written : backups' = [backups EXCEPT ![job.run][file] = written]
  BY DEF BacksUp
<1>3. /\ backups = [n \in 0..MaxInstalls |-> backups[n]]
      /\ Here = [f \in Files |-> Here[f]]
  BY <1>1 DEF StoredTypeOK, FilesType, Here
<1>4. backups' = [backups EXCEPT ![job.run] = [Here EXCEPT ![file] = written]]
  BY <1>2 DEF Here
<1>5. \A n \in 0..MaxInstalls : n # job.run => backups'[n] = backups[n]
  BY <1>3, <1>4
<1>6. backups'[job.run] = [Here EXCEPT ![file] = written]
  BY <1>1, <1>3, <1>4
<1>7. file # "settings" => backups'[job.run]["settings"] = Here["settings"]
  BY <1>3, <1>6, WholeIs
<1>8. ASSUME RecordsSettings
      PROVE  /\ Record.settings.backup \in 0..MaxInstalls
             /\ file = "settings" => Record.settings.backup # job.run
  <2>1. Record \in RecordType /\ Record = records["current"]
    BY <1>8, InstalledIs DEF RecordsSettings
  <2>2. Record.settings.backup \in 0..MaxInstalls
    BY <1>8, <2>1, RecordIs DEF RecordsSettings
  <2>3. file = "settings" => Record.settings.backup < installs
    BY <1>8, <2>1, RecordIs DEF RecordsSettings, Restorable, BackupKept
  <2>4. \A m, n \in 0..MaxInstalls : m < n => m # n
    BY EarlierIs
  <2>5. installs \in 0..MaxInstalls
    BY <1>1
  <2>6. Record.settings.backup < installs =>
          Record.settings.backup # installs
    BY <2>2, <2>4, <2>5, Zenon
  <2> QED BY <1>1, <2>2, <2>3, <2>6, Zenon
<1>9. BackupStays
  BY <1>5, <1>7, <1>8 DEF BackupStays, Here
<1> QED BY <1>9 DEF BacksUp

\* An installation goes on and does not touch a record.
LEMMA InstallGoesOn ==
  ASSUME IInv, Restorable, Readable, Unrecorded, BackupStays,
         UNCHANGED <<job, records, own, installs, loose>>,
         pc' \notin {"idle", "back up settings", "retire"},
         pc' \in {"back up plugin", "put plugin"} =>
           disk'["settings"] = job.before["settings"],
         \A p \in Profiles :
           \/ AtProfile' /\ p = job.profile
           \/ disk'[p] = own[p]
           \/ disk'[p] = disk[p] /\ (AtProfile => p # job.profile)
  PROVE  Restorable'
<1>1. Unrecorded' /\ Standing' = Standing
  BY DEF Unrecorded, Standing
<1>2. BackupKept' /\ SettingsCovered'
  BY <1>1, SettingsStay, BackupKeptStays DEF Restorable
<1>3. ProfilesCovered'
  <2> SUFFICES ASSUME NEW p \in Profiles \ loose,
                      ~(AtProfile' /\ p = job.profile)
               PROVE  Covered(p)'
    BY <1>1 DEF ProfilesCovered
  <2>1. CASE disk'[p] = own[p]
    BY <2>1 DEF Covered
  <2>2. CASE disk'[p] = disk[p] /\ (AtProfile => p # job.profile)
    <3>1. Covered(p)
      BY <2>2 DEF Restorable, ProfilesCovered
    <3> QED BY <2>2, <3>1, CoveredStays
  <2> QED BY <2>1, <2>2
<1>4. InstallOrder'
  BY DEF InstallOrder, Unrecorded
<1>5. Removed'
  BY DEF Removed, Unrecorded
<1> QED BY <1>2, <1>3, <1>4, <1>5 DEF Restorable

\* A write of an installation fails, and it is over.
LEMMA InstallDies ==
  ASSUME IInv, Undoable, Restorable, Readable, job.action = "Install",
         BackupStays, Breaks, UNCHANGED records, pc' = "idle",
         \A p \in Profiles :
           \/ disk'[p] = disk[p]
           \/ Unrecorded /\ AtProfile /\ p = job.profile,
         pc \in {"back up settings", "back up plugin", "put plugin", "retire"}
           => disk'["settings"] = disk["settings"]
  PROVE  Restorable'
<1>1. /\ job' = NoJob /\ loose' = loose \cup Abandoned
                                        \cup {f \in Files : disk'[f] = Cut}
      /\ UNCHANGED <<installs, own>>
  BY DEF Breaks
<1>2. BackupKept'
  BY <1>1, BackupKeptStays DEF Restorable
<1>3. pc \in InstallSteps
  BY JobIs DEF IInv, Running
<1>4. ASSUME NEW p \in Profiles \ loose'
      PROVE  Covered(p)'
  <2>1. ~(Unrecorded /\ AtProfile /\ p = job.profile)
    <3>1. ASSUME Unrecorded, AtProfile PROVE job.profile \in Abandoned
      <4>1. pc \in {"edit profile", "undo profile", "save"} /\ Edited
        BY <3>1, EditedIs DEF AtProfile, Unrecorded
      <4> QED BY <4>1 DEF Abandoned
    <3> QED BY <1>1, <3>1
  <2>2. Covered(p) /\ disk'[p] = disk[p]
    BY <1>1, <2>1 DEF Restorable, ProfilesCovered
  <2> QED BY <1>1, <2>2, CoveredStays
<1>5. ASSUME "settings" \notin loose'
      PROVE  /\ "settings" \notin loose /\ disk'["settings"] = Standing
  <2>1. pc \in {"back up settings", "back up plugin", "put plugin", "retire"}
    BY <1>1, <1>3, <1>5 DEF Abandoned, InstallSteps
  <2>2. pc # "retire" => disk["settings"] = job.before["settings"]
    BY <2>1 DEF Restorable, InstallOrder
  <2> QED BY <1>1, <1>5, <2>1, <2>2 DEF Standing, Unrecorded
<1>6. /\ Record' = Record /\ RecordsSettings' = RecordsSettings
      /\ RecordsSettings => SettingsSaved' = SettingsSaved
  BY <1>1, RecordStays DEF BackupStays, SettingsSaved
<1>7. "settings" \notin loose' =>
        IF RecordsSettings' /\ disk'["settings"] = Record'.settings.installed
        THEN SettingsSaved' ELSE disk'["settings"] = own'["settings"]
  BY <1>1, <1>5, <1>6 DEF Restorable, SettingsCovered
<1> QED BY <1>1, <1>2, <1>4, <1>7, IdleRestorable

\* A write of an installation fails, and leads to the rollback.
LEMMA InstallRollsBack ==
  ASSUME IInv, Restorable, Readable, job.action = "Install",
         BackupStays, Breaks, UNCHANGED records, pc' # "idle",
         \A p \in Profiles :
           \/ disk'[p] = disk[p]
           \/ Unrecorded /\ AtProfile /\ p = job.profile,
         AtProfile => UNCHANGED backups
  PROVE  Restorable'
<1>1. /\ pc' = Handler /\ Handler # "idle"
      /\ UNCHANGED <<job, installs, own>>
      /\ loose' = IF pc = "retire" THEN loose \cup {"settings"} ELSE loose
  BY DEF Breaks
<1>2. /\ pc \in {"put plugin", "put settings", "back up profile",
                 "edit profile", "save", "retire"}
      /\ \/ Handler = "undo plugin"
         \/ /\ Handler = "undo profile" /\ Edited
            /\ pc \in {"edit profile", "save", "retire"}
  BY <1>1, HandlerIs
<1>3. AtProfile => AtProfile'
  <2>1. AtProfile => Handler = "undo profile"
    BY <1>2, EditedIs DEF AtProfile, Handler
  <2> QED BY <1>1, <2>1 DEF AtProfile
<1>4. CASE pc # "retire"
  <2>1. Unrecorded
    BY <1>4 DEF Unrecorded
  <2>2. \A p \in Profiles :
          \/ AtProfile' /\ p = job.profile
          \/ disk'[p] = own[p]
          \/ disk'[p] = disk[p] /\ (AtProfile => p # job.profile)
    BY <1>3
  <2> QED BY <1>1, <1>2, <1>4, <2>1, <2>2, InstallGoesOn
\* The record is written, but the settings may not be put back as it says.
<1>5. CASE pc = "retire"
  <2>1. BackupKept'
    BY <1>1, <1>2, BackupKeptStays DEF Restorable
  <2>2. SettingsCovered'
    BY <1>1, <1>5 DEF SettingsCovered
  <2>3. ASSUME NEW p \in Profiles \ loose' PROVE Covered(p)'
    <3>1. Covered(p) /\ disk'[p] = disk[p]
      BY <1>1, <1>5 DEF Restorable, ProfilesCovered, Unrecorded
    <3> QED BY <1>1, <3>1, CoveredStays
  <2>4. ProfilesCovered'
    BY <2>3 DEF ProfilesCovered
  <2>5. InstallOrder' /\ Removed'
    BY <1>1, <1>2 DEF InstallOrder, Removed
  <2> QED BY <2>1, <2>2, <2>4, <2>5 DEF Restorable
<1> QED BY <1>4, <1>5

LEMMA InstallBreaks ==
  ASSUME IInv, Undoable, Restorable, Readable, job.action = "Install",
         BackupStays, Breaks, UNCHANGED records,
         \A p \in Profiles :
           \/ disk'[p] = disk[p]
           \/ Unrecorded /\ AtProfile /\ p = job.profile,
         pc \in {"back up settings", "back up plugin", "put plugin", "retire"}
           => disk'["settings"] = disk["settings"],
         AtProfile => UNCHANGED backups
  PROVE  Restorable'
BY InstallDies, InstallRollsBack

\* Nothing is claimed of a rollback when a record cannot be read any more.
LEMMA UnreadableIs ==
  ASSUME Restorable, ~Readable, UNCHANGED <<records, installs>>,
         pc' \notin {"back up settings", "back up plugin", "put plugin",
                     "retire"}
  PROVE  Restorable'
<1>1. ~Readable'
  BY RecordStays
<1>2. BackupKept'
  BY BackupKeptStays DEF Restorable
<1>3. InstallOrder'
  BY DEF InstallOrder
<1> QED BY <1>1, <1>2, <1>3 DEF Restorable

LEMMA BackUpSettingsRestorable ==
  ASSUME IInv, Undoable, Restorable, BackUpSettings PROVE Restorable'
<1>1. /\ pc = "back up settings" /\ job.action = "Install" /\ Readable
      /\ BacksUp("settings", "back up plugin")
  BY JobIs DEF BackUpSettings, InstallSteps, UninstallSteps, IInv, Running,
               RecordsReadable
<1>2. /\ UNCHANGED <<disk, records>> /\ BackupStays
      /\ GoesOn("back up plugin") \/ Breaks
  BY <1>1, BacksUpIs, WholeIs
<1>3. ~AtProfile /\ Unrecorded
  BY <1>1 DEF AtProfile, Unrecorded
<1>4. CASE GoesOn("back up plugin")
  BY <1>1, <1>2, <1>3, <1>4, InstallGoesOn DEF GoesOn, Restorable, InstallOrder
<1>5. CASE Breaks
  BY <1>1, <1>2, <1>3, <1>5, InstallBreaks
<1> QED BY <1>2, <1>4, <1>5

LEMMA BackUpPluginRestorable ==
  ASSUME IInv, Undoable, Restorable, BackUpPlugin PROVE Restorable'
<1>1. /\ pc = "back up plugin" /\ job.action = "Install" /\ Readable
      /\ BacksUp("dll", "put plugin")
  BY JobIs DEF BackUpPlugin, InstallSteps, UninstallSteps, IInv, Running,
               RecordsReadable
<1>2. /\ UNCHANGED <<disk, records>> /\ BackupStays
      /\ GoesOn("put plugin") \/ Breaks
  BY <1>1, BacksUpIs, WholeIs
<1>3. ~AtProfile /\ Unrecorded
  BY <1>1 DEF AtProfile, Unrecorded
<1>4. CASE GoesOn("put plugin")
  BY <1>1, <1>2, <1>3, <1>4, InstallGoesOn DEF GoesOn, Restorable, InstallOrder
<1>5. CASE Breaks
  BY <1>1, <1>2, <1>3, <1>5, InstallBreaks
<1> QED BY <1>2, <1>4, <1>5

LEMMA PutPluginRestorable ==
  ASSUME IInv, Undoable, Restorable, PutPlugin PROVE Restorable'
<1>1. /\ pc = "put plugin" /\ job.action = "Install" /\ Readable
      /\ Puts("dll", Plugin, "put settings")
  BY JobIs DEF PutPlugin, InstallSteps, UninstallSteps, IInv, Running,
               RecordsReadable
<1>2. /\ UNCHANGED <<records, backups>> /\ BackupStays
      /\ \A f \in Files \ {"dll"} : disk'[f] = disk[f]
      /\ GoesOn("put settings") \/ Breaks
  BY <1>1, PutsIs, WholeIs
<1>3. /\ ~AtProfile /\ Unrecorded /\ disk'["settings"] = disk["settings"]
      /\ \A p \in Profiles : disk'[p] = disk[p]
  BY <1>1, <1>2, WholeIs DEF AtProfile, Unrecorded
<1>4. CASE GoesOn("put settings")
  BY <1>1, <1>2, <1>3, <1>4, InstallGoesOn DEF GoesOn
<1>5. CASE Breaks
  BY <1>1, <1>2, <1>3, <1>5, InstallBreaks
<1> QED BY <1>2, <1>4, <1>5

LEMMA PutSettingsRestorable ==
  ASSUME IInv, Undoable, Restorable, PutSettings PROVE Restorable'
<1> DEFINE then == IF job.profile # None /\ HasBindings(disk[job.profile])
                   THEN "back up profile" ELSE "save"
<1>1. pc = "put settings" /\ job.action = "Install" /\ Readable
  BY JobIs DEF PutSettings, InstallSteps, UninstallSteps, IInv, Running,
               RecordsReadable
<1>2. Puts("settings", job.unit, then) /\ then \in {"back up profile", "save"}
  BY DEF PutSettings
<1> HIDE DEF then
<1>3. /\ UNCHANGED <<records, backups>> /\ BackupStays
      /\ \A f \in Files \ {"settings"} : disk'[f] = disk[f]
      /\ GoesOn(then) \/ Breaks
  BY <1>2, PutsIs, WholeIs
<1>4. /\ ~AtProfile /\ Unrecorded
      /\ \A p \in Profiles : disk'[p] = disk[p]
  BY <1>1, <1>3, WholeIs DEF AtProfile, Unrecorded
<1>5. CASE GoesOn(then)
  BY <1>1, <1>2, <1>3, <1>4, <1>5, InstallGoesOn DEF GoesOn
<1>6. CASE Breaks
  BY <1>1, <1>3, <1>4, <1>6, InstallBreaks
<1> QED BY <1>3, <1>5, <1>6

LEMMA BackUpProfileRestorable ==
  ASSUME IInv, Undoable, Restorable, BackUpProfile PROVE Restorable'
<1> DEFINE q == job.profile
<1>1. /\ pc = "back up profile" /\ job.action = "Install" /\ Readable
      /\ BacksUp(q, "edit profile")
  BY JobIs DEF BackUpProfile, InstallSteps, UninstallSteps, IInv, Running,
               RecordsReadable
<1>2. q \in Files /\ q # "settings"
  <2>1. q # None
    BY <1>1 DEF IInv, Running, RunTypeOK, UninstallSteps
  <2> QED BY <1>1, <2>1, EditedIs, WholeIs
<1> HIDE DEF q
<1>3. /\ UNCHANGED <<disk, records>> /\ BackupStays
      /\ GoesOn("edit profile") \/ Breaks
  BY <1>1, <1>2, BacksUpIs
<1>4. ~AtProfile /\ Unrecorded
  BY <1>1 DEF AtProfile, Unrecorded
<1>5. CASE GoesOn("edit profile")
  BY <1>1, <1>3, <1>4, <1>5, InstallGoesOn DEF GoesOn
<1>6. CASE Breaks
  BY <1>1, <1>3, <1>4, <1>6, InstallBreaks
<1> QED BY <1>3, <1>5, <1>6

LEMMA EditProfileRestorable ==
  ASSUME IInv, Undoable, Restorable, EditProfile PROVE Restorable'
<1> DEFINE q == job.profile
<1>1. /\ pc = "edit profile" /\ job.action = "Install" /\ Readable
      /\ Puts(q, Unbound(disk[q]), "save")
  BY JobIs DEF EditProfile, InstallSteps, UninstallSteps, IInv, Running,
               RecordsReadable
<1>2. AtProfile /\ Edited /\ q \in Files /\ Unrecorded
  BY <1>1, EditedIs, WholeIs DEF AtProfile, Unrecorded
<1>3. /\ UNCHANGED <<records, backups>> /\ BackupStays
      /\ \A f \in Files \ {q} : disk'[f] = disk[f]
      /\ GoesOn("save") \/ Breaks
  BY <1>1, <1>2, PutsIs
<1>4. \A p \in Profiles : disk'[p] = disk[p] \/ p = q
  BY <1>3, WholeIs
<1>5. CASE GoesOn("save")
  <2>1. pc' = "save" /\ UNCHANGED <<job, installs, own, loose>>
    BY <1>5 DEF GoesOn
  <2>2. AtProfile'
    BY <1>2, <1>3, <2>1 DEF AtProfile, Edited, Here
  <2> QED BY <1>1, <1>2, <1>3, <1>4, <2>1, <2>2, InstallGoesOn
<1>6. CASE Breaks
  BY <1>1, <1>2, <1>3, <1>4, <1>6, InstallBreaks
<1> QED BY <1>3, <1>5, <1>6

LEMMA UndoProfileRestorable ==
  ASSUME IInv, Undoable, Restorable, UndoProfile PROVE Restorable'
<1> DEFINE q == job.profile
<1>1. /\ pc = "undo profile" /\ job.action = "Install"
      /\ Puts(q, Here[q], "undo plugin")
  BY JobIs DEF UndoProfile, InstallSteps, UninstallSteps, IInv, Running
<1>2. /\ AtProfile /\ Unrecorded /\ Handler = "idle" /\ q \in Profiles
      /\ Here[q] = own[q] /\ q \in Files
  BY <1>1, AtProfileIs, WholeIs DEF AtProfile, Unrecorded, Handler
<1> HIDE DEF q
<1>3. /\ UNCHANGED <<records, backups>> /\ BackupStays
      /\ \A f \in Files \ {q} : disk'[f] = disk[f]
      /\ \/ GoesOn("undo plugin") /\ disk'[q] = own[q]
         \/ Breaks
  BY <1>1, <1>2, PutsIs
<1>4. \A p \in Profiles : disk'[p] = disk[p] \/ p = q
  BY <1>3, WholeIs
<1>5. CASE GoesOn("undo plugin") /\ disk'[q] = own[q]
  <2>1. pc' = "undo plugin" /\ UNCHANGED <<job, installs, own, loose>>
    BY <1>5 DEF GoesOn
  <2>2. CASE Readable
    BY <1>2, <1>3, <1>4, <1>5, <2>1, <2>2, InstallGoesOn DEF q
  <2>3. CASE ~Readable
    BY <1>3, <2>1, <2>3, UnreadableIs
  <2> QED BY <2>2, <2>3
<1>6. CASE Breaks
  <2>1. pc' = "idle" /\ UNCHANGED installs
    BY <1>2, <1>6 DEF Breaks
  <2>2. CASE Readable
    BY <1>1, <1>2, <1>3, <1>4, <1>6, <2>2, InstallBreaks DEF q
  <2>3. CASE ~Readable
    BY <1>3, <2>1, <2>3, UnreadableIs
  <2> QED BY <2>2, <2>3
<1> QED BY <1>3, <1>5, <1>6

LEMMA UndoPluginRestorable ==
  ASSUME IInv, Undoable, Restorable, UndoPlugin PROVE Restorable'
<1>1. /\ pc = "undo plugin" /\ job.action = "Install"
      /\ Puts("dll", Here["dll"], "undo settings")
  BY JobIs DEF UndoPlugin, InstallSteps, UninstallSteps, IInv, Running
<1>2. ~AtProfile /\ Unrecorded /\ Handler = "idle"
  BY <1>1 DEF AtProfile, Unrecorded, Handler
<1>3. /\ UNCHANGED <<records, backups>> /\ BackupStays
      /\ \A f \in Files \ {"dll"} : disk'[f] = disk[f]
      /\ GoesOn("undo settings") \/ Breaks
  BY <1>1, PutsIs, WholeIs
<1>4. \A p \in Profiles : disk'[p] = disk[p]
  BY <1>3, WholeIs
<1>5. CASE GoesOn("undo settings")
  <2>1. pc' = "undo settings" /\ UNCHANGED <<job, installs, own, loose>>
    BY <1>5 DEF GoesOn
  <2>2. CASE Readable
    BY <1>2, <1>3, <1>4, <2>1, <2>2, InstallGoesOn
  <2>3. CASE ~Readable
    BY <1>3, <2>1, <2>3, UnreadableIs
  <2> QED BY <2>2, <2>3
<1>6. CASE Breaks
  <2>1. pc' = "idle" /\ UNCHANGED installs
    BY <1>2, <1>6 DEF Breaks
  <2>2. CASE Readable
    BY <1>1, <1>2, <1>3, <1>4, <1>6, <2>2, InstallBreaks
  <2>3. CASE ~Readable
    BY <1>3, <2>1, <2>3, UnreadableIs
  <2> QED BY <2>2, <2>3
<1> QED BY <1>3, <1>5, <1>6

LEMMA UndoSettingsRestorable ==
  ASSUME IInv, Undoable, Restorable, UndoSettings PROVE Restorable'
<1>1. /\ pc = "undo settings" /\ job.action = "Install"
      /\ Puts("settings", Here["settings"], "idle")
  BY JobIs DEF UndoSettings, InstallSteps, UninstallSteps, IInv, Running
<1>2. ~AtProfile /\ Unrecorded /\ Handler = "idle"
  BY <1>1 DEF AtProfile, Unrecorded, Handler
<1>3. /\ UNCHANGED <<records, backups>> /\ BackupStays
      /\ \A f \in Files \ {"settings"} : disk'[f] = disk[f]
      /\ \/ GoesOn("idle") /\ disk'["settings"] = Here["settings"]
         \/ Breaks
  BY <1>1, PutsIs, WholeIs
<1>4. \A p \in Profiles : disk'[p] = disk[p]
  BY <1>3, WholeIs
<1>5. pc' = "idle" /\ UNCHANGED installs
  BY <1>2, <1>3 DEF GoesOn, Breaks
<1>6. CASE ~Readable
  BY <1>3, <1>5, <1>6, UnreadableIs
<1>7. CASE Readable /\ GoesOn("idle") /\ disk'["settings"] = Here["settings"]
  <2>1. job' = NoJob /\ UNCHANGED <<installs, own, loose>>
    BY <1>7 DEF GoesOn
  <2>2. BackupKept'
    BY <1>3, <1>5, BackupKeptStays DEF Restorable
  <2>3. ASSUME NEW p \in Profiles \ loose PROVE Covered(p)'
    <3>1. Covered(p)
      BY <1>2, <1>7 DEF Restorable, ProfilesCovered
    <3> QED BY <1>3, <1>4, <2>1, <3>1, CoveredStays
  <2>4. disk'["settings"] = Standing
    BY <1>1, <1>2, <1>7 DEF Standing, Undoable
  <2>5. /\ Record' = Record /\ RecordsSettings' = RecordsSettings
        /\ RecordsSettings => SettingsSaved' = SettingsSaved
    BY <1>3, <2>1, RecordStays DEF BackupStays, SettingsSaved
  <2>6. "settings" \notin loose' =>
          IF RecordsSettings' /\ disk'["settings"] = Record'.settings.installed
          THEN SettingsSaved' ELSE disk'["settings"] = own'["settings"]
    BY <1>7, <2>1, <2>4, <2>5 DEF Restorable, SettingsCovered
  <2> QED BY <1>5, <2>1, <2>2, <2>3, <2>6, IdleRestorable
<1>8. CASE Readable /\ Breaks
  BY <1>1, <1>2, <1>3, <1>4, <1>8, InstallBreaks
<1> QED BY <1>3, <1>6, <1>7, <1>8

\* A removal ends with a write that fails: what it cut short is known.
LEMMA RemovalBreaks ==
  ASSUME IInv, Restorable, Readable, job.action = "Uninstall",
         Breaks, UNCHANGED <<records, backups>>,
         \A f \in Files : disk'[f] \in {disk[f], Cut}
  PROVE  Restorable'
<1>1. /\ pc' = "idle" /\ job' = NoJob /\ UNCHANGED <<installs, own>>
      /\ loose \cup {f \in Files : disk'[f] = Cut} \subseteq loose'
  BY DEF Breaks, Handler
<1>2. BackupKept'
  BY <1>1, BackupKeptStays DEF Restorable
<1>3. ~Unrecorded /\ Standing = disk["settings"]
  BY DEF Unrecorded, Standing
<1>4. \A f \in Files \ loose' : disk'[f] = disk[f]
  BY <1>1
<1>5. ASSUME NEW p \in Profiles \ loose' PROVE Covered(p)'
  <2>1. Covered(p) /\ disk'[p] = disk[p]
    BY <1>1, <1>3, <1>4, WholeIs DEF Restorable, ProfilesCovered
  <2> QED BY <1>1, <2>1, CoveredStays
<1>6. /\ Record' = Record /\ RecordsSettings' = RecordsSettings
      /\ SettingsSaved' = SettingsSaved
  BY <1>1, RecordStays DEF SettingsSaved
<1>7. "settings" \notin loose' =>
        IF RecordsSettings' /\ disk'["settings"] = Record'.settings.installed
        THEN SettingsSaved' ELSE disk'["settings"] = own'["settings"]
  BY <1>1, <1>3, <1>4, <1>6, WholeIs DEF Restorable, SettingsCovered
<1> QED BY <1>1, <1>2, <1>5, <1>7, IdleRestorable

\* What a write of a record leaves as it is.
LEMMA WritesIs ==
  ASSUME IInv, NEW name \in {"current", "legacy"}, NEW value, NEW then,
         Writes(name, value, then)
  PROVE  /\ UNCHANGED <<disk, backups>>
         /\ \A r \in {"current", "legacy"} \ {name} : records'[r] = records[r]
         /\ \/ GoesOn(then) /\ records'[name] = value
            \/ Breaks /\ records'[name] = Cut
            \/ Breaks /\ records' = records
<1>1. DOMAIN records = {"current", "legacy"}
      /\ records = [r \in {"current", "legacy"} |-> records[r]]
  BY DEF IInv, Stored, StoredTypeOK
<1>2. PICK written :
        /\ records' = [records EXCEPT ![name] = written]
        /\ \/ written = value /\ GoesOn(then)
           \/ written \in {records[name], Cut} /\ Breaks
  BY DEF Writes, Left
<1>3. /\ records'[name] = written
      /\ \A r \in {"current", "legacy"} \ {name} : records'[r] = records[r]
      /\ written = records[name] => records' = records
  BY <1>1, <1>2
<1> QED BY <1>2, <1>3 DEF Writes

\* A record that was not written to its end cannot be read.
LEMMA WriteBreaks ==
  ASSUME IInv, Undoable, Restorable, Readable, Breaks,
         pc \in {"save", "retire"}, UNCHANGED <<disk, backups>>,
         NEW name \in {"current", "legacy"},
         \A r \in {"current", "legacy"} \ {name} : records'[r] = records[r],
         records'[name] = Cut \/ records' = records
  PROVE  Restorable'
<1>1. CASE records' = records
  <2>1. job.action \in {"Install", "Uninstall"} /\ BackupStays
    BY <1>1, JobIs DEF BackupStays, IInv, Running
  <2>2. CASE job.action = "Install"
    BY <1>1, <2>1, <2>2, InstallBreaks
  <2>3. CASE job.action = "Uninstall"
    BY <1>1, <2>3, RemovalBreaks
  <2> QED BY <2>1, <2>2, <2>3
<1>2. CASE records'[name] = Cut
  <2>1. ~Readable'
    BY <1>2 DEF Readable
  <2>2. /\ pc' \notin {"back up settings", "back up plugin", "put plugin",
                       "retire"}
        /\ UNCHANGED installs
    <3>1. pc' \in {Handler, "idle"} /\ UNCHANGED installs
      BY DEF Breaks
    <3> QED BY <3>1, HandlerIs
  <2>3. records'["current"] \in {records["current"], Cut}
    BY <1>2
  <2>4. BackupKept'
    BY <2>2, <2>3 DEF Restorable, BackupKept
  <2>5. InstallOrder'
    BY <2>2 DEF InstallOrder
  <2> QED BY <2>1, <2>4, <2>5 DEF Restorable
<1> QED BY <1>1, <1>2

\* An installation that is recorded: the record names, for each file that it
\* has changed, a backup with what is the driver's.
LEMMA RecordedRestorable ==
  ASSUME IInv, Undoable, Restorable, Readable, job.action = "Install",
         pc = "save", NEW then \in {"idle", "retire"}, GoesOn(then),
         UNCHANGED <<disk, backups>>, records'["current"] = NewRecord
  PROVE  Restorable'
<1>1. /\ pc' = then /\ UNCHANGED <<installs, own, loose>>
      /\ job' = IF then = "idle" THEN NoJob ELSE job
  BY DEF GoesOn
<1>2. /\ NewRecord # None /\ NewRecord # Cut /\ NewRecord.installed
      /\ NewRecord.settings = SavedSettings /\ SavedSettings # None
      /\ NewRecord.profiles = SavedProfiles
  <2>1. NewRecord \in RecordType
    BY NewRecordIs
  <2>2. /\ NewRecord.installed /\ NewRecord.settings = SavedSettings
        /\ NewRecord.profiles = SavedProfiles
    BY DEF NewRecord
  <2>3. SavedSettings # None
    <3>1. job.run \in 0..MaxInstalls /\ disk["settings"] \in Units
      BY JobIs DEF IInv, Running, Installing, Stored, StoredTypeOK
    <3>2. Installed /\ Record.settings # None =>
            Record.settings.backup \in 0..MaxInstalls
      BY InstalledIs, RecordIs
    <3>3. SavedSettings \in [backup : 0..MaxInstalls, installed : Units]
      BY <3>1, <3>2 DEF SavedSettings
    <3> QED BY <3>3, ContentsAssumption
  <2> QED BY <2>1, <2>2, <2>3, RecordIs
<1>3. /\ Record' = NewRecord /\ Installed' /\ RecordsSettings'
  BY <1>2 DEF Record, Installed, RecordsSettings
<1>4. ~Unrecorded' /\ Standing' = disk["settings"] /\ Unrecorded
  BY <1>1 DEF Unrecorded, Standing, NoJob
<1>5. BackupKept'
  <2>1. job.run = installs /\ installs <= installs
    BY JobIs, InstallerAssumption DEF IInv, Running, Stored, StoredTypeOK
  <2>2. RecordsSettings => Record.settings.backup <= installs
    <3>1. RecordsSettings =>
            Record = records["current"] /\ Record \in RecordType
      BY InstalledIs DEF RecordsSettings
    <3> QED BY <3>1, RecordIs DEF RecordsSettings, Restorable, BackupKept
  <2>3. SavedSettings.backup <= installs
    BY <2>1, <2>2 DEF SavedSettings, RecordsSettings
  <2> QED BY <1>1, <1>2, <2>3 DEF BackupKept
<1>6. InstallOrder' /\ Removed'
  BY <1>1, <1>2 DEF InstallOrder, Removed, NoJob
<1>7. SettingsCovered'
  <2> SUFFICES ASSUME "settings" \notin loose
               PROVE  SettingsSaved'
    BY <1>1, <1>2, <1>3, <1>4 DEF SettingsCovered, SavedSettings
  <2>1. CASE RecordsSettings
    <3>1. SavedSettings.backup = Record.settings.backup
      BY <2>1 DEF SavedSettings, RecordsSettings
    <3>2. SettingsSaved
      BY <1>4, <2>1 DEF Restorable, SettingsCovered
    <3> QED BY <1>1, <1>2, <1>3, <3>1, <3>2 DEF SettingsSaved
  <2>2. CASE ~RecordsSettings
    <3>1. SavedSettings.backup = job.run
      BY <2>2 DEF SavedSettings, RecordsSettings
    <3>2. Here["settings"] = Standing
      BY <1>4 DEF Undoable, Standing
    <3>3. Standing = own["settings"]
      BY <2>2 DEF Restorable, SettingsCovered
    <3> QED BY <1>1, <1>2, <1>3, <3>1, <3>2, <3>3 DEF SettingsSaved, Here
  <2> QED BY <2>1, <2>2
<1>8. ASSUME NEW p \in Profiles \ loose PROVE Covered(p)'
  <2>1. \/ disk[p] = own[p]
        \/ p \in DOMAIN SavedProfiles /\ disk[p] = SavedProfiles[p].modified
    <3>1. CASE Edited /\ p = job.profile
      BY <3>1 DEF SavedProfiles
    <3>2. CASE ~(Edited /\ p = job.profile)
      <4>1. Covered(p)
        BY <3>2 DEF Restorable, ProfilesCovered, AtProfile
      <4>2. Installed /\ p \in DOMAIN Record.profiles =>
              /\ p \in DOMAIN SavedProfiles
              /\ SavedProfiles[p] = Record.profiles[p]
        BY <3>2 DEF SavedProfiles, KeptProfiles
      <4> QED BY <4>1, <4>2 DEF Covered
    <3> QED BY <3>1, <3>2
  <2> QED BY <1>1, <1>2, <1>3, <2>1 DEF Covered
<1>9. ProfilesCovered'
  BY <1>1, <1>8 DEF ProfilesCovered
<1> QED BY <1>5, <1>6, <1>7, <1>9 DEF Restorable

\* A removal that is recorded has given everything back.
LEMMA RemovedRestorable ==
  ASSUME IInv, Restorable, Readable, job.action = "Uninstall",
         pc = "save", NEW then \in {"idle", "retire"}, GoesOn(then),
         UNCHANGED <<disk, backups>>, records'["current"] = NewRecord
  PROVE  Restorable'
<1>1. /\ pc' = then /\ UNCHANGED <<installs, own, loose>>
      /\ job' = IF then = "idle" THEN NoJob ELSE job
  BY DEF GoesOn
<1>2. Installed /\ Record \in RecordType
  BY InstalledIs DEF IInv, Running, RunTypeOK, NoJob
<1>3. /\ NewRecord # None /\ NewRecord # Cut /\ ~NewRecord.installed
      /\ NewRecord.settings = Record.settings
  <2>1. NewRecord = [Record EXCEPT !.installed = FALSE]
    BY DEF NewRecord
  <2>2. NewRecord \in RecordType /\ ~NewRecord.installed
        /\ NewRecord.settings = Record.settings
    BY <1>2, <2>1 DEF RecordType
  <2> QED BY <2>2, RecordIs
<1>4. ~Installed' /\ ~RecordsSettings' /\ ~Unrecorded'
      /\ Standing' = disk["settings"]
  BY <1>1, <1>3 DEF Record, Installed, RecordsSettings, Unrecorded, Standing,
                    NoJob
<1>5. BackupKept'
  <2>1. Record.settings # None => Record = records["current"]
    BY <1>2, InstalledIs
  <2>2. Record.settings # None => Record.settings.backup <= installs
    BY <1>2, <2>1, RecordIs DEF Restorable, BackupKept
  <2> QED BY <1>1, <1>3, <2>2 DEF BackupKept
<1>6. /\ \A p \in Profiles \ loose : disk[p] = own[p]
      /\ "settings" \notin loose => disk["settings"] = own["settings"]
  BY DEF Restorable, Removed
<1>7. SettingsCovered' /\ ProfilesCovered'
  BY <1>1, <1>4, <1>6 DEF SettingsCovered, ProfilesCovered, Covered
<1>8. InstallOrder' /\ Removed'
  BY <1>1, <1>3, <1>6 DEF InstallOrder, Removed, NoJob
<1> QED BY <1>5, <1>7, <1>8 DEF Restorable

LEMMA SaveRecordRestorable ==
  ASSUME IInv, Undoable, Restorable, SaveRecord PROVE Restorable'
<1> DEFINE then == IF records["legacy"] = None THEN "idle" ELSE "retire"
<1>1. /\ pc = "save" /\ Readable /\ job.action \in {"Install", "Uninstall"}
      /\ Writes("current", NewRecord, then) /\ then \in {"idle", "retire"}
  BY JobIs DEF SaveRecord, IInv, Running, RecordsReadable
<1> HIDE DEF then
<1>2. /\ UNCHANGED <<disk, backups>>
      /\ \A r \in {"current", "legacy"} \ {"current"} :
           records'[r] = records[r]
      /\ \/ GoesOn(then) /\ records'["current"] = NewRecord
         \/ Breaks /\ records'["current"] = Cut
         \/ Breaks /\ records' = records
  BY <1>1, WritesIs
<1>3. CASE GoesOn(then) /\ records'["current"] = NewRecord
  BY <1>1, <1>2, <1>3, RecordedRestorable, RemovedRestorable
<1>4. CASE Breaks /\ (records'["current"] = Cut \/ records' = records)
  BY <1>1, <1>2, <1>4, WriteBreaks
<1> QED BY <1>2, <1>3, <1>4

\* The record of version 1.0 is not read any more once there is a newer one.
LEMMA RetireLegacyRestorable ==
  ASSUME IInv, Undoable, Restorable, RetireLegacy PROVE Restorable'
<1> DEFINE retired == [records["legacy"] EXCEPT !.installed = FALSE]
<1>1. /\ pc = "retire" /\ Readable /\ records["current"] # None
      /\ Writes("legacy", retired, "idle")
  BY DEF RetireLegacy, IInv, Running, RecordsReadable, Restorable,
         InstallOrder
<1>2. /\ UNCHANGED <<disk, backups>>
      /\ \A r \in {"current", "legacy"} \ {"legacy"} : records'[r] = records[r]
      /\ \/ GoesOn("idle")
         \/ Breaks /\ records'["legacy"] = Cut
         \/ Breaks /\ records' = records
  BY <1>1, WritesIs
<1>3. CASE GoesOn("idle")
  <2>1. /\ pc' = "idle" /\ job' = NoJob /\ UNCHANGED <<installs, own, loose>>
    BY <1>3 DEF GoesOn
  <2>2. /\ Record' = Record /\ Installed' = Installed
        /\ RecordsSettings' = RecordsSettings
        /\ records'["current"] = records["current"]
    BY <1>1, <1>2 DEF Record, Installed, RecordsSettings
  <2>3. BackupKept'
    BY <2>1, <2>2 DEF Restorable, BackupKept
  <2>4. ~Unrecorded /\ Standing = disk["settings"]
    BY <1>1 DEF Unrecorded, Standing
  <2>5. \A p \in Profiles \ loose : Covered(p)'
    BY <1>1, <1>2, <2>1, <2>2, <2>4 DEF Restorable, ProfilesCovered, Covered
  <2>6. "settings" \notin loose' =>
          IF RecordsSettings' /\ disk'["settings"] = Record'.settings.installed
          THEN SettingsSaved' ELSE disk'["settings"] = own'["settings"]
    BY <1>1, <1>2, <2>1, <2>2, <2>4
       DEF Restorable, SettingsCovered, SettingsSaved
  <2> QED BY <2>1, <2>3, <2>5, <2>6, IdleRestorable
<1>4. CASE Breaks /\ (records'["legacy"] = Cut \/ records' = records)
  BY <1>1, <1>2, <1>4, WriteBreaks
<1> QED BY <1>2, <1>3, <1>4

\* What is found between two runs.
LEMMA IdleIs ==
  ASSUME IInv, Restorable, Readable, pc = "idle"
  PROVE  /\ job = NoJob /\ ~Unrecorded
         /\ \A p \in Profiles \ loose : Covered(p)
         /\ "settings" \notin loose =>
              IF RecordsSettings /\ disk["settings"] = Record.settings.installed
              THEN SettingsSaved ELSE disk["settings"] = own["settings"]
<1>1. job = NoJob
  BY JobIs DEF IInv, Running
<1>2. ~Unrecorded /\ Standing = disk["settings"]
  BY <1>1 DEF Unrecorded, Standing, NoJob
<1> QED BY <1>1, <1>2 DEF Restorable, ProfilesCovered, SettingsCovered

LEMMA StartInstallRestorable ==
  ASSUME IInv, Restorable, StartInstall PROVE Restorable'
<1>1. PICK profile \in Profiles \cup {None}, unit \in Units :
        job' = [action |-> "Install", run |-> installs + 1,
                profile |-> profile, unit |-> unit, before |-> disk]
  BY DEF StartInstall
<1>2. /\ pc = "idle" /\ Readable /\ installs' = installs + 1
      /\ pc' = "back up settings" /\ loose' = loose \cup Overwritten
      /\ UNCHANGED <<disk, records, backups, edits, faults, own>>
  BY DEF StartInstall
<1>3. Unrecorded' /\ Standing' = disk["settings"]
  BY <1>1, <1>2 DEF Unrecorded, Standing
<1>4. /\ \A p \in Profiles \ loose : Covered(p)
      /\ "settings" \notin loose =>
           IF RecordsSettings /\ disk["settings"] = Record.settings.installed
           THEN SettingsSaved ELSE disk["settings"] = own["settings"]
  BY <1>2, IdleIs
<1>5. /\ Record' = Record /\ RecordsSettings' = RecordsSettings
      /\ SettingsSaved' = SettingsSaved
  BY <1>2, RecordStays DEF SettingsSaved
<1>6. BackupKept'
  <2>1. records["current"] \notin {None, Cut} =>
          records["current"] \in RecordType
    BY DEF IInv, Stored, StoredTypeOK
  <2>2. \A n \in 0..MaxInstalls : n <= installs => n < installs + 1
    BY InstallerAssumption DEF IInv, Stored, StoredTypeOK
  <2>3. records["current"] \notin {None, Cut}
        /\ records["current"].settings # None =>
          /\ records["current"].settings.backup \in 0..MaxInstalls
          /\ records["current"].settings.backup <= installs
    BY <2>1, RecordIs DEF Restorable, BackupKept
  <2>4. \A n \in 0..MaxInstalls : n <= installs => n <= installs + 1
    BY InstallerAssumption DEF IInv, Stored, StoredTypeOK
  <2> QED BY <1>2, <2>2, <2>3, <2>4 DEF BackupKept
<1>7. ProfilesCovered'
  BY <1>2, <1>4, CoveredStays DEF ProfilesCovered
\* Settings that the installation overwrites are in the record's backup.
<1>8. SettingsCovered'
  <2>1. RecordsSettings /\ "settings" \notin loose' => SettingsSaved
    BY <1>2, <1>4 DEF Overwritten, RecordsSettings, SettingsSaved
  <2> QED BY <1>2, <1>3, <1>4, <1>5, <2>1 DEF SettingsCovered
<1>9. InstallOrder' /\ Removed'
  BY <1>1, <1>2 DEF InstallOrder, Removed
<1> QED BY <1>6, <1>7, <1>8, <1>9 DEF Restorable

-----------------------------------------------------------------------------
(* Removal, and the driver *)

\* A removal that goes on: the files it has not restored are as they were.
LEMMA RemovalGoesOn ==
  ASSUME Restorable, Readable, job.action = "Uninstall",
         job'.action = "Uninstall", UNCHANGED <<records, backups, own,
         installs, loose>>,
         pc' \in {"restore settings", "restore profiles", "save"},
         disk'["settings"] = disk["settings"]
           \/ ("settings" \notin loose =>
                 disk'["settings"] = own["settings"]
                 /\ (RecordsSettings /\ own["settings"]
                       = Record.settings.installed => SettingsSaved)),
         \A p \in Profiles \ loose : disk'[p] \in {disk[p], own[p]},
         Removed'
  PROVE  Restorable'
<1>1. ~Unrecorded /\ ~Unrecorded'
      /\ Standing = disk["settings"] /\ Standing' = disk'["settings"]
  BY DEF Unrecorded, Standing
<1>2. /\ Record' = Record /\ RecordsSettings' = RecordsSettings
      /\ SettingsSaved' = SettingsSaved
  BY RecordStays DEF SettingsSaved
<1>3. BackupKept' /\ InstallOrder'
  BY BackupKeptStays DEF Restorable, InstallOrder
<1>4. SettingsCovered'
  BY <1>1, <1>2 DEF Restorable, SettingsCovered
<1>5. ASSUME NEW p \in Profiles \ loose PROVE Covered(p)'
  <2>1. Covered(p) /\ disk'[p] \in {disk[p], own[p]}
    BY <1>1 DEF Restorable, ProfilesCovered
  <2>2. CASE disk'[p] = own[p]
    BY <2>2 DEF Covered
  <2>3. CASE disk'[p] = disk[p]
    BY <2>1, <2>3, CoveredStays
  <2> QED BY <2>1, <2>2, <2>3
<1> QED BY <1>3, <1>4, <1>5 DEF Restorable, ProfilesCovered

LEMMA StartUninstallRestorable ==
  ASSUME IInv, Restorable, StartUninstall PROVE Restorable'
<1>1. /\ pc = "idle" /\ Readable /\ Installed
      /\ job' = [action |-> "Uninstall", run |-> 0, profile |-> None,
                 left |-> DOMAIN Record.profiles]
      /\ pc' = "remove plugin"
      /\ UNCHANGED <<disk, records, backups, installs, own, loose>>
  BY DEF StartUninstall, counters
<1>2. /\ \A p \in Profiles \ loose : Covered(p)
      /\ "settings" \notin loose =>
           IF RecordsSettings /\ disk["settings"] = Record.settings.installed
           THEN SettingsSaved ELSE disk["settings"] = own["settings"]
  BY <1>1, IdleIs
<1>3. ~Unrecorded' /\ Standing' = disk["settings"]
  BY <1>1 DEF Unrecorded, Standing
<1>4. /\ Record' = Record /\ RecordsSettings' = RecordsSettings
      /\ SettingsSaved' = SettingsSaved
  BY <1>1, RecordStays DEF SettingsSaved
<1>5. BackupKept' /\ InstallOrder'
  BY <1>1, BackupKeptStays DEF Restorable, InstallOrder
<1>6. ProfilesCovered' /\ SettingsCovered'
  BY <1>1, <1>2, <1>3, <1>4, CoveredStays
     DEF ProfilesCovered, SettingsCovered
<1>7. Removed'
  BY <1>1, <1>2 DEF Removed, Covered
<1> QED BY <1>5, <1>6, <1>7 DEF Restorable

LEMMA RemovePluginRestorable ==
  ASSUME IInv, Restorable, RemovePlugin PROVE Restorable'
<1>1. pc = "remove plugin" /\ Puts("dll", None, "restore settings")
  BY DEF RemovePlugin
<1>2. job.action = "Uninstall" /\ Readable
  BY <1>1, RemovalIs
<1>3. /\ UNCHANGED <<records, backups>>
      /\ \A f \in Files \ {"dll"} : disk'[f] = disk[f]
      /\ \/ GoesOn("restore settings")
         \/ Breaks /\ disk'["dll"] \in {disk["dll"], Cut}
  BY <1>1, PutsIs, WholeIs
<1>4. /\ disk'["settings"] = disk["settings"]
      /\ \A p \in Profiles : disk'[p] = disk[p]
  BY <1>3, WholeIs
<1>5. CASE GoesOn("restore settings")
  <2>1. pc' = "restore settings" /\ UNCHANGED <<job, installs, own, loose>>
    BY <1>5 DEF GoesOn
  <2>2. Removed'
    BY <1>1, <1>2, <1>4, <2>1 DEF Restorable, Removed
  <2> QED BY <1>2, <1>3, <1>4, <2>1, <2>2, RemovalGoesOn
<1>6. CASE Breaks /\ disk'["dll"] \in {disk["dll"], Cut}
  BY <1>2, <1>3, <1>6, RemovalBreaks
<1> QED BY <1>3, <1>5, <1>6

LEMMA RestoreSettingsRestorable ==
  ASSUME IInv, Restorable, RestoreSettings PROVE Restorable'
<1> DEFINE content == IF /\ Record.settings # None
                         /\ disk["settings"] = Record.settings.installed
                      THEN backups[Record.settings.backup]["settings"]
                      ELSE disk["settings"]
<1>1. /\ pc = "restore settings"
      /\ Puts("settings", content, "restore profiles")
  BY DEF RestoreSettings
<1>2. job.action = "Uninstall" /\ Readable /\ Installed
  BY <1>1, RemovalIs
<1>3. "settings" \notin loose =>
        /\ content = own["settings"]
        /\ RecordsSettings /\ own["settings"] = Record.settings.installed
             => SettingsSaved
  <2>1. Standing = disk["settings"] /\ (RecordsSettings <=>
                                          Record.settings # None)
    BY <1>2 DEF Standing, Unrecorded, RecordsSettings
  <2> QED BY <1>2, <2>1 DEF Restorable, SettingsCovered, SettingsSaved
<1> HIDE DEF content
<1>4. /\ UNCHANGED <<records, backups>>
      /\ \A f \in Files \ {"settings"} : disk'[f] = disk[f]
      /\ \/ GoesOn("restore profiles") /\ disk'["settings"] = content
         \/ Breaks /\ disk'["settings"] \in {disk["settings"], Cut}
  BY <1>1, PutsIs, WholeIs
<1>5. \A p \in Profiles : disk'[p] = disk[p]
  BY <1>4, WholeIs
<1>6. CASE GoesOn("restore profiles") /\ disk'["settings"] = content
  <2>1. pc' = "restore profiles" /\ UNCHANGED <<job, installs, own, loose>>
    BY <1>6 DEF GoesOn
  <2>2. Removed'
    BY <1>1, <1>2, <1>3, <1>5, <1>6, <2>1 DEF Restorable, Removed
  <2> QED BY <1>2, <1>3, <1>4, <1>5, <1>6, <2>1, <2>2, RemovalGoesOn
<1>7. CASE Breaks /\ disk'["settings"] \in {disk["settings"], Cut}
  BY <1>2, <1>4, <1>7, RemovalBreaks
<1> QED BY <1>4, <1>6, <1>7

LEMMA RestoreProfilesRestorable ==
  ASSUME IInv, Restorable, RestoreProfiles PROVE Restorable'
<1>1. /\ pc = "restore profiles" /\ job.action = "Uninstall"
      /\ Readable /\ Installed /\ job.left \subseteq DOMAIN Record.profiles
      /\ job \in [action : {"Uninstall"}, run : {0}, profile : {None},
                  left : SUBSET Profiles]
  BY RemovalIs DEF RestoreProfiles
<1>2. disk = [f \in Files |-> disk[f]]
  BY DEF IInv, Stored, StoredTypeOK, FilesType
<1>3. ASSUME NEW p \in job.left,
             disk' = [disk EXCEPT ![p] = Restored(p)],
             job' = [job EXCEPT !.left = @ \ {p}],
             UNCHANGED <<pc, counters, own, loose, records, backups>>
      PROVE  Restorable'
  <2>1. /\ p \in Profiles /\ p \in Files /\ p # "settings"
        /\ disk[p] = Record.profiles[p].modified => Restored(p) = own[p]
    BY <1>1, RestoredIs, WholeIs
  <2>2. /\ disk'[p] = Restored(p) /\ disk'["settings"] = disk["settings"]
        /\ \A q \in Profiles \ {p} : disk'[q] = disk[q]
    BY <1>2, <1>3, <2>1, WholeIs
  \* It is as the record says, or as the driver left it.
  <2>3. p \notin loose => disk'[p] = own[p]
    <3>1. p \notin loose => Covered(p)
      BY <1>1, <2>1 DEF Restorable, ProfilesCovered, Unrecorded
    <3>2. disk[p] # Record.profiles[p].modified => Restored(p) = disk[p]
      BY DEF Restored
    <3> QED BY <2>1, <2>2, <3>1, <3>2 DEF Covered
  <2>4. job'.action = "Uninstall" /\ job'.left = job.left \ {p}
    BY <1>1, <1>3
  <2>5. Removed'
    BY <1>1, <1>3, <2>2, <2>3, <2>4 DEF Restorable, Removed
  <2>6. UNCHANGED <<installs, loose, own, records, backups>>
        /\ pc' = "restore profiles"
    BY <1>1, <1>3 DEF counters
  <2> QED BY <1>1, <2>2, <2>3, <2>4, <2>5, <2>6, RemovalGoesOn
<1>4. ASSUME NEW p \in job.left, UNCHANGED <<records, backups>>, Breaks,
             \E left \in Left(disk[p], Restored(p)) :
               disk' = [disk EXCEPT ![p] = left]
      PROVE  Restorable'
  <2>1. PICK left \in {disk[p], Cut} : disk' = [disk EXCEPT ![p] = left]
    BY <1>4 DEF Left
  <2>2. \A f \in Files : disk'[f] \in {disk[f], Cut}
    BY <1>2, <2>1
  <2> QED BY <1>1, <1>4, <2>2, RemovalBreaks
<1>5. ASSUME job.left = {}, GoesOn("save"),
             UNCHANGED <<disk, records, backups>>
      PROVE  Restorable'
  <2>1. pc' = "save" /\ UNCHANGED <<job, installs, own, loose>>
    BY <1>5 DEF GoesOn
  <2>2. Removed'
    BY <1>1, <1>5, <2>1 DEF Restorable, Removed
  <2> QED BY <1>1, <1>5, <2>1, <2>2, RemovalGoesOn
<1> QED BY <1>3, <1>4, <1>5 DEF RestoreProfiles

\* The driver's edit of a profile, of the settings or of the DLL is his own,
\* unless he writes the settings of Setup again.
LEMMA DriverEditsRestorable ==
  ASSUME IInv, Restorable, NEW file \in Files,
         NEW content \in {None, Cut} \cup Whole(file),
         DriverEdits(file, content)
  PROVE  Restorable'
<1> DEFINE mine == OwnAfter(file, content)
<1>1. /\ pc = "idle"
      /\ disk' = [disk EXCEPT ![file] = content]
      /\ own' = [own EXCEPT ![file] = mine]
      /\ loose' = IF file = "settings" /\ Installed THEN loose
                  ELSE loose \ {file}
      /\ UNCHANGED <<records, backups, pc, job, installs>>
  BY DEF DriverEdits
<1> HIDE DEF mine
<1>2. /\ disk = [f \in Files |-> disk[f]]
      /\ own = [f \in Files |-> own[f]]
  BY DEF IInv, Stored, StoredTypeOK, FilesType
<1>3. /\ disk'[file] = content /\ own'[file] = mine
      /\ \A f \in Files \ {file} : disk'[f] = disk[f] /\ own'[f] = own[f]
  BY <1>1, <1>2
<1>4. job' = NoJob /\ pc' = "idle"
  BY <1>1, JobIs DEF IInv, Running
<1>5. BackupKept'
  BY <1>1, BackupKeptStays DEF Restorable
<1>6. /\ Record' = Record /\ Installed' = Installed
      /\ Readable' = Readable /\ RecordsSettings' = RecordsSettings
  BY <1>1, RecordStays
<1>7. ASSUME Readable, NEW p \in Profiles \ loose' PROVE Covered(p)'
  <2>1. CASE p = file
    BY <1>3, <2>1, OwnAfterIs, WholeIs DEF Covered, mine
  <2>2. CASE p # file
    <3>1. p \notin loose /\ disk'[p] = disk[p] /\ own'[p] = own[p]
      BY <1>1, <1>3, <2>2, WholeIs
    <3>2. Covered(p)
      BY <1>1, <1>7, <3>1, IdleIs
    <3> QED BY <1>6, <3>1, <3>2 DEF Covered
  <2> QED BY <2>1, <2>2
<1>8. ASSUME Readable, "settings" \notin loose'
      PROVE  IF RecordsSettings /\ disk'["settings"] = Record.settings.installed
             THEN SettingsSaved' ELSE disk'["settings"] = own'["settings"]
  <2>1. CASE file = "settings"
    <3>1. /\ disk'["settings"] = content /\ own'["settings"] = mine
      BY <1>3, <2>1
    <3>2. CASE RecordsSettings /\ content = Record.settings.installed
      <4>1. mine = backups[Record.settings.backup]["settings"]
        BY <2>1, <3>2 DEF mine, OwnAfter, RecordsSettings
      <4> QED BY <1>1, <1>6, <3>1, <3>2, <4>1 DEF SettingsSaved
    <3>3. CASE ~(RecordsSettings /\ content = Record.settings.installed)
      <4>1. mine = content
        BY <2>1, <3>3 DEF mine, OwnAfter, RecordsSettings
      <4> QED BY <3>1, <3>3, <4>1
    <3> QED BY <3>2, <3>3
  <2>2. CASE file # "settings"
    <3>1. /\ "settings" \notin loose /\ disk'["settings"] = disk["settings"]
          /\ own'["settings"] = own["settings"]
      BY <1>1, <1>3, <1>8, <2>2, WholeIs
    <3>2. SettingsSaved' = SettingsSaved
      BY <1>1, <1>6, <3>1 DEF SettingsSaved
    <3> QED BY <1>1, <1>8, <3>1, <3>2, IdleIs
  <2> QED BY <2>1, <2>2
<1> QED BY <1>4, <1>5, <1>6, <1>7, <1>8, IdleRestorable

LEMMA RestorableInductive ==
  IInv /\ Undoable /\ Restorable /\ [Next]_vars => Restorable'
<1> SUFFICES ASSUME IInv, Undoable, Restorable, [Next]_vars PROVE Restorable'
  OBVIOUS
<1>1. CASE Install
  BY <1>1, StartInstallRestorable, BackUpSettingsRestorable,
     BackUpPluginRestorable, PutPluginRestorable, PutSettingsRestorable,
     BackUpProfileRestorable, EditProfileRestorable, SaveRecordRestorable,
     RetireLegacyRestorable DEF Install
<1>2. CASE Rollback
  BY <1>2, UndoProfileRestorable, UndoPluginRestorable, UndoSettingsRestorable
     DEF Rollback
<1>3. CASE Uninstall
  BY <1>3, StartUninstallRestorable, RemovePluginRestorable,
     RestoreSettingsRestorable, RestoreProfilesRestorable DEF Uninstall
<1>4. CASE DriverEditsProfile
  <2>1. PICK p \in Profiles, bound \in BOOLEAN :
          DriverEdits(p, [version |-> edits + 1, bound |-> bound])
    BY <1>4 DEF DriverEditsProfile
  <2> DEFINE content == [version |-> edits + 1, bound |-> bound]
  <2>2. edits \in 0..MaxEdits /\ edits < MaxEdits /\ MaxEdits \in Nat
    BY <2>1, InstallerAssumption DEF IInv, Stored, StoredTypeOK, DriverEdits
  <2>3. content \in Versions
    BY <2>2 DEF Versions
  <2>4. DriverEdits(p, content)
    BY <2>1
  <2> HIDE DEF content
  <2> QED BY <2>3, <2>4, WholeIs, DriverEditsRestorable
<1>5. CASE DriverEditsSettings
  BY <1>5, WholeIs, DriverEditsRestorable DEF DriverEditsSettings
<1>6. CASE DriverReplacesPlugin
  BY <1>6, WholeIs, DriverEditsRestorable DEF DriverReplacesPlugin
<1>7. CASE UNCHANGED vars
  <2>1. UNCHANGED <<disk, records, backups, pc, job, own, loose, installs>>
    BY <1>7 DEF vars, counters
  <2>2. BackupKept' /\ InstallOrder' /\ Removed' = Removed
    BY <2>1 DEF Restorable, BackupKept, InstallOrder, Removed
  <2>3. /\ Unrecorded' = Unrecorded /\ AtProfile' = AtProfile
        /\ Standing' = Standing /\ BackupStays
    BY <2>1 DEF Unrecorded, AtProfile, Edited, Here, Standing, BackupStays
  <2>4. Readable' = Readable
    BY <2>1, RecordStays
  <2>5. Readable => ProfilesCovered'
    BY <2>1, <2>3, CoveredStays DEF Restorable, ProfilesCovered
  <2>6. Readable => SettingsCovered'
    BY <2>1, <2>3, SettingsStay DEF Restorable
  <2> QED BY <2>2, <2>4, <2>5, <2>6 DEF Restorable
<1> QED BY <1>1, <1>2, <1>3, <1>4, <1>5, <1>6, <1>7 DEF Next, SetupRefuses

LEMMA InitRestorable == Init => Restorable
<1> SUFFICES ASSUME Init PROVE Restorable
  OBVIOUS
<1>1. IInv /\ pc = "idle" /\ job = NoJob
  BY Initially DEF Init
<1>2. ~Unrecorded /\ Standing = disk["settings"] /\ InstallOrder /\ Removed
  BY <1>1 DEF Unrecorded, Standing, InstallOrder, Removed, NoJob
<1>3. own = [f \in Files |-> own[f]]
  BY <1>1 DEF IInv, Stored, StoredTypeOK, FilesType
<1>4. CASE disk = own /\ records = [r \in {"current", "legacy"} |-> None]
  <2>1. records["current"] = None /\ ~Installed
    BY <1>4 DEF Installed, Record
  <2> QED BY <1>2, <1>4, <2>1
          DEF Restorable, BackupKept, ProfilesCovered, Covered,
              SettingsCovered, RecordsSettings
<1>5. CASE \E p \in Profiles :
             /\ disk = [own EXCEPT !["dll"] = "1.0", ![p] = Unbound(@)]
             /\ records = [current |-> None, legacy |-> OldRecord(p)]
  <2>1. PICK q \in Profiles :
          /\ disk = [own EXCEPT !["dll"] = "1.0", ![q] = Unbound(@)]
          /\ records = [current |-> None, legacy |-> OldRecord(q)]
    BY <1>5
  <2>2. q \in Files /\ q # "dll" /\ q # "settings"
    BY WholeIs
  <2> DEFINE first == [own EXCEPT !["dll"] = "1.0"]
  <2>3. /\ first = [f \in Files |-> first[f]]
        /\ \A f \in Files \ {"dll"} : first[f] = own[f]
    BY <1>3
  <2> HIDE DEF first
  <2> DEFINE second == [first EXCEPT ![q] = Unbound(own[q])]
  <2>4. disk = second
    <3>1. first[q] = own[q]
      BY <2>2, <2>3
    <3> QED BY <2>1, <3>1 DEF first, second
  <2>5. /\ disk[q] = Unbound(own[q]) /\ disk["settings"] = own["settings"]
        /\ \A p \in Profiles \ {q} : disk[p] = own[p]
    BY <2>2, <2>3, <2>4, WholeIs
  <2> HIDE DEF second
  <2>6. /\ records["current"] = None /\ Record = OldRecord(q)
        /\ Record.profiles = [p \in {q} |->
             [backup |-> 0, modified |-> [version |-> 0, bound |-> FALSE]]]
        /\ Record.settings = None /\ Record.installed
    BY <2>1 DEF Record, OldRecord
  <2>7. Installed
    <3>1. OldRecord(q) \in RecordType
      BY OldRecordIs
    <3> QED BY <2>6, <3>1, RecordIs DEF Installed
  <2>8. Unbound(own[q]) = [version |-> 0, bound |-> FALSE]
    <3>1. /\ own[q] = [version |-> 0, bound |-> TRUE] /\ own[q] \in Versions
      BY InitOwn
    <3>2. own[q].version = 0 /\ own[q] \in Versions
      BY <3>1
    <3>3. /\ Unbound(own[q]) \in Versions
          /\ Unbound(own[q]).version = own[q].version
          /\ Unbound(own[q]).bound = FALSE
      BY <3>2, UnboundIs
    <3>4. \A v \in Versions : v.version = 0 /\ v.bound = FALSE =>
                                v = [version |-> 0, bound |-> FALSE]
      BY DEF Versions
    <3> QED BY <3>2, <3>3, <3>4
  <2>9. ASSUME NEW p \in Profiles PROVE Covered(p)
    <3>1. CASE p = q
      <4> DEFINE entry == [backup |-> 0,
                           modified |-> [version |-> 0, bound |-> FALSE]]
      <4>0. Record.profiles = [r \in {q} |-> entry]
            /\ entry.modified = [version |-> 0, bound |-> FALSE]
        BY <2>6
      <4> HIDE DEF entry
      <4>1. q \in DOMAIN Record.profiles
            /\ Record.profiles[q].modified = [version |-> 0, bound |-> FALSE]
        BY <4>0
      <4> QED BY <2>5, <2>7, <2>8, <3>1, <4>1 DEF Covered
    <3>2. CASE p # q
      BY <2>5, <3>2 DEF Covered
    <3> QED BY <3>1, <3>2
  <2> QED BY <1>2, <2>5, <2>6, <2>9
          DEF Restorable, BackupKept, ProfilesCovered, SettingsCovered,
              RecordsSettings
<1> QED BY <1>4, <1>5 DEF Init

\* Where nothing is installed, no profile and no settings need a record.
LEMMA OwnRestored == IInv /\ Restorable => RestoresOwn
<1> SUFFICES ASSUME IInv, Restorable, pc = "idle", Readable, ~Installed,
                    NEW f \in (Profiles \cup {"settings"}) \ loose
             PROVE  disk[f] = own[f]
  BY DEF RestoresOwn
<1> QED BY IdleIs DEF Covered, RecordsSettings

\* Once nothing is installed the driver has his own profiles and settings again,
\* after any sequence of installations, removals, failures, retries and edits of
\* his, of any number of profiles.  RestoresOwn names what `loose' exempts.
THEOREM OwnComesBack == Spec => []RestoresOwn
<1>1. Init => Undoable
  BY DEF Init, Undoable, NoJob
<1>2. Spec => []Undoable
  BY <1>1, UndoableInductive, InvariantHolds, PTL DEF Spec
<1>3. Spec => []Restorable
  BY <1>2, InitRestorable, RestorableInductive, InvariantHolds, PTL DEF Spec
<1> QED BY <1>3, InvariantHolds, OwnRestored, PTL
=============================================================================
