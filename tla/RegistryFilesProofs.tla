--------------------------- MODULE RegistryFilesProofs -------------------------
(***************************************************************************)
(* The two files of a PeerRegistry.                                        *)
(*                                                                         *)
(* The peers: no change of the registry is lost (NoLostChange), for any    *)
(* number of goroutines that change peers, timers and calls of Close.      *)
(* The invariant says what overlapping calls of saveNow have in common:    *)
(* all of them hold the read lock, so all have marshalled the same peers   *)
(* (SnapInv), the temporary file they share holds nothing else (TmpInv),   *)
(* and one that has lost the race for that file can rely on the others     *)
(* having put, or being about to put, those peers in place (DiskInv).      *)
(*                                                                         *)
(* The allowlist: for every set of keys, peers and goroutines,             *)
(* IsPeerAllowed lets in only who was allowed at some moment of the call   *)
(* and refuses nobody to whom one rule applied throughout, and changes     *)
(* that do not overlap leave the sidecar file equal to the allowlist.      *)
(***************************************************************************)
EXTENDS RegistrySave, Allowlist, TLAPS

Saving == {"writing", "written", "undoing", "cleaning"}

\* All calls of saveNow under way have marshalled the peers there are.
SnapInv == \A s \in Savers : pc[s] \in Saving => snap[s] = mem

\* A call of saveNow is about to write into the file at the temporary path, or
\* into the one at r.path.
FillsTmp == \E s \in Savers : pc[s] = "writing" /\ fd[s] = "tmp"
FillsPath == \E s \in Savers : pc[s] = "writing" /\ fd[s] = "path"

\* While saves are under way the temporary file is theirs.
TmpInv ==
    RLocked => /\ tmp \in {Absent, Torn, mem}
               /\ tmp = Torn => failed \/ FillsTmp

\* The file at r.path has the peers there are, or is about to get them.
Settled == failed \/ disk = mem \/ FillsPath

\* The calls of saveNow whose temporary file another one has moved or deleted.
Overtaken(s) ==
    \/ pc[s] = "cleaning"
    \/ pc[s] = "written" /\ tmp = Absent
    \/ pc[s] = "writing" /\ fd[s] = "gone"

DiskInv == (\E s \in Savers : Overtaken(s)) => Settled

Inv == TypeOK /\ SnapInv /\ TmpInv /\ DiskInv /\ NoLostChange

--------------------------------------------------------------------------------
\* An action that touches neither the files nor any saveNow under way keeps what
\* the invariant says about them.
LEMMA Elsewhere ==
  ASSUME SnapInv, TmpInv, DiskInv,
         UNCHANGED <<mem, snap, fd, tmp, disk, failed>>,
         \A s \in Savers : pc'[s] = pc[s] \/ (pc[s] \notin Saving /\ pc'[s] \notin Saving)
  PROVE  SnapInv' /\ TmpInv' /\ DiskInv'
  <1>1. \A s \in Savers : (pc[s] \in Saving \/ pc'[s] \in Saving) => pc'[s] = pc[s]
    OBVIOUS
  <1>2. /\ RLocked' <=> RLocked
        /\ FillsTmp' <=> FillsTmp
        /\ FillsPath' <=> FillsPath
        /\ \A s \in Savers : Overtaken(s)' <=> Overtaken(s)
    BY <1>1 DEF RLocked, FillsTmp, FillsPath, Overtaken, Saving
  <1>3. SnapInv'
    BY <1>1 DEF SnapInv
  <1>4. TmpInv'
    BY <1>2 DEF TmpInv
  <1>5. DiskInv'
    BY <1>2 DEF DiskInv, Settled
  <1> QED BY <1>3, <1>4, <1>5

\* With no saveNow under way there is nothing to say about them.
LEMMA NoneSaving ==
  ASSUME \A s \in Savers : pc'[s] \notin Saving
  PROVE  SnapInv' /\ TmpInv' /\ DiskInv'
  <1>1. ~RLocked' /\ \A s \in Savers : ~Overtaken(s)'
    BY DEF RLocked, Overtaken, Saving
  <1> QED BY <1>1 DEF SnapInv, TmpInv, DiskInv

\* The types, but for the two variables that are booleans.
Types ==
    /\ last \in 0..MaxChanges
    /\ mem \in 0..last
    /\ caller \in [Callers -> {"idle", "changed"}]
    /\ saveTimer \in Timers \cup {None}
    /\ pc \in [Savers -> {"idle", "armed", "fired", "due", "writing", "written",
                          "undoing", "cleaning", "ok", "failed"}]
    /\ snap \in [Savers -> 0..last]
    /\ fd \in [Savers -> {"tmp", "path", "gone"}]
    /\ tmp \in Contents \cup {Absent}
    /\ disk \in Contents

\* The type invariant, apart from its Boolean variables.
LEMMA TypeSplit == TypeOK <=> Types /\ dirty \in BOOLEAN /\ failed \in BOOLEAN
  BY Zenon DEF TypeOK, Types

\* The types hold at first.
LEMMA TypeInit == Init => TypeOK
  <1>1. Init => Types
    BY RegistrySaveAssumption
    DEF RegistrySaveAssumption, Init, Types, Contents, Torn, Absent
  <1>2. Init => dirty \in BOOLEAN /\ failed \in BOOLEAN
    BY Zenon DEF Init
  <1> QED BY <1>1, <1>2, TypeSplit

--------------------------------------------------------------------------------
\* The types, action by action.
LEMMA TypeStep == TypeOK /\ [Next]_vars => TypeOK'
  <1> SUFFICES ASSUME TypeOK, [Next]_vars PROVE TypeOK'
    OBVIOUS
  <1>0. Types
    BY TypeSplit, SMTT(30)
  <1>a. Types'
    <2> USE <1>0, RegistrySaveAssumption
        DEF RegistrySaveAssumption, Types, Contents, Torn, Absent, Savers
    <2>1. ASSUME NEW k \in Callers, Change(k) PROVE Types'
      BY <2>1 DEF Change
    <2>2. ASSUME NEW k \in Callers, Schedule(k) PROVE Types'
      BY <2>2 DEF Schedule, ScheduleCoalesced, ScheduleArmed
    <2>3. ASSUME NEW t \in Timers, Fire(t) \/ CallbackTakes(t) PROVE Types'
      BY <2>3 DEF Fire, CallbackTakes
    <2>4. ASSUME NEW c \in Closers, CloseTakes(c) PROVE Types'
      BY <2>4 DEF CloseTakes
    <2>5. ASSUME NEW s \in Savers, OpenTmp(s) PROVE Types'
      BY <2>5 DEF OpenTmp
    <2>6. ASSUME NEW s \in Savers, WriteTmp(s) PROVE Types'
      BY <2>6 DEF WriteTmp
    <2>7. ASSUME NEW s \in Savers, RenameTmp(s) PROVE Types'
      BY <2>7 DEF RenameTmp, Leave
    <2>8. ASSUME NEW s \in Savers, RenameMissing(s) \/ RenameFails(s) PROVE Types'
      BY <2>8 DEF RenameMissing, RenameFails
    <2>9. ASSUME NEW s \in Savers, DeleteTmp(s) PROVE Types'
      BY <2>9 DEF DeleteTmp, Leave
    <2>10. ASSUME NEW s \in Savers, SaveFails(s) PROVE Types'
      BY <2>10 DEF SaveFails, Leave
    <2>11. ASSUME Restart PROVE Types'
      BY <2>11 DEF Restart, Loaded
    <2>12. ASSUME UNCHANGED vars PROVE Types'
      BY <2>12 DEF vars
    <2> QED
      BY <2>1, <2>2, <2>3, <2>4, <2>5, <2>6, <2>7, <2>8, <2>9, <2>10, <2>11, <2>12
      DEF Next, Save
  <1>b. dirty' \in BOOLEAN /\ failed' \in BOOLEAN
    <2>0. dirty \in BOOLEAN /\ failed \in BOOLEAN
      BY TypeSplit
    <2>1. ASSUME NEW k \in Callers, Change(k) \/ Schedule(k)
          PROVE  dirty' \in BOOLEAN /\ failed' \in BOOLEAN
      BY <2>0, <2>1, Zenon DEF Change, Schedule, ScheduleCoalesced, ScheduleArmed
    <2>2. ASSUME NEW t \in Timers, Fire(t) \/ CallbackTakes(t)
          PROVE  dirty' \in BOOLEAN /\ failed' \in BOOLEAN
      BY <2>0, <2>2, Zenon DEF Fire, CallbackTakes
    <2>3. ASSUME NEW c \in Closers, CloseTakes(c)
          PROVE  dirty' \in BOOLEAN /\ failed' \in BOOLEAN
      BY <2>0, <2>3, Zenon DEF CloseTakes
    <2>4. ASSUME NEW s \in Savers, Save(s) \/ SaveFails(s) \/ RenameFails(s)
          PROVE  dirty' \in BOOLEAN /\ failed' \in BOOLEAN
      BY <2>0, <2>4, Zenon
      DEF Save, OpenTmp, WriteTmp, RenameTmp, RenameMissing, DeleteTmp, SaveFails, RenameFails
    <2>5. ASSUME Restart PROVE dirty' \in BOOLEAN /\ failed' \in BOOLEAN
      BY <2>5, Zenon DEF Restart
    <2>6. ASSUME UNCHANGED vars PROVE dirty' \in BOOLEAN /\ failed' \in BOOLEAN
      BY <2>0, <2>6, Zenon DEF vars
    <2> QED BY <2>1, <2>2, <2>3, <2>4, <2>5, <2>6 DEF Next
  <1> QED BY <1>a, <1>b, Zenon DEF TypeOK, Types

\* The types of the variables of the debounced save.
THEOREM SaveTypes == Spec => []TypeOK
  BY TypeInit, TypeStep, PTL DEF Spec

--------------------------------------------------------------------------------
\* No peers are taken for a torn or a missing file.
LEMMA Distinct == TypeOK => mem # Torn /\ mem # Absent /\ Torn # Absent
  <1>1. Types => mem # Torn /\ mem # Absent /\ Torn # Absent
    BY RegistrySaveAssumption DEF RegistrySaveAssumption, Types, Torn, Absent
  <1> QED BY <1>1, TypeSplit

\* What RLocked, Owed and Saving say, in the terms of the invariant.
LEMMA LockedIsOwed ==
  /\ RLocked <=> \E s \in Savers : pc[s] \in Saving
  /\ RLocked => Owed
  /\ FillsTmp => Owed
  /\ FillsPath => Owed
  BY Zenon DEF RLocked, Owed, FillsTmp, FillsPath, Saving

\* A change: the write lock keeps it away from any saveNow.
LEMMA ChangeStep ==
  ASSUME TypeOK, NEW k \in Callers, Change(k)
  PROVE  SnapInv' /\ TmpInv' /\ DiskInv' /\ NoLostChange'
  <1>1. pc' = pc /\ \A s \in Savers : pc[s] \notin Saving
    BY LockedIsOwed, Zenon DEF Change
  <1>2. \A s \in Savers : pc'[s] \notin Saving
    BY <1>1
  <1>3. SnapInv' /\ TmpInv' /\ DiskInv'
    BY <1>2, NoneSaving
  <1>4. caller'[k] = "changed"
    BY TypeSplit DEF Change, Types
  <1>5. NoLostChange'
    BY <1>4, Zenon DEF NoLostChange, Owed
  <1> QED BY <1>3, <1>5

\* scheduleSave leaves the registry dirty.  It may end the record of a failure,
\* but not while a saveNow is under way.
LEMMA ScheduleStep ==
  ASSUME TypeOK, SnapInv, TmpInv, DiskInv, NEW k \in Callers, Schedule(k)
  PROVE  SnapInv' /\ TmpInv' /\ DiskInv' /\ NoLostChange'
  <1>1. /\ dirty' /\ failed' = (failed /\ RLocked)
        /\ UNCHANGED <<mem, snap, fd, tmp, disk>>
    BY Zenon DEF Schedule, ScheduleCoalesced, ScheduleArmed
  <1>2. \A s \in Savers :
           pc'[s] = pc[s] \/ (pc[s] \notin Saving /\ pc'[s] \notin Saving)
    BY TypeSplit DEF Types, Schedule, ScheduleCoalesced, ScheduleArmed, Saving, Savers
  <1>3. NoLostChange'
    BY <1>1, Zenon DEF NoLostChange, Owed
  <1>4. CASE RLocked
    <2>1. failed' = failed
      BY <1>1, <1>4, TypeSplit, Zenon
    <2> QED BY <1>1, <1>2, <1>3, <2>1, Elsewhere
  <1>5. CASE ~RLocked
    <2>1. \A s \in Savers : pc'[s] \notin Saving
      BY <1>2, <1>5, LockedIsOwed
    <2> QED BY <1>3, <2>1, NoneSaving
  <1> QED BY <1>4, <1>5

\* Timers and the sections of the callback and of Close under r.saveMu: who finds
\* the registry dirty is going to save it.
LEMMA TakeStep ==
  ASSUME TypeOK, SnapInv, TmpInv, DiskInv, NoLostChange, NEW s \in Savers,
         \/ s \in Timers /\ (Fire(s) \/ CallbackTakes(s))
         \/ s \in Closers /\ CloseTakes(s)
  PROVE  SnapInv' /\ TmpInv' /\ DiskInv' /\ NoLostChange'
  <1>1. UNCHANGED <<mem, caller, snap, fd, tmp, disk, failed>>
    BY Zenon DEF Fire, CallbackTakes, CloseTakes
  <1>2. /\ pc[s] \in {"armed", "fired", "idle"}
        /\ \A q \in Savers \ {s} : \/ pc'[q] = pc[q]
                                   \/ pc[q] = "armed" /\ pc'[q] = "idle"
    BY TypeSplit DEF Types, Fire, CallbackTakes, CloseTakes
  <1>3. \/ pc'[s] = "due"
        \/ pc'[s] \in {"fired", "idle", "ok"} /\ (dirty' <=> dirty)
    <2>1. CASE dirty
      BY <2>1, TypeSplit, Zenon DEF Types, Fire, CallbackTakes, CloseTakes
    <2>2. CASE ~dirty
      BY <2>2, TypeSplit DEF Types, Fire, CallbackTakes, CloseTakes
    <2> QED BY <2>1, <2>2
  <1>4. \A q \in Savers :
           pc'[q] = pc[q] \/ (pc[q] \notin Saving /\ pc'[q] \notin Saving)
    BY <1>2, <1>3 DEF Saving
  <1>5. SnapInv' /\ TmpInv' /\ DiskInv'
    BY <1>1, <1>4, Elsewhere
  <1>6. NoLostChange'
    <2>1. CASE pc'[s] = "due"
      BY <2>1, Zenon DEF NoLostChange, Owed
    <2>2. CASE pc'[s] # "due"
      <3>1. Owed => Owed'
        <4>1. \A q \in Savers : pc[q] \in Saving \cup {"due"} => pc'[q] = pc[q]
          BY <1>2 DEF Saving
        <4> QED BY <1>1, <1>3, <2>2, <4>1, Zenon DEF Owed, Saving
      <3> QED BY <1>1, <3>1, Zenon DEF NoLostChange, Loaded
    <2> QED BY <2>1, <2>2
  <1> QED BY <1>5, <1>6

--------------------------------------------------------------------------------
(* saveNow. *)

\* A saveNow that goes on leaves something owed.
LEMMA StillSaving ==
  ASSUME NEW s \in Savers, pc'[s] \in Saving
  PROVE  NoLostChange'
  BY Zenon DEF NoLostChange, Owed, Saving

\* Marshal and open: the temporary file is truncated, and will be filled by s.
LEMMA OpenStep ==
  ASSUME TypeOK, SnapInv, TmpInv, DiskInv, NEW s \in Savers, OpenTmp(s)
  PROVE  SnapInv' /\ TmpInv' /\ DiskInv' /\ NoLostChange'
  <1>1. /\ pc[s] = "due" /\ pc'[s] = "writing" /\ fd'[s] = "tmp" /\ snap'[s] = mem
        /\ \A q \in Savers \ {s} : pc'[q] = pc[q] /\ fd'[q] = fd[q] /\ snap'[q] = snap[q]
    BY TypeSplit DEF Types, OpenTmp
  <1>2. tmp' = Torn /\ UNCHANGED <<mem, disk, failed>>
    BY Zenon DEF OpenTmp
  <1>3. SnapInv'
    BY <1>1, <1>2 DEF SnapInv
  <1>4. FillsTmp'
    BY <1>1, Zenon DEF FillsTmp
  <1>5. TmpInv'
    BY <1>2, <1>4, Zenon DEF TmpInv
  <1>6. FillsPath => FillsPath'
    BY <1>1, SMTT(30) DEF FillsPath
  <1>7. ASSUME NEW q \in Savers, Overtaken(q)' PROVE Overtaken(q)
    <2>1. tmp' # Absent
      BY <1>2, Distinct, SMTT(30)
    <2>2. q # s
      BY <1>1, <1>7, <2>1 DEF Overtaken
    <2> QED BY <1>1, <1>7, <2>1, <2>2 DEF Overtaken
  <1>8. DiskInv'
    BY <1>2, <1>6, <1>7, Zenon DEF DiskInv, Settled
  <1>9. NoLostChange'
    BY <1>1, StillSaving DEF Saving
  <1> QED BY <1>3, <1>5, <1>8, <1>9

\* The write: the peers are in the file that s has opened, if that is anywhere.
LEMMA WriteStep ==
  ASSUME TypeOK, SnapInv, TmpInv, DiskInv, NEW s \in Savers, WriteTmp(s)
  PROVE  SnapInv' /\ TmpInv' /\ DiskInv' /\ NoLostChange'
  <1>1. /\ pc[s] = "writing" /\ pc'[s] = "written"
        /\ \A q \in Savers \ {s} : pc'[q] = pc[q]
        /\ fd[s] \in {"tmp", "path", "gone"}
    BY TypeSplit DEF Types, WriteTmp
  <1>2. snap[s] = mem /\ RLocked
    BY <1>1, LockedIsOwed DEF SnapInv, Saving
  <1>3. /\ tmp' = IF fd[s] = "tmp" THEN mem ELSE tmp
        /\ disk' = IF fd[s] = "path" THEN mem ELSE disk
        /\ UNCHANGED <<mem, snap, fd, failed>>
    BY <1>2, Zenon DEF WriteTmp
  <1>4. mem # Torn /\ mem # Absent /\ Torn # Absent
    BY Distinct
  <1>5. SnapInv'
    BY <1>1, <1>2, <1>3 DEF SnapInv
  <1>6. TmpInv'
    <2>1. tmp' \in {Absent, Torn, mem}
      BY <1>2, <1>3 DEF TmpInv
    <2>2. ASSUME tmp' = Torn PROVE failed' \/ FillsTmp'
      <3>1. fd[s] # "tmp" /\ tmp = Torn
        BY <1>3, <1>4, <2>2
      <3>2. FillsTmp => FillsTmp'
        BY <1>1, <1>3, <3>1 DEF FillsTmp
      <3> QED BY <1>2, <1>3, <3>1, <3>2, Zenon DEF TmpInv
    <2> QED BY <1>3, <2>1, <2>2, Zenon DEF TmpInv
  <1>7. DiskInv'
    <2>1. CASE fd[s] = "path"
      BY <1>3, <2>1, Zenon DEF DiskInv, Settled
    <2>2. CASE fd[s] # "path"
      <3>1. FillsPath => FillsPath'
        BY <1>1, <1>3, <2>2 DEF FillsPath
      <3>2. Settled => Settled'
        BY <1>3, <2>2, <3>1, Zenon DEF Settled
      <3>3. ASSUME NEW q \in Savers, Overtaken(q)' PROVE Settled
        <4>1. CASE q = s
          <5>1. tmp' = Absent
            BY <1>1, <3>3, <4>1 DEF Overtaken
          <5>2. fd[s] = "gone"
            BY <1>1, <1>3, <1>4, <2>2, <5>1
          <5> QED BY <1>1, <5>2, Zenon DEF DiskInv, Overtaken
        <4>2. CASE q # s
          <5>1. pc'[q] = pc[q] /\ fd'[q] = fd[q] /\ (tmp' = Absent => tmp = Absent)
            BY <1>1, <1>3, <1>4, <4>2
          <5>2. Overtaken(q)
            BY <3>3, <5>1 DEF Overtaken
          <5> QED BY <5>2, Zenon DEF DiskInv
        <4> QED BY <4>1, <4>2
      <3> QED BY <3>2, <3>3, Zenon DEF DiskInv
    <2> QED BY <2>1, <2>2
  <1>8. NoLostChange'
    BY <1>1, StillSaving DEF Saving
  <1> QED BY <1>5, <1>6, <1>7, <1>8

\* A saveNow is over, or about to clean up, when its file is in place or that of
\* others is, or is about to be.
LEMMA SettledIsNotLost ==
  ASSUME TypeOK, Settled'
  PROVE  mem' # Torn => NoLostChange'
  <1>1. FillsPath' => Owed'
    BY Zenon DEF FillsPath, Owed
  <1> QED BY <1>1, Zenon DEF Settled, NoLostChange, Loaded

\* The rename: whatever is at the temporary path is the peers, or a file that
\* another saveNow is about to fill, now at r.path.
LEMMA RenameStep ==
  ASSUME TypeOK, SnapInv, TmpInv, NEW s \in Savers, RenameTmp(s)
  PROVE  SnapInv' /\ TmpInv' /\ DiskInv' /\ NoLostChange'
  <1>1. /\ pc[s] = "written" /\ pc'[s] \notin Saving
        /\ \A q \in Savers \ {s} : pc'[q] = pc[q]
        /\ \A q \in Savers : fd[q] = "tmp" => fd'[q] = "path"
    BY TypeSplit DEF Types, RenameTmp, Leave, Saving
  <1>2. disk' = tmp /\ tmp' = Absent /\ tmp # Absent /\ UNCHANGED <<mem, snap, failed>>
    BY Zenon DEF RenameTmp
  <1>3. mem # Torn /\ mem # Absent /\ Torn # Absent
    BY Distinct
  <1>4. SnapInv'
    BY <1>1, <1>2 DEF SnapInv
  <1>5. TmpInv'
    BY <1>2, <1>3 DEF TmpInv
  <1>6. RLocked
    BY <1>1, LockedIsOwed DEF Saving
  <1>7. Settled'
    <2>1. CASE tmp = mem
      BY <1>2, <2>1, Zenon DEF Settled
    <2>2. CASE tmp = Torn
      <3>1. FillsTmp => FillsPath'
        BY <1>1 DEF FillsTmp, FillsPath
      <3> QED BY <1>2, <1>6, <2>2, <3>1, Zenon DEF TmpInv, Settled
    <2> QED BY <1>2, <1>6, <2>1, <2>2 DEF TmpInv
  <1>8. DiskInv' /\ NoLostChange'
    BY <1>2, <1>3, <1>7, SettledIsNotLost DEF DiskInv
  <1> QED BY <1>4, <1>5, <1>8

\* A rename that fails, with or without a file to rename, changes nothing yet.
LEMMA RenameFailsStep ==
  ASSUME TypeOK, SnapInv, TmpInv, DiskInv, NEW s \in Savers,
         RenameMissing(s) \/ RenameFails(s)
  PROVE  SnapInv' /\ TmpInv' /\ DiskInv' /\ NoLostChange'
  <1>1. /\ pc[s] = "written" /\ pc'[s] \in {"cleaning", "undoing"}
        /\ pc'[s] = "cleaning" => tmp = Absent
        /\ \A q \in Savers \ {s} : pc'[q] = pc[q]
    BY TypeSplit DEF Types, RenameMissing, RenameFails
  <1>2. UNCHANGED <<mem, snap, fd, tmp, disk, failed>>
    BY ZenonT(30) DEF RenameMissing, RenameFails
  <1>3. SnapInv'
    BY <1>1, <1>2 DEF SnapInv, Saving
  <1>4. (FillsTmp => FillsTmp') /\ (FillsPath => FillsPath')
    BY <1>1, <1>2 DEF FillsTmp, FillsPath
  <1>5. RLocked
    BY <1>1, LockedIsOwed DEF Saving
  <1>6. TmpInv'
    BY <1>2, <1>4, <1>5, Zenon DEF TmpInv
  <1>7. \A q \in Savers : Overtaken(q)' => Overtaken(q)
    BY <1>1, <1>2 DEF Overtaken
  <1>8. DiskInv'
    BY <1>2, <1>4, <1>7, Zenon DEF DiskInv, Settled
  <1>9. NoLostChange'
    BY <1>1, StillSaving DEF Saving
  <1> QED BY <1>3, <1>6, <1>8, <1>9

\* The clean-up deletes whatever is at the temporary path, the file of another
\* saveNow too.  After a rename that failed by itself that is on record; after one
\* that found no file, the peers are in place or about to be.
LEMMA DeleteStep ==
  ASSUME TypeOK, SnapInv, TmpInv, DiskInv, NEW s \in Savers, DeleteTmp(s)
  PROVE  SnapInv' /\ TmpInv' /\ DiskInv' /\ NoLostChange'
  <1>1. /\ pc[s] \in {"undoing", "cleaning"} /\ pc'[s] \notin Saving
        /\ \A q \in Savers \ {s} : pc'[q] = pc[q]
        /\ \A q \in Savers : fd[q] = "path" => fd'[q] = "path"
    BY TypeSplit DEF Types, DeleteTmp, Leave, Saving
  <1>2. /\ tmp' = Absent /\ UNCHANGED <<mem, snap, disk>>
        /\ failed' = (failed \/ pc[s] = "undoing")
    BY Zenon DEF DeleteTmp
  <1>3. mem # Torn /\ Torn # Absent
    BY Distinct, SMTT(30)
  <1>4. SnapInv'
    BY <1>1, <1>2 DEF SnapInv
  <1>5. TmpInv'
    BY <1>2, <1>3 DEF TmpInv
  <1>6. Settled'
    <2>1. CASE pc[s] = "undoing"
      BY <1>2, <2>1, Zenon DEF Settled
    <2>2. CASE pc[s] = "cleaning"
      <3>1. Settled
        BY <2>2, Zenon DEF DiskInv, Overtaken
      <3>2. FillsPath => FillsPath'
        BY <1>1 DEF FillsPath
      <3> QED BY <1>2, <3>1, <3>2, Zenon DEF Settled
    <2> QED BY <1>1, <2>1, <2>2
  <1>7. DiskInv' /\ NoLostChange'
    BY <1>2, <1>3, <1>6, SettledIsNotLost DEF DiskInv
  <1> QED BY <1>4, <1>5, <1>7

\* A save that fails is on record.
LEMMA FailStep ==
  ASSUME TypeOK, SnapInv, TmpInv, NEW s \in Savers, SaveFails(s)
  PROVE  SnapInv' /\ TmpInv' /\ DiskInv' /\ NoLostChange'
  <1>1. /\ pc'[s] \notin Saving
        /\ \A q \in Savers \ {s} : pc'[q] = pc[q]
    BY TypeSplit DEF Types, SaveFails, Leave, Saving
  <1>2. failed' /\ UNCHANGED <<mem, snap, tmp>>
    BY Zenon DEF SaveFails
  <1>3. SnapInv'
    BY <1>1, <1>2 DEF SnapInv
  <1>4. RLocked' => RLocked
    BY <1>1 DEF RLocked, Saving
  <1>5. TmpInv'
    BY <1>2, <1>4, Zenon DEF TmpInv
  <1>6. DiskInv' /\ NoLostChange'
    BY <1>2, Zenon DEF DiskInv, Settled, NoLostChange
  <1> QED BY <1>3, <1>5, <1>6

\* The new process has what it has loaded.
LEMMA RestartStep ==
  ASSUME Restart
  PROVE  SnapInv' /\ TmpInv' /\ DiskInv' /\ NoLostChange'
  <1>1. \A s \in Savers : pc'[s] \notin Saving
    BY DEF Restart, Saving
  <1>2. mem' = Loaded(disk') /\ disk' = disk
    BY DEF Restart, Loaded
  <1>3. NoLostChange'
    BY <1>2, Zenon DEF NoLostChange, Loaded
  <1> QED BY <1>1, <1>3, NoneSaving

--------------------------------------------------------------------------------
\* The invariant of the saves holds at first.
LEMMA InvInit == Init => Inv
  <1> SUFFICES ASSUME Init PROVE Inv
    OBVIOUS
  <1>1. TypeOK
    BY TypeInit
  <1>2. \A s \in Savers : pc[s] = "idle"
    BY DEF Init
  <1>3. SnapInv /\ TmpInv /\ DiskInv
    BY <1>2 DEF SnapInv, TmpInv, DiskInv, RLocked, Overtaken, Saving
  <1>4. disk = mem /\ mem # Torn
    BY <1>1, Distinct, Zenon DEF Init
  <1>5. NoLostChange
    BY <1>4, Zenon DEF NoLostChange, Loaded
  <1> QED BY <1>1, <1>3, <1>5 DEF Inv

\* Every step keeps the invariant of the saves.
LEMMA InvStep == Inv /\ [Next]_vars => Inv'
  <1> SUFFICES ASSUME Inv, [Next]_vars PROVE Inv'
    OBVIOUS
  <1>0. TypeOK /\ SnapInv /\ TmpInv /\ DiskInv /\ NoLostChange
    BY DEF Inv
  <1> DEFINE Kept == SnapInv' /\ TmpInv' /\ DiskInv' /\ NoLostChange'
  <1>1. ASSUME NEW k \in Callers, Change(k) \/ Schedule(k) PROVE Kept
    BY <1>0, <1>1, ChangeStep, ScheduleStep
  <1>2. ASSUME NEW t \in Timers, Fire(t) \/ CallbackTakes(t) PROVE Kept
    BY <1>0, <1>2, TakeStep DEF Savers
  <1>3. ASSUME NEW c \in Closers, CloseTakes(c) PROVE Kept
    BY <1>0, <1>3, TakeStep, SMTT(30) DEF Savers
  <1>4. ASSUME NEW s \in Savers, Save(s) PROVE Kept
    BY <1>0, <1>4, OpenStep, WriteStep, RenameStep, RenameFailsStep, DeleteStep DEF Save
  <1>5. ASSUME NEW s \in Savers, SaveFails(s) \/ RenameFails(s) PROVE Kept
    BY <1>0, <1>5, FailStep, RenameFailsStep
  <1>6. ASSUME Restart PROVE Kept
    BY <1>6, RestartStep
  <1>7. ASSUME UNCHANGED vars PROVE Kept
    <2>1. SnapInv' /\ TmpInv' /\ DiskInv'
      BY <1>0, <1>7, Elsewhere DEF vars
    <2>2. NoLostChange'
      BY <1>0, <1>7, ZenonT(30) DEF vars, NoLostChange, Loaded, Owed
    <2> QED BY <2>1, <2>2
  <1>8. Kept
    BY <1>1, <1>2, <1>3, <1>4, <1>5, <1>6, <1>7 DEF Next
  <1>9. TypeOK'
    BY <1>0, TypeStep
  <1> QED BY <1>8, <1>9 DEF Inv

\* For any number of changing goroutines, timers and calls of Close, every change
\* is on disk, or still owed to it, or a save has failed.
THEOREM SaveNoLostChange == Spec => []NoLostChange
  <1>1. Inv => NoLostChange
    BY DEF Inv
  <1> QED BY <1>1, InvInit, InvStep, PTL DEF Spec

--------------------------------------------------------------------------------
RuleNames == {"open", "peer", "key"}

Now(c) == Rules(authMode, allowed, registered, c.peer, c.key)

\* A call between its two lock sections: the history fields tell the truth about
\* it, and what the first section read agrees with them.
Between(c) ==
    /\ Now(c) # {} => c.ever
    /\ c.steady \subseteq Now(c)
    /\ "open" \notin c.steady
    /\ "key" \in c.steady => c.keyAllowed
    /\ c.keyAllowed => c.ever

Answered(c) == (c.answer => c.ever) /\ (c.steady # {} => c.answer)

CheckInv ==
    \A q \in Checkers :
      /\ check[q].stage = "read" => Between(check[q])
      /\ check[q].stage = "answered" => Answered(check[q])

\* A change that runs alone, and with no failure before it, is on its way to the
\* file with the keys of this moment.
AloneInv ==
    ~overlap =>
      /\ \A v, w \in Writers : writer[v] # "idle" /\ writer[w] # "idle" => v = w
      /\ ~sidecarFailed =>
           /\ Quiet => sidecar = allowed
           /\ \A w \in Writers : writer[w] = "snapped" => copied[w] = allowed
           /\ \A w \in Writers : writer[w] = "written" => sidecarTmp = {allowed}

--------------------------------------------------------------------------------
\* What Rules returns: the documented rules that apply, and no other name
\* (IsPeerAllowed, peer.go:210).
LEMMA RulesAre ==
  ASSUME NEW mode, NEW keys, NEW peers, NEW p, NEW k
  PROVE  /\ Rules(mode, keys, peers, p, k) \subseteq RuleNames
         /\ "open" \in Rules(mode, keys, peers, p, k) <=> mode = "open"
         /\ "peer" \in Rules(mode, keys, peers, p, k) <=> p \in peers
         /\ "key" \in Rules(mode, keys, peers, p, k) <=> k \in keys
  BY DEF Rules, RuleNames

\* The fields of a call are of their types throughout (peer.go:207-231).
LEMMA ChecksAre ==
  ASSUME AllowTypeOK, NEW q \in Checkers
  PROVE  /\ check[q] \in Checks
         /\ check[q].stage \in {"idle", "read", "answered"}
         /\ check[q].ever \in BOOLEAN
         /\ check[q].steady \subseteq RuleNames
  BY DEF AllowTypeOK, Checks, RuleNames

\* A change of the mode, the keys or the registry leaves every call with an
\* observation of its own (Observe), so the calls keep their types and CheckInv.
LEMMA ObserveKeeps ==
  ASSUME AllowTypeOK, CheckInv, Observe
  PROVE  check' \in [Checkers -> Checks] /\ CheckInv'
  <1> DEFINE now(q) == Rules(authMode', allowed', registered', check[q].peer, check[q].key)
             next(q) == IF check[q].stage # "read" THEN check[q]
                        ELSE [check[q] EXCEPT !.ever = @ \/ now(q) # {},
                                              !.steady = @ \cap now(q)]
  <1>1. check' = [q \in Checkers |-> next(q)]
    BY ZenonT(30) DEF Observe
  <1>2. ASSUME NEW q \in Checkers
        PROVE  /\ next(q) \in Checks
               /\ next(q).stage = check[q].stage
               /\ check[q].stage # "read" => next(q) = check[q]
               /\ check[q].stage = "read" =>
                    /\ next(q).ever = (check[q].ever \/ now(q) # {})
                    /\ next(q).steady = check[q].steady \cap now(q)
                    /\ next(q).keyAllowed = check[q].keyAllowed
                    /\ next(q).peer = check[q].peer
                    /\ next(q).key = check[q].key
    <2> USE <1>2
    <2>1. CASE check[q].stage # "read"
      BY <2>1, ChecksAre, SMTT(30)
    <2>2. CASE check[q].stage = "read"
      <3>1. (check[q].ever \/ now(q) # {}) \in BOOLEAN
            /\ check[q].steady \cap now(q) \subseteq RuleNames
        BY ChecksAre
      <3>2. check[q] \in Checks
        BY ChecksAre, SMTT(30)
      <3> HIDE DEF now
      <3> QED BY <3>1, <3>2, <2>2, ZenonT(30) DEF Checks, RuleNames
    <2> QED BY <2>1, <2>2
  <1>3. check' \in [Checkers -> Checks]
    BY <1>1, <1>2, Zenon
  <1>4. ASSUME NEW q \in Checkers
        PROVE  /\ check'[q].stage = "read" => Between(check[q])'
               /\ check'[q].stage = "answered" => Answered(check[q])'
    <2> USE <1>4
    <2>1. check'[q] = next(q)
      BY <1>1, ZenonT(30)
    <2>2. CASE check[q].stage = "read"
      <3>1. Between(check[q])
        BY <2>2, SMTT(30) DEF CheckInv
      <3>2. Now(check[q])' = now(q)
        BY <2>1, <2>2, <1>2, ZenonT(30) DEF Now
      <3> HIDE DEF now, next
      <3>3. /\ Now(check[q])' # {} => check'[q].ever
            /\ check'[q].steady \subseteq Now(check[q])'
        BY <2>1, <2>2, <3>2, <1>2, Zenon
      <3>4. /\ "open" \notin check'[q].steady
            /\ "key" \in check'[q].steady => check'[q].keyAllowed
        BY <2>1, <2>2, <3>1, <1>2 DEF Between
      <3>5. check'[q].keyAllowed => check'[q].ever
        BY <2>1, <2>2, <3>1, <1>2, ZenonT(30) DEF Between
      <3>6. Between(check[q])'
        BY <3>3, <3>4, <3>5 DEF Between
      <3> QED BY <2>1, <2>2, <3>6, <1>2
    <2>3. CASE check[q].stage # "read"
      <3>1. check'[q] = check[q]
        BY <2>1, <2>3, <1>2, Zenon
      <3> QED BY <3>1, <2>3 DEF CheckInv, Answered
    <2> QED BY <2>2, <2>3, SMTT(30)
  <1> QED BY <1>3, <1>4, SMTT(30) DEF CheckInv

--------------------------------------------------------------------------------
AllowInv == AllowTypeOK /\ CheckInv /\ AloneInv

\* The actions that Observe calls under way, and those that leave them alone.
Observing ==
    \/ \E mode \in {"open", "allowlist"} : SetAuthMode(mode)
    \/ \E p \in Peers : Register(p) \/ Unregister(p)
    \/ \E w \in Writers, k \in Keys : AllowPublicKey(w, k) \/ RevokePublicKey(w, k)

Filing ==
    \E w \in Writers : \/ TakeSnapshot(w) \/ WriteSidecar(w)
                       \/ RenameSidecar(w) \/ SidecarMissing(w) \/ SidecarFails(w)

\* Every step keeps the state well-typed (peer.go:207-292, 831-872).
LEMMA AllowTypeStep ==
  ASSUME AllowTypeOK, CheckInv, [AllowNext]_allowVars
  PROVE  AllowTypeOK'
  <1>1. CASE Observing
    <2>1. Observe
      BY <1>1 DEF Observing, SetAuthMode, Register, Unregister, AllowPublicKey,
         RevokePublicKey
    <2>2. check' \in [Checkers -> Checks]
      BY <2>1, ObserveKeeps
    <2> QED
      BY <1>1, <2>2, Zenon DEF Observing, SetAuthMode, Register, Unregister, AllowPublicKey,
         RevokePublicKey, StartChange, changeVars, AllowTypeOK
  <1>2. ASSUME NEW w \in Writers, TakeSnapshot(w) \/ WriteSidecar(w)
        PROVE  AllowTypeOK'
    BY <1>2 DEF TakeSnapshot, WriteSidecar, AllowTypeOK
  <1>3. ASSUME NEW w \in Writers, RenameSidecar(w) \/ SidecarMissing(w) \/ SidecarFails(w)
        PROVE  AllowTypeOK'
    BY <1>3, Zenon DEF RenameSidecar, SidecarMissing, SidecarFails, EndChange, AllowTypeOK
  <1>4. ASSUME NEW q \in Checkers, NEW p \in Peers, NEW k \in Keys, ReadKeys(q, p, k)
        PROVE  AllowTypeOK'
    <2>1. Rules(authMode, allowed, registered, p, k) \subseteq RuleNames
      BY RulesAre, SMTT(30)
    <2> DEFINE new == [stage |-> IF authMode = "open" THEN "answered" ELSE "read",
                       peer |-> p, key |-> k, keyAllowed |-> k \in allowed,
                       answer |-> authMode = "open",
                       ever |-> Rules(authMode, allowed, registered, p, k) # {},
                       steady |-> Rules(authMode, allowed, registered, p, k)]
    <2>2. new \in Checks
      BY <2>1, SMTT(30) DEF Checks, RuleNames
    <2>3. check' = [check EXCEPT ![q] = new]
      BY <1>4 DEF ReadKeys
    <2> HIDE DEF new
    <2>4. check' \in [Checkers -> Checks]
      BY <2>2, <2>3 DEF AllowTypeOK
    <2> QED BY <1>4, <2>4 DEF ReadKeys, AllowTypeOK, changeVars
  <1>5. ASSUME NEW q \in Checkers, ReadPeers(q)
        PROVE  AllowTypeOK'
    <2>1. check[q] \in Checks /\ check[q].keyAllowed \in BOOLEAN
      BY ChecksAre DEF Checks
    <2> DEFINE new == [check[q] EXCEPT !.stage = "answered",
                         !.answer = check[q].peer \in registered \/ check[q].keyAllowed]
    <2>2. new \in Checks
      BY <2>1, Zenon DEF Checks
    <2>3. check' = [check EXCEPT ![q] = new]
      BY <1>5, Zenon DEF ReadPeers, AllowTypeOK
    <2> HIDE DEF new
    <2>4. check' \in [Checkers -> Checks]
      BY <2>2, <2>3 DEF AllowTypeOK
    <2> QED BY <1>5, <2>4 DEF ReadPeers, AllowTypeOK, changeVars
  <1>6. CASE Reload
    <2>1. NoCheck \in Checks
      BY DEF NoCheck, Checks
    <2> QED BY <1>6, <2>1, ZenonT(30) DEF Reload, AllowTypeOK
  <1>7. CASE UNCHANGED allowVars
    BY <1>7 DEF allowVars, changeVars, AllowTypeOK
  <1> QED
    BY <1>1, <1>2, <1>3, <1>4, <1>5, <1>6, <1>7, SMTT(30) DEF AllowNext, Observing

\* Every step keeps what the calls under way know (peer.go:217, 225).
LEMMA CheckStep ==
  ASSUME AllowTypeOK, CheckInv, [AllowNext]_allowVars
  PROVE  CheckInv'
  <1>1. CASE Observing
    <2>1. Observe
      BY <1>1 DEF Observing, SetAuthMode, Register, Unregister, AllowPublicKey,
         RevokePublicKey
    <2> QED BY <2>1, ObserveKeeps
  <1>2. CASE UNCHANGED <<authMode, allowed, registered, check>>
    BY <1>2 DEF CheckInv, Between, Answered, Now
  <1>3. ASSUME NEW q \in Checkers, NEW p \in Peers, NEW k \in Keys, ReadKeys(q, p, k)
        PROVE  CheckInv'
    <2> DEFINE now == Rules(authMode, allowed, registered, p, k)
               new == [stage |-> IF authMode = "open" THEN "answered" ELSE "read",
                       peer |-> p, key |-> k, keyAllowed |-> k \in allowed,
                       answer |-> authMode = "open", ever |-> now # {}, steady |-> now]
    <2>1. /\ check' = [check EXCEPT ![q] = new]
          /\ UNCHANGED <<authMode, allowed, registered>>
      BY <1>3, SMTT(30) DEF ReadKeys
    <2>2. Now(new) = now
      BY DEF Now
    <2>3. now \subseteq RuleNames /\ ("open" \in now <=> authMode = "open")
          /\ ("key" \in now <=> k \in allowed)
      BY RulesAre, SMTT(30)
    <2> HIDE DEF now
    <2>4. new.stage = "read" => Between(new)
      BY <2>2, <2>3, ZenonT(30) DEF Between
    <2>5. new.stage = "answered" => Answered(new)
      BY <2>3, Zenon DEF Answered
    <2> HIDE DEF new
    <2>6. check'[q] = new /\ \A x \in Checkers \ {q} : check'[x] = check[x]
      BY <2>1 DEF AllowTypeOK
    <2> QED BY <2>1, <2>4, <2>5, <2>6, SMTT(30) DEF CheckInv, Between, Answered, Now
  <1>4. ASSUME NEW q \in Checkers, ReadPeers(q)
        PROVE  CheckInv'
    <2>1. /\ check[q].stage = "read"
          /\ UNCHANGED <<authMode, allowed, registered>>
          /\ \A x \in Checkers \ {q} : check'[x] = check[x]
      BY <1>4 DEF ReadPeers, AllowTypeOK
    <2>2. /\ check'[q].stage = "answered"
          /\ check'[q].answer = (check[q].peer \in registered \/ check[q].keyAllowed)
          /\ check'[q].ever = check[q].ever
          /\ check'[q].steady = check[q].steady
      BY <1>4, ChecksAre DEF ReadPeers, AllowTypeOK, Checks
    <2>3. Between(check[q]) /\ check[q].steady \subseteq RuleNames
      BY <2>1, ChecksAre DEF CheckInv
    <2>4. "peer" \in Now(check[q]) <=> check[q].peer \in registered
      BY RulesAre, SMTT(30) DEF Now
    <2>5. Answered(check'[q])
      BY <2>2, <2>3, <2>4, Zenon DEF Between, Answered, RuleNames
    <2> QED BY <2>1, <2>2, <2>5 DEF CheckInv, Between, Answered, Now
  <1>5. CASE Reload
    BY <1>5, Zenon DEF Reload, NoCheck, CheckInv
  <1>6. CASE Filing \/ UNCHANGED allowVars
    <2>1. UNCHANGED <<authMode, allowed, registered, check>>
      BY <1>6 DEF Filing, TakeSnapshot, WriteSidecar, RenameSidecar, SidecarMissing,
         SidecarFails, allowVars
    <2> QED BY <2>1, <1>2, SMTT(30)
  <1> QED
    BY <1>1, <1>3, <1>4, <1>5, <1>6 DEF AllowNext, Observing, Filing

\* Every step keeps a change that runs alone on its way to the file
\* (saveAllowedPublicKeys, peer.go:831).
LEMMA AloneStep ==
  ASSUME AllowTypeOK, AloneInv, [AllowNext]_allowVars
  PROVE  AloneInv'
  <1>1. CASE UNCHANGED <<allowed, changeVars>>
    BY <1>1, SMTT(30) DEF changeVars, AloneInv, Quiet
  <1>2. ASSUME NEW w \in Writers, StartChange(w),
               UNCHANGED <<copied, sidecarTmp, sidecar, sidecarFailed>>
        PROVE  AloneInv'
    <2>1. SUFFICES ASSUME ~overlap' PROVE AloneInv'
      BY DEF AloneInv
    <2>2. \A v \in Writers : writer'[v] = IF v = w THEN "changed" ELSE "idle"
      BY <1>2, <2>1, ZenonT(30) DEF StartChange, AllowTypeOK
    <2> QED BY <2>2, SMTT(30) DEF AloneInv, Quiet
  <1>3. ASSUME NEW w \in Writers, Filing, ~overlap, writer[w] # "idle"
        PROVE  /\ \A v \in Writers \ {w} : writer[v] = "idle" /\ writer'[v] = "idle"
               /\ UNCHANGED <<allowed, overlap>>
    <2>1. \A v \in Writers \ {w} : writer[v] = "idle"
      BY <1>3 DEF AloneInv
    <2>2. PICK v \in Writers : \/ TakeSnapshot(v) \/ WriteSidecar(v)
                               \/ RenameSidecar(v) \/ SidecarMissing(v) \/ SidecarFails(v)
      BY <1>3 DEF Filing
    <2>3. writer[v] # "idle" /\ UNCHANGED <<allowed, overlap>>
      BY <2>2 DEF TakeSnapshot, WriteSidecar, RenameSidecar, SidecarMissing, SidecarFails
    <2>4. \E x : writer' = [writer EXCEPT ![v] = x]
      BY <2>2 DEF TakeSnapshot, WriteSidecar, RenameSidecar, SidecarMissing, SidecarFails,
         EndChange
    <2> QED BY <2>1, <2>3, <2>4 DEF AllowTypeOK
  <1>4. ASSUME NEW w \in Writers, TakeSnapshot(w)
        PROVE  AloneInv'
    <2>1. SUFFICES ASSUME ~overlap PROVE AloneInv'
      BY <1>4, SMTT(30) DEF TakeSnapshot, AloneInv
    <2>2. \A v \in Writers \ {w} : writer'[v] = "idle"
      BY <1>3, <1>4, <2>1, Zenon DEF TakeSnapshot, Filing
    <2>3. /\ writer'[w] = "snapped" /\ copied'[w] = allowed
          /\ UNCHANGED <<allowed, sidecarFailed>>
      BY <1>4 DEF TakeSnapshot, AllowTypeOK
    <2> QED BY <2>2, <2>3 DEF AloneInv, Quiet
  <1>5. ASSUME NEW w \in Writers, WriteSidecar(w)
        PROVE  AloneInv'
    <2>1. SUFFICES ASSUME ~overlap PROVE AloneInv'
      BY <1>5 DEF WriteSidecar, AloneInv
    <2>2. \A v \in Writers \ {w} : writer'[v] = "idle"
      BY <1>3, <1>5, <2>1, Zenon DEF WriteSidecar, Filing
    <2>3. /\ writer[w] = "snapped" /\ writer'[w] = "written" /\ sidecarTmp' = {copied[w]}
          /\ UNCHANGED <<allowed, sidecarFailed>>
      BY <1>5 DEF WriteSidecar, AllowTypeOK
    <2> QED BY <2>1, <2>2, <2>3 DEF AloneInv, Quiet
  <1>6. ASSUME NEW w \in Writers, RenameSidecar(w)
        PROVE  AloneInv'
    <2>1. SUFFICES ASSUME ~overlap PROVE AloneInv'
      BY <1>6 DEF RenameSidecar, AloneInv
    <2>2. \A v \in Writers : writer'[v] = "idle"
      BY <1>3, <1>6, <2>1, Zenon DEF RenameSidecar, EndChange, Filing, AllowTypeOK
    <2>3. /\ writer[w] = "written" /\ sidecar' \in sidecarTmp
          /\ UNCHANGED <<allowed, sidecarFailed>>
      BY <1>6 DEF RenameSidecar
    <2> QED BY <2>1, <2>2, <2>3 DEF AloneInv
  <1>7. ASSUME NEW w \in Writers, SidecarMissing(w) \/ SidecarFails(w)
        PROVE  AloneInv'
    <2>1. SUFFICES ASSUME ~overlap PROVE AloneInv'
      BY <1>7 DEF SidecarMissing, SidecarFails, AloneInv
    <2>2. \A v \in Writers : writer'[v] = "idle"
      BY <1>3, <1>7, <2>1, Zenon DEF SidecarMissing, SidecarFails, EndChange, Filing, AllowTypeOK
    <2>3. sidecarFailed'
      BY <1>7 DEF SidecarMissing, SidecarFails
    <2> QED BY <2>2, <2>3 DEF AloneInv
  <1>8. CASE Reload
    BY <1>8 DEF Reload, AloneInv
  <1>9. ASSUME NEW w \in Writers, NEW k \in Keys, AllowPublicKey(w, k) \/ RevokePublicKey(w, k)
        PROVE  AloneInv'
    BY <1>2, <1>9 DEF AllowPublicKey, RevokePublicKey
  <1>10. CASE \/ \E mode \in {"open", "allowlist"} : SetAuthMode(mode)
              \/ \E p \in Peers : Register(p) \/ Unregister(p)
              \/ \E q \in Checkers, p \in Peers, k \in Keys : ReadKeys(q, p, k)
              \/ \E q \in Checkers : ReadPeers(q)
              \/ UNCHANGED allowVars
    <2>1. UNCHANGED <<allowed, changeVars>>
      BY <1>10, Zenon DEF SetAuthMode, Register, Unregister, ReadKeys, ReadPeers, allowVars
    <2> QED BY <2>1, <1>1
  <1> QED
    BY <1>4, <1>5, <1>6, <1>7, <1>8, <1>9, <1>10, SMTT(30) DEF AllowNext

\* The inductive invariant (peer.go:207-292, 831-872).
LEMMA AllowInductive == AllowSpec => []AllowInv
  <1>1. AllowInit => AllowInv
    <2>1. NoCheck \in Checks /\ NoCheck.stage = "idle"
      BY DEF NoCheck, Checks
    <2> QED
      BY <2>1, ZenonT(30) DEF AllowInit, AllowInv, AllowTypeOK, CheckInv, AloneInv
  <1>2. AllowInv /\ [AllowNext]_allowVars => AllowInv'
    BY AllowTypeStep, CheckStep, AloneStep DEF AllowInv
  <1> QED BY <1>1, <1>2, PTL DEF AllowSpec

--------------------------------------------------------------------------------
\* The fields of the registry that authentication uses, and the calls of
\* IsPeerAllowed, are always of their types (peer.go:207-231).
THEOREM AllowTypes == AllowSpec => []AllowTypeOK
  <1>1. AllowInv => AllowTypeOK
    BY DEF AllowInv
  <1> QED BY <1>1, AllowInductive, PTL

\* IsPeerAllowed lets in only who was allowed at some moment of the call, for any
\* number of checks and changes at once (peer.go:210).
THEOREM AllowTrueIsJustified == AllowSpec => []TrueIsJustified
  <1>1. AllowInv => TrueIsJustified
    BY SMTT(30) DEF AllowInv, CheckInv, Answered, TrueIsJustified
  <1> QED BY <1>1, AllowInductive, PTL

\* Nobody to whom one rule applied throughout the call is refused (peer.go:210).
THEOREM AllowSteadyRuleAdmits == AllowSpec => []SteadyRuleAdmits
  <1>1. AllowInv => SteadyRuleAdmits
    BY SMTT(30) DEF AllowInv, CheckInv, Answered, SteadyRuleAdmits
  <1> QED BY <1>1, AllowInductive, PTL

\* Changes of the allowlist that do not overlap and do not fail leave the file
\* equal to it when they return, across any number of restarts (peer.go:831).
THEOREM AllowSequentialPersisted == AllowSpec => []SequentialPersisted
  <1>1. AllowInv => SequentialPersisted
    BY DEF AllowInv, AloneInv, SequentialPersisted
  <1> QED BY <1>1, AllowInductive, PTL
================================================================================
