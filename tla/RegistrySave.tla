------------------------------ MODULE RegistrySave -----------------------------
(***************************************************************************)
(* Persistence of the PeerRegistry of go/node/peer.go: the debounced save, *)
(* the timer callbacks, Close, the temporary file that all of them share,  *)
(* and a restart that loads what is on disk.                               *)
(*                                                                         *)
(* The peers map is abstracted to the number of the last change applied to *)
(* it.  A step is a critical section of r.mu or r.saveMu, or one operation *)
(* on a file; coreio.Local.Write is taken as truncating, then writing.     *)
(***************************************************************************)
EXTENDS Integers

CONSTANTS
    Callers,     \* goroutines that change peers
    Timers,      \* bound: timers of scheduleSave that exist at once
    Closers,     \* bound: calls of Close
    MaxChanges,  \* bound: changes of the peers map
    None         \* nil

Savers == Timers \cup Closers

ASSUME RegistrySaveAssumption ==
    /\ Timers \cap Closers = {}
    /\ MaxChanges \in Nat
    /\ None \notin Timers

Absent == -2   \* no such file
Torn   == -1   \* a file that is truncated but not yet written

VARIABLES
    mem,        \* r.peers
    last,       \* the last change made, in this or an earlier life
    caller,     \* caller[k]: between r.mu.Unlock and r.save, or not
    dirty,      \* r.dirty
    saveTimer,  \* r.saveTimer
    pc,         \* pc[s]: progress of a timer and its callback, or of a Close
    snap,       \* snap[s]: the data that saveNow has marshalled
    fd,         \* fd[s]: where the file is now that saveNow of s is writing
    tmp,        \* the file at r.path + ".tmp"
    disk,       \* the file at r.path
    failed      \* history: a save failed, and nothing was scheduled since with no
                \* save under way

vars == <<mem, last, caller, dirty, saveTimer, pc, snap, fd, tmp, disk, failed>>

Contents == {Torn} \cup 0..last

TypeOK ==
    /\ last \in 0..MaxChanges
    /\ mem \in 0..last
    /\ caller \in [Callers -> {"idle", "changed"}]
    /\ dirty \in BOOLEAN
    /\ saveTimer \in Timers \cup {None}
    /\ pc \in [Savers -> {"idle", "armed", "fired", "due", "writing", "written",
                          "undoing", "cleaning", "ok", "failed"}]
    /\ snap \in [Savers -> 0..last]
    /\ fd \in [Savers -> {"tmp", "path", "gone"}]
    /\ tmp \in Contents \cup {Absent}
    /\ disk \in Contents
    /\ failed \in BOOLEAN

\* NewPeerRegistryWithPath on an empty directory, or one with a saved registry;
\* an absent file and an empty registry are both content 0.
Init ==
    /\ mem = 0
    /\ last = 0
    /\ caller = [k \in Callers |-> "idle"]
    /\ dirty = FALSE
    /\ saveTimer = None
    /\ pc = [s \in Savers |-> "idle"]
    /\ snap = [s \in Savers |-> 0]
    /\ fd = [s \in Savers |-> "gone"]
    /\ tmp = Absent
    /\ disk = 0
    /\ failed = FALSE

--------------------------------------------------------------------------------
(* The methods that change peers. *)

MutRLocked == FALSE

\* Some saveNow holds r.mu for reading.
RLocked == \E s \in Savers : pc[s] \in {"writing", "written", "undoing", "cleaning"}

\* AddPeer, UpdatePeer, RemovePeer and the others: the part under r.mu.
Change(k) ==
    /\ caller[k] = "idle"
    /\ ~RLocked
    /\ last < MaxChanges
    /\ last' = last + 1
    /\ mem' = last + 1
    /\ caller' = [caller EXCEPT ![k] = "changed"]
    /\ UNCHANGED <<dirty, saveTimer, pc, snap, fd, tmp, disk, failed>>

\* scheduleSave finds a timer.
ScheduleCoalesced(k) ==
    /\ caller[k] = "changed"
    /\ saveTimer # None
    /\ dirty' = TRUE
    /\ failed' = (failed /\ RLocked)
    /\ caller' = [caller EXCEPT ![k] = "idle"]
    /\ UNCHANGED <<mem, last, saveTimer, pc, snap, fd, tmp, disk>>

\* scheduleSave starts timer t.
ScheduleArmed(k, t) ==
    /\ caller[k] = "changed"
    /\ saveTimer = None
    /\ pc[t] = "idle"
    /\ dirty' = TRUE
    /\ failed' = (failed /\ RLocked)
    /\ saveTimer' = t
    /\ pc' = [pc EXCEPT ![t] = "armed"]
    /\ caller' = [caller EXCEPT ![k] = "idle"]
    /\ UNCHANGED <<mem, last, snap, fd, tmp, disk>>

--------------------------------------------------------------------------------
(* The timer's callback and Close. *)

\* saveDebounceInterval is over: the runtime starts the callback.
Fire(t) ==
    /\ pc[t] = "armed"
    /\ pc' = [pc EXCEPT ![t] = "fired"]
    /\ UNCHANGED <<mem, last, caller, dirty, saveTimer, snap, fd, tmp, disk, failed>>

\* The callback's section under r.saveMu.
CallbackTakes(t) ==
    /\ pc[t] = "fired"
    /\ saveTimer' = None
    /\ dirty' = FALSE
    /\ pc' = [pc EXCEPT ![t] = IF dirty THEN "due" ELSE "idle"]
    /\ UNCHANGED <<mem, last, caller, snap, fd, tmp, disk, failed>>

MutCloseTakes(c) ==
    /\ pc[c] = "idle"
    /\ UNCHANGED saveTimer
    /\ dirty' = FALSE
    /\ pc' = [s \in Savers |->
                IF s = c THEN IF dirty THEN "due" ELSE "ok"
                ELSE IF s = saveTimer /\ pc[s] = "armed" THEN "idle" ELSE pc[s]]
    /\ UNCHANGED <<mem, last, caller, snap, fd, tmp, disk, failed>>

\* Close's section under r.saveMu.  Stop has no effect on a timer that fired.
CloseTakes(c) ==
    /\ pc[c] = "idle"
    /\ saveTimer' = None
    /\ dirty' = FALSE
    /\ pc' = [s \in Savers |->
                IF s = c THEN IF dirty THEN "due" ELSE "ok"
                ELSE IF s = saveTimer /\ pc[s] = "armed" THEN "idle" ELSE pc[s]]
    /\ UNCHANGED <<mem, last, caller, snap, fd, tmp, disk, failed>>

--------------------------------------------------------------------------------
(* saveNow, under r.mu.RLock: several may run at once. *)

\* s leaves saveNow; a callback only logs the outcome.
Leave(s, outcome) ==
    pc' = [pc EXCEPT ![s] = IF s \in Timers THEN "idle" ELSE outcome]

\* Marshal the peers, then open and truncate the temporary file.
OpenTmp(s) ==
    /\ pc[s] = "due"
    /\ pc' = [pc EXCEPT ![s] = "writing"]
    /\ snap' = [snap EXCEPT ![s] = mem]
    /\ fd' = [fd EXCEPT ![s] = "tmp"]
    /\ tmp' = Torn
    /\ UNCHANGED <<mem, last, caller, dirty, saveTimer, disk, failed>>

\* The bytes reach the file that was opened, wherever it is by now.
WriteTmp(s) ==
    /\ pc[s] = "writing"
    /\ pc' = [pc EXCEPT ![s] = "written"]
    /\ tmp' = IF fd[s] = "tmp" THEN snap[s] ELSE tmp
    /\ disk' = IF fd[s] = "path" THEN snap[s] ELSE disk
    /\ UNCHANGED <<mem, last, caller, dirty, saveTimer, snap, fd, failed>>

\* Rename succeeds; it moves whatever the temporary path names.
RenameTmp(s) ==
    /\ pc[s] = "written"
    /\ tmp # Absent
    /\ Leave(s, "ok")
    /\ disk' = tmp
    /\ tmp' = Absent
    /\ fd' = [q \in Savers |-> IF fd[q] = "tmp" THEN "path" ELSE "gone"]
    /\ UNCHANGED <<mem, last, caller, dirty, saveTimer, snap, failed>>

\* Rename fails because an overlapping save has moved the file already.
RenameMissing(s) ==
    /\ pc[s] = "written"
    /\ tmp = Absent
    /\ pc' = [pc EXCEPT ![s] = "cleaning"]
    /\ UNCHANGED <<mem, last, caller, dirty, saveTimer, snap, fd, tmp, disk, failed>>

\* EnsureDir, JSONMarshalIndent, opening or writing the file fails.
SaveFails(s) ==
    /\ pc[s] \in {"due", "writing"}
    /\ Leave(s, "failed")
    /\ failed' = TRUE
    /\ UNCHANGED <<mem, last, caller, dirty, saveTimer, snap, fd, tmp, disk>>

\* Rename fails on its own.
RenameFails(s) ==
    /\ pc[s] = "written"
    /\ tmp # Absent
    /\ pc' = [pc EXCEPT ![s] = "undoing"]
    /\ UNCHANGED <<mem, last, caller, dirty, saveTimer, snap, fd, tmp, disk, failed>>

\* After a rename that failed, delete whatever is at the temporary path now.
DeleteTmp(s) ==
    /\ pc[s] \in {"undoing", "cleaning"}
    /\ Leave(s, "failed")
    /\ failed' = (failed \/ pc[s] = "undoing")
    /\ tmp' = Absent
    /\ fd' = [q \in Savers |-> IF fd[q] = "tmp" THEN "gone" ELSE fd[q]]
    /\ UNCHANGED <<mem, last, caller, dirty, saveTimer, snap, disk>>

--------------------------------------------------------------------------------
\* load: a file that does not parse counts as no peers at all.
Loaded(content) == IF content = Torn THEN 0 ELSE content

\* The process ends, at any point, and the program is started again.
Restart ==
    /\ mem' = Loaded(disk)
    /\ caller' = [k \in Callers |-> "idle"]
    /\ dirty' = FALSE
    /\ saveTimer' = None
    /\ pc' = [s \in Savers |-> "idle"]
    /\ snap' = [s \in Savers |-> 0]
    /\ fd' = [s \in Savers |-> "gone"]
    /\ failed' = FALSE
    /\ UNCHANGED <<last, tmp, disk>>

Schedule(k) == ScheduleCoalesced(k) \/ \E t \in Timers : ScheduleArmed(k, t)

Save(s) == OpenTmp(s) \/ WriteTmp(s) \/ RenameTmp(s) \/ RenameMissing(s) \/ DeleteTmp(s)

Next ==
    \/ \E k \in Callers : Change(k) \/ Schedule(k)
    \/ \E t \in Timers : Fire(t) \/ CallbackTakes(t)
    \/ \E c \in Closers : CloseTakes(c)
    \/ \E s \in Savers : Save(s) \/ SaveFails(s) \/ RenameFails(s)
    \/ Restart

Spec == Init /\ [][Next]_vars

\* Timers fire, and goroutines that can step do.  Nothing forces a change, a
\* call of Close, a failure or a restart.
Fairness ==
    /\ \A k \in Callers : WF_vars(Schedule(k))
    /\ \A t \in Timers : WF_vars(Fire(t) \/ CallbackTakes(t))
    /\ \A s \in Savers : WF_vars(Save(s))

FairSpec == Spec /\ Fairness

--------------------------------------------------------------------------------
Owed ==
    \/ dirty
    \/ \E k \in Callers : caller[k] = "changed"
    \/ \E s \in Savers : pc[s] \in {"due", "writing", "written", "undoing", "cleaning"}

\* No change is lost as long as the process lives and saves succeed: memory is
\* what a restart would load, or somebody is still going to save it, though a
\* Close that finds dirty taken by a callback does not wait for it.  Saves
\* overlap, share one temporary file and can lose the race for it, but the
\* read lock of saveNow (peer.go:761, 822) keeps an older snapshot from landing
\* on a newer one.
NoLostChange == Loaded(disk) = mem \/ Owed \/ failed

\* Whatever is changed is on disk some time later, without another change or a
\* Close, unless saving fails: after any mix of changes, callbacks and calls of
\* Close a dirty registry has a timer that runs (peer.go:748, 755, 815), and
\* never waits for one that was stopped.
EventuallySaved == []<>(Loaded(disk) = mem \/ failed)
================================================================================
