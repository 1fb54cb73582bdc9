---------------------------- MODULE ContentStore ----------------------------
(***************************************************************************)
(* The content-addressed store (FileSystemCAS, src/fetech/storage.py).     *)
(*                                                                         *)
(* put() and get() run in worker threads (asyncio.to_thread), so writers   *)
(* of one body interleave at every system call.  The file system gives     *)
(* what POSIX gives: a link is atomic, the data of a file survives a crash *)
(* once the file was fsynced, and a directory entry survives once its      *)
(* directories were.  Something outside may remove or damage a file.       *)
(***************************************************************************)
EXTENDS Naturals, FiniteSets

CONSTANTS
    Bodies,      \* contents, each with its own digest and path
    Writers,     \* calls of put()
    Readers,     \* calls of get()
    MaxMeddling, \* bound on removals and damage from outside
    MaxCrashes   \* bound on power losses

ASSUME StoreAssumption == MaxMeddling \in Nat /\ MaxCrashes \in Nat

Outside == "outside"                   \* the inode of a file put there by others
Absent  == [inode |-> "none", data |-> "none", synced |-> FALSE]
MaxLinkAttempts == 2                   \* range(2) in _write_atomic

VARIABLES
    file,        \* the file at a body's digest path
    entrySynced, \* its directory entry is on disk
    staged,      \* a writer's temporary file
    pc,          \* where a writer's thread is
    tries,       \* its _attempt
    bodyOf,      \* the body a writer or a reader asks for
    reader,      \* where a reader's thread is
    stat,        \* the inode a reader's lstat saw
    got,         \* the data a reader returned
    acked,       \* ghost: bodies whose put() returned
    meddled,     \* ghost: bodies whose file was removed or damaged from outside
    meddling, crashes

vars == <<file, entrySynced, staged, pc, tries, bodyOf, reader, stat, got, acked,
          meddled, meddling, crashes>>
disk     == <<file, entrySynced>>
readers  == <<reader, stat, got>>
history  == <<acked, meddled, meddling, crashes>>

Init ==
    /\ file = [b \in Bodies |-> Absent]
    /\ entrySynced = [b \in Bodies |-> FALSE]
    /\ staged = [w \in Writers |-> "none"]
    /\ pc = [w \in Writers |-> "idle"]
    /\ tries = [w \in Writers |-> 0]
    /\ bodyOf \in [Writers \cup Readers -> Bodies]
    /\ reader = [r \in Readers |-> "idle"]
    /\ stat = [r \in Readers |-> "none"]
    /\ got = [r \in Readers |-> "none"]
    /\ acked = {}
    /\ meddled = {}
    /\ meddling = 0
    /\ crashes = 0

----------------------------------------------------------------------------
(* put: _write_atomic *)

Target(w)  == file[bodyOf[w]]
Goto(w, p) == pc' = [pc EXCEPT ![w] = p]

\* _verify_existing succeeds: the file is there and holds the body
Verified(w) == Target(w).data = "good"

\* the first _verify_existing, after mkdir
CheckExisting(w) ==
    /\ pc[w] = "idle"
    /\ Goto(w, IF Target(w) = Absent THEN "stage"
               ELSE IF Verified(w) THEN "sync_directories" ELSE "failed")
    /\ UNCHANGED <<disk, staged, tries, bodyOf, readers, history>>

\* mkstemp and write; the data is in the page cache
Stage(w) ==
    /\ pc[w] = "stage"
    /\ staged' = [staged EXCEPT ![w] = "written"]
    /\ Goto(w, "fsync")
    /\ UNCHANGED <<disk, tries, bodyOf, readers, history>>

\* a full disk, a short write, any system call that fails: the finally unlinks
PutFails(w) ==
    /\ pc[w] \in {"stage", "fsync", "link", "sync_directories"}
    /\ staged' = [staged EXCEPT ![w] = "none"]
    /\ Goto(w, "failed")
    /\ UNCHANGED <<disk, tries, bodyOf, readers, history>>

SyncStaged(w) ==
    /\ pc[w] = "fsync"
    /\ staged' = [staged EXCEPT ![w] = "synced"]
    /\ Goto(w, "link")
    /\ UNCHANGED <<disk, tries, bodyOf, readers, history>>

StagedFile(w) == [inode |-> w, data |-> "good", synced |-> staged[w] = "synced"]

\* mutant of Link: os.replace instead of os.link
LinkReplacing(w) ==
    /\ pc[w] = "link"
    /\ file' = [file EXCEPT ![bodyOf[w]] = StagedFile(w)]
    /\ entrySynced' = [entrySynced EXCEPT ![bodyOf[w]] = FALSE]
    /\ Goto(w, "verify_linked")
    /\ UNCHANGED <<staged, tries, bodyOf, readers, history>>

\* os.link publishes the staged file, or finds the path taken
Link(w) ==
    /\ pc[w] = "link"
    /\ IF Target(w) = Absent
       THEN /\ file' = [file EXCEPT ![bodyOf[w]] = StagedFile(w)]
            /\ entrySynced' = [entrySynced EXCEPT ![bodyOf[w]] = FALSE]
            /\ Goto(w, "verify_linked")
       ELSE /\ Goto(w, "verify_taken")
            /\ UNCHANGED disk
    /\ UNCHANGED <<staged, tries, bodyOf, readers, history>>

\* another put won the race; a file that vanished again is linked once more
VerifyTaken(w) ==
    /\ pc[w] = "verify_taken"
    /\ tries' = IF Target(w) = Absent THEN [tries EXCEPT ![w] = @ + 1] ELSE tries
    /\ Goto(w, IF Target(w) = Absent
               THEN IF tries[w] + 1 < MaxLinkAttempts THEN "link" ELSE "give_up"
               ELSE IF Verified(w) THEN "sync_directories" ELSE "give_up")
    /\ UNCHANGED <<disk, staged, bodyOf, readers, history>>

VerifyLinked(w) ==
    /\ pc[w] = "verify_linked"
    /\ Goto(w, IF Verified(w) THEN "sync_directories" ELSE "give_up")
    /\ UNCHANGED <<disk, staged, tries, bodyOf, readers, history>>

\* mutant of SyncDirectories: the chain is only synced by the writer that linked
SyncOwnDirectories(w) ==
    /\ pc[w] = "sync_directories"
    /\ entrySynced' = [entrySynced EXCEPT ![bodyOf[w]] = @ \/ Target(w).inode = w]
    /\ Goto(w, "return")
    /\ UNCHANGED <<file, staged, tries, bodyOf, readers, history>>

\* _fsync_directory_chain, up to the root of the store
SyncDirectories(w) ==
    /\ pc[w] = "sync_directories"
    /\ entrySynced' = [entrySynced EXCEPT ![bodyOf[w]] = Target(w) # Absent]
    /\ Goto(w, "return")
    /\ UNCHANGED <<file, staged, tries, bodyOf, readers, history>>

\* the finally unlinks the temporary name, then put returns or raises
PutReturns(w) ==
    /\ pc[w] \in {"return", "give_up"}
    /\ staged' = [staged EXCEPT ![w] = "none"]
    /\ Goto(w, IF pc[w] = "return" THEN "stored" ELSE "failed")
    /\ acked' = IF pc[w] = "return" THEN acked \cup {bodyOf[w]} ELSE acked
    /\ UNCHANGED <<disk, tries, bodyOf, readers, meddled, meddling, crashes>>

----------------------------------------------------------------------------
(* get: _read_verified *)

ReaderTo(r, p) == reader' = [reader EXCEPT ![r] = p]
writers == <<disk, staged, pc, tries, bodyOf, history>>

ReadStat(r) ==
    /\ reader[r] = "idle"
    /\ stat' = [stat EXCEPT ![r] = file[bodyOf[r]].inode]
    /\ ReaderTo(r, IF file[bodyOf[r]] = Absent THEN "failed" ELSE "open")
    /\ UNCHANGED <<writers, got>>

\* open and fstat: a file replaced since the lstat is refused
ReadOpen(r) ==
    /\ reader[r] = "open"
    /\ ReaderTo(r, IF file[bodyOf[r]].inode = stat[r] THEN "read" ELSE "failed")
    /\ UNCHANGED <<writers, stat, got>>

\* what the open descriptor yields; an unlinked file may have been damaged too
Contents(r) ==
    IF file[bodyOf[r]].inode = stat[r] THEN {file[bodyOf[r]].data} ELSE {"good", "bad"}

\* the body is returned if its digest is the one asked for
ReadAll(r) ==
    /\ reader[r] = "read"
    /\ \E data \in Contents(r) :
         IF data = "good"
         THEN got' = [got EXCEPT ![r] = data] /\ ReaderTo(r, "returned")
         ELSE ReaderTo(r, "failed") /\ UNCHANGED got
    /\ UNCHANGED <<writers, stat>>

----------------------------------------------------------------------------
(* Outside the store *)

Meddle(b, new) ==
    /\ meddling < MaxMeddling
    /\ meddling' = meddling + 1
    /\ meddled' = meddled \cup {b}
    /\ file' = [file EXCEPT ![b] = new]
    /\ UNCHANGED <<entrySynced, staged, pc, tries, bodyOf, readers, acked, crashes>>

\* a file is removed, damaged in place, or replaced by another one
Remove(b)  == file[b] # Absent /\ Meddle(b, Absent)
Damage(b)  == file[b] # Absent /\ Meddle(b, [file[b] EXCEPT !.data = "bad"])
Replace(b) == Meddle(b, [inode |-> Outside, data |-> "bad", synced |-> TRUE])

(* Power loss.  An entry that was not synced may be gone; the data of a    *)
(* file that was not synced may be torn.  All threads end.                 *)
AfterCrash(b) ==
    LET f == file[b] IN
    (IF entrySynced[b] THEN {} ELSE {Absent}) \cup
    (IF f = Absent \/ f.synced THEN {f} ELSE {f, [f EXCEPT !.data = "bad"]})

Crash ==
    /\ crashes < MaxCrashes
    /\ crashes' = crashes + 1
    /\ \E after \in [Bodies -> UNION { AfterCrash(b) : b \in Bodies }] :
          /\ \A b \in Bodies : after[b] \in AfterCrash(b)
          /\ file' = after
    /\ entrySynced' = [b \in Bodies |-> file'[b] # Absent]
    /\ pc' = [w \in Writers |-> IF pc[w] \in {"idle", "stored", "failed"} THEN pc[w]
                                                                          ELSE "gone"]
    /\ reader' = [r \in Readers |-> IF reader[r] \in {"open", "read"} THEN "gone"
                                                                      ELSE reader[r]]
    /\ UNCHANGED <<staged, tries, bodyOf, stat, got, acked, meddled, meddling>>

----------------------------------------------------------------------------
WriterStep(w) ==
    \/ CheckExisting(w) \/ Stage(w) \/ PutFails(w) \/ SyncStaged(w) \/ Link(w)
    \/ VerifyTaken(w) \/ VerifyLinked(w) \/ SyncDirectories(w) \/ PutReturns(w)

ReaderStep(r) == ReadStat(r) \/ ReadOpen(r) \/ ReadAll(r)

Next ==
    \/ \E w \in Writers : WriterStep(w)
    \/ \E r \in Readers : ReaderStep(r)
    \/ \E b \in Bodies : Remove(b) \/ Damage(b) \/ Replace(b)
    \/ Crash

Spec == Init /\ [][Next]_vars

----------------------------------------------------------------------------
(* Properties *)

Files == [inode : Writers \cup {Outside, "none"}, data : {"none", "good", "bad"},
          synced : BOOLEAN]

TypeOK ==
    /\ file \in [Bodies -> Files]
    /\ entrySynced \in [Bodies -> BOOLEAN]
    /\ staged \in [Writers -> {"none", "written", "synced"}]
    /\ pc \in [Writers -> {"idle", "stage", "fsync", "link", "verify_taken",
                           "verify_linked", "sync_directories", "return", "give_up",
                           "stored", "failed", "gone"}]
    /\ tries \in [Writers -> 0..MaxLinkAttempts]
    /\ bodyOf \in [Writers \cup Readers -> Bodies]
    /\ reader \in [Readers -> {"idle", "open", "read", "returned", "failed", "gone"}]
    /\ stat \in [Readers -> Writers \cup {Outside, "none"}]
    /\ got \in [Readers -> {"none", "good", "bad"}]
    /\ acked \subseteq Bodies
    /\ meddled \subseteq Bodies
    /\ meddling \in 0..MaxMeddling
    /\ crashes \in 0..MaxCrashes

(* Durability.  Once a put() of a body has returned, the body is in the    *)
(* store, intact, and stays so through a power loss at any later moment    *)
(* (unless someone outside removed or damaged it), also when the put only  *)
(* found the file another writer had linked and not yet synced.            *)
AckedSurvives ==
    \A b \in acked \ meddled : file[b].data = "good"

(* The store keeps what BodyStore promises: nothing at a digest path is    *)
(* ever replaced, not even damaged content; an acknowledged body lasts;    *)
(* and a get() that returns, returns the body its URI names, whatever      *)
(* happened to the file before, while or after it was opened.              *)
Promised == INSTANCE BodyStore WITH
    held   <- [b \in Bodies |-> file[b].data],
    answer <- [r \in Readers |-> CASE reader[r] = "returned" -> got[r]
                                   [] reader[r] = "failed"   -> "refused"
                                   [] OTHER                  -> "none"]
ImplementsBodyStore == Promised!BodySpec

=============================================================================
