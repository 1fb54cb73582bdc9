------------------------- MODULE ContentStoreProofs -------------------------
(***************************************************************************)
(* Proofs about ContentStore for every set of bodies, writers and readers  *)
(* and any number of removals, damages and power losses: what put()        *)
(* acknowledged is durable, and the store implements BodyStore.            *)
(***************************************************************************)
EXTENDS ContentStore, TLAPS

\* A writer that is about to link has fsynced its temporary file and has an
\* attempt left.
StagedInv ==
    \A w \in Writers :
        /\ pc[w] \in {"idle", "stage", "fsync"} => tries[w] = 0
        /\ pc[w] \in {"link", "verify_taken"} =>
             staged[w] = "synced" /\ tries[w] < MaxLinkAttempts

\* Every file has content, and as long as nobody meddled, what is at a digest
\* path is the body, fsynced.
IntactInv ==
    \A b \in Bodies :
        \/ file[b] = Absent
        \/ /\ file[b].data # "none"
           /\ b \notin meddled => file[b].data = "good" /\ file[b].synced

\* A writer past its link has its file there, and when it is about to
\* return the entry is on disk.
WriterInv ==
    \A w \in Writers : bodyOf[w] \notin meddled =>
        /\ pc[w] \in {"verify_linked", "sync_directories", "return"} => Target(w) # Absent
        /\ pc[w] = "return" => entrySynced[bodyOf[w]]

\* What was acknowledged is there and its entry is on disk.
AckedInv ==
    \A b \in acked \ meddled : file[b] # Absent /\ entrySynced[b]

\* A reader between lstat and its last read looks at the file it saw.
ReaderInv ==
    \A r \in Readers : reader[r] \in {"open", "read"} /\ bodyOf[r] \notin meddled =>
        file[bodyOf[r]] # Absent /\ file[bodyOf[r]].inode = stat[r]

StoreInv == TypeOK /\ StagedInv /\ IntactInv /\ WriterInv /\ AckedInv /\ ReaderInv

----------------------------------------------------------------------------
\* A damaged file is a file.
LEMMA DamagedFile ==
    ASSUME NEW f \in Files
    PROVE  [f EXCEPT !.data = "bad"] \in Files
<1>1. [f EXCEPT !.data = "bad"] = [inode |-> f.inode, data |-> "bad", synced |-> f.synced]
  BY DEF Files
<1>2. f.inode \in Writers \cup {Outside, "none"} /\ f.synced \in BOOLEAN
  BY DEF Files
<1> QED
  BY <1>1, <1>2 DEF Files

\* The initial states are well-typed.
LEMMA InitTypeOK == Init => TypeOK
<1>1. Absent \in Files
  BY DEF Absent, Files
<1>2. 0 \in 0..MaxLinkAttempts /\ 0 \in 0..MaxMeddling /\ 0 \in 0..MaxCrashes
  BY StoreAssumption DEF MaxLinkAttempts
<1> QED
  BY <1>1, <1>2 DEF Init, TypeOK

\* A step of a writer keeps the types.
LEMMA WriterTypeOK ==
    ASSUME TypeOK, StagedInv, NEW w \in Writers, WriterStep(w)
    PROVE  TypeOK'
<1> USE DEF TypeOK, Goto, disk, readers, history
<1>1. CASE CheckExisting(w)
  BY <1>1 DEF CheckExisting
<1>2. CASE Stage(w)
  BY <1>2 DEF Stage
<1>3. CASE PutFails(w)
  BY <1>3 DEF PutFails
<1>4. CASE SyncStaged(w)
  BY <1>4 DEF SyncStaged
<1>5. CASE Link(w)
  <2>1. StagedFile(w) \in Files
    BY DEF StagedFile, Files
  <2> QED
    BY <1>5, <2>1 DEF Link
<1>6. CASE VerifyTaken(w)
  <2>1. tries' \in [Writers -> 0..MaxLinkAttempts]
    BY <1>6 DEF VerifyTaken, StagedInv, MaxLinkAttempts
  <2> QED
    BY <1>6, <2>1 DEF VerifyTaken
<1>7. CASE VerifyLinked(w)
  BY <1>7 DEF VerifyLinked
<1>8. CASE SyncDirectories(w)
  BY <1>8 DEF SyncDirectories
<1>9. CASE PutReturns(w)
  BY <1>9 DEF PutReturns
<1> QED
  BY <1>1, <1>2, <1>3, <1>4, <1>5, <1>6, <1>7, <1>8, <1>9 DEF WriterStep

\* A step of a reader, of something outside, or a power loss keeps them too.
LEMMA OtherTypeOK ==
    ASSUME TypeOK,
           \/ \E r \in Readers : ReaderStep(r)
           \/ \E b \in Bodies : Remove(b) \/ Damage(b) \/ Replace(b)
           \/ Crash
    PROVE  TypeOK'
<1> USE StoreAssumption DEF TypeOK
<1>1. ASSUME NEW r \in Readers, ReaderStep(r)
      PROVE  TypeOK'
  <2> USE DEF ReaderTo, writers, disk, history
  <2>1. CASE ReadStat(r)
    BY <2>1 DEF ReadStat, Files
  <2>2. CASE ReadOpen(r)
    BY <2>2 DEF ReadOpen
  <2>3. CASE ReadAll(r)
    BY <2>3 DEF ReadAll
  <2> QED
    BY <1>1, <2>1, <2>2, <2>3 DEF ReaderStep
<1>2. ASSUME NEW b \in Bodies, NEW new \in Files, Meddle(b, new)
      PROVE  TypeOK'
  BY <1>2 DEF Meddle, readers
<1>3. ASSUME NEW b \in Bodies, Remove(b) \/ Damage(b) \/ Replace(b)
      PROVE  TypeOK'
  <2>1. /\ Absent \in Files
        /\ [inode |-> Outside, data |-> "bad", synced |-> TRUE] \in Files
    BY DEF Files, Absent
  <2>2. [file[b] EXCEPT !.data = "bad"] \in Files
    BY DamagedFile
  <2> QED
    BY <1>2, <1>3, <2>1, <2>2 DEF Remove, Damage, Replace
<1>4. CASE Crash
  <2>1. ASSUME NEW b \in Bodies
        PROVE  AfterCrash(b) \subseteq Files
    <3>1. Absent \in Files
      BY DEF Files, Absent
    <3> QED
      BY <3>1, DamagedFile DEF AfterCrash
  <2>2. file' \in [Bodies -> Files]
    <3>1. PICK after \in [Bodies -> UNION { AfterCrash(b) : b \in Bodies }] :
            (\A b \in Bodies : after[b] \in AfterCrash(b)) /\ file' = after
      BY <1>4 DEF Crash
    <3> QED
      BY <3>1, <2>1
  <2> QED
    BY <1>4, <2>2 DEF Crash
<1> QED
  BY <1>1, <1>3, <1>4

----------------------------------------------------------------------------
(* The invariant *)

\* A writer keeps the invariant: the only file it creates is a synced copy of
\* the body, where nothing was, and it returns only after the entry is synced.
LEMMA WriterStoreInv ==
    ASSUME StoreInv, NEW w \in Writers, WriterStep(w)
    PROVE  StoreInv'
<1> USE DEF StoreInv
<1>0. TypeOK'
  BY WriterTypeOK
<1> USE DEF StagedInv, IntactInv, WriterInv, AckedInv, ReaderInv, Goto, Target,
            disk, readers, history
<1>1. CASE CheckExisting(w)
  BY <1>0, <1>1 DEF CheckExisting, Verified, TypeOK, Absent
<1>2. CASE Stage(w)
  BY <1>0, <1>2 DEF Stage, TypeOK
<1>3. CASE PutFails(w)
  BY <1>0, <1>3 DEF PutFails, TypeOK
<1>4. CASE SyncStaged(w)
  BY <1>0, <1>4 DEF SyncStaged, TypeOK, MaxLinkAttempts
<1>5. CASE Link(w)
  <2>1. CASE Target(w) = Absent
    <3>1. StagedFile(w).data = "good" /\ StagedFile(w).synced /\ StagedFile(w) # Absent
      BY <1>5 DEF Link, StagedFile, Absent
    <3> QED
      BY <1>0, <1>5, <2>1, <3>1 DEF Link, TypeOK
  <2>2. CASE Target(w) # Absent
    BY <1>0, <1>5, <2>2 DEF Link, TypeOK
  <2> QED
    BY <2>1, <2>2
<1>6. CASE VerifyTaken(w)
  BY <1>0, <1>6 DEF VerifyTaken, Verified, TypeOK, Absent
<1>7. CASE VerifyLinked(w)
  BY <1>0, <1>7 DEF VerifyLinked, TypeOK
<1>8. CASE SyncDirectories(w)
  <2>1. /\ entrySynced'[bodyOf[w]] = (Target(w) # Absent)
        /\ \A b \in Bodies \ {bodyOf[w]} : entrySynced'[b] = entrySynced[b]
        /\ pc'[w] = "return"
        /\ \A v \in Writers \ {w} : pc'[v] = pc[v]
        /\ UNCHANGED <<file, staged, tries, bodyOf, reader, stat, got, acked, meddled>>
    BY <1>8 DEF SyncDirectories, TypeOK
  <2>2. WriterInv'
    <3> SUFFICES ASSUME NEW v \in Writers, bodyOf[v] \notin meddled,
                        pc'[v] \in {"verify_linked", "sync_directories", "return"}
                 PROVE  file[bodyOf[v]] # Absent /\ (pc'[v] = "return" => entrySynced'[bodyOf[v]])
      BY <2>1
    <3>1. pc[v] \in {"verify_linked", "sync_directories", "return"}
      BY <1>8, <2>1 DEF SyncDirectories
    <3>2. file[bodyOf[v]] # Absent
      BY <3>1
    <3>3. CASE bodyOf[v] = bodyOf[w]
      BY <3>2, <3>3, <2>1
    <3>4. CASE bodyOf[v] # bodyOf[w]
      BY <3>2, <3>4, <2>1 DEF TypeOK
    <3> QED
      BY <3>3, <3>4
  <2>3. AckedInv'
    BY <1>8, <2>1 DEF SyncDirectories, TypeOK
  <2> QED
    BY <1>0, <2>1, <2>2, <2>3
<1>9. CASE PutReturns(w)
  BY <1>0, <1>9 DEF PutReturns, TypeOK
<1> QED
  BY <1>1, <1>2, <1>3, <1>4, <1>5, <1>6, <1>7, <1>8, <1>9 DEF WriterStep

\* A reader changes nothing but what it saw itself.
LEMMA ReaderStoreInv ==
    ASSUME StoreInv, NEW r \in Readers, ReaderStep(r)
    PROVE  StoreInv'
<1> USE DEF StoreInv
<1>0. TypeOK'
  BY OtherTypeOK
<1> USE DEF StagedInv, IntactInv, WriterInv, AckedInv, ReaderInv, ReaderTo, Target,
            writers, disk, history
<1>1. CASE ReadStat(r)
  BY <1>0, <1>1 DEF ReadStat, TypeOK
<1>2. CASE ReadOpen(r)
  BY <1>0, <1>2 DEF ReadOpen, TypeOK
<1>3. CASE ReadAll(r)
  BY <1>0, <1>3 DEF ReadAll, TypeOK
<1> QED
  BY <1>1, <1>2, <1>3 DEF ReaderStep

\* Whatever meddles with a file leaves nothing, or bad content.
LEMMA MeddledFile ==
    ASSUME TypeOK, NEW b \in Bodies, Remove(b) \/ Damage(b) \/ Replace(b)
    PROVE  \E new : Meddle(b, new) /\ (new = Absent \/ new.data = "bad")
<1>1. CASE Remove(b)
  BY <1>1 DEF Remove
<1>2. CASE Damage(b)
  <2>1. [file[b] EXCEPT !.data = "bad"].data = "bad"
    BY DEF TypeOK, Files
  <2> QED
    BY <1>2, <2>1 DEF Damage
<1>3. CASE Replace(b)
  BY <1>3 DEF Replace
<1> QED
  BY <1>1, <1>2, <1>3

\* Whoever meddles with a file takes it out of the invariant.
LEMMA MeddleStoreInv ==
    ASSUME StoreInv, NEW b \in Bodies, Remove(b) \/ Damage(b) \/ Replace(b)
    PROVE  StoreInv'
<1> USE DEF StoreInv
<1>0. TypeOK'
  BY OtherTypeOK
<1>1. /\ meddled' = meddled \cup {b}
      /\ \A c \in Bodies \ {b} : file'[c] = file[c]
      /\ UNCHANGED <<entrySynced, staged, pc, tries, bodyOf, reader, stat, got, acked>>
  BY DEF Remove, Damage, Replace, Meddle, TypeOK, readers
<1>2. file'[b] = Absent \/ file'[b].data = "bad"
  BY MeddledFile DEF Meddle, TypeOK
<1> QED
  BY <1>0, <1>1, <1>2 DEF StagedInv, IntactInv, WriterInv, AckedInv, ReaderInv, Target, TypeOK

\* A power loss takes only entries that were not synced; all files at digest
\* paths were.
LEMMA CrashStoreInv ==
    ASSUME StoreInv, Crash
    PROVE  StoreInv'
<1> USE DEF StoreInv
<1>0. TypeOK'
  BY OtherTypeOK
<1>1. \A b \in Bodies : file'[b] \in AfterCrash(b)
  BY DEF Crash
<1>2. \A b \in Bodies \ meddled :
        /\ file'[b] \in {Absent, file[b]}
        /\ entrySynced[b] => file'[b] = file[b]
        /\ entrySynced'[b] = (file'[b] # Absent)
  BY <1>1 DEF Crash, AfterCrash, IntactInv, TypeOK
<1>3. /\ \A w \in Writers : \/ pc'[w] = pc[w] /\ pc[w] \in {"idle", "stored", "failed"}
                            \/ pc'[w] = "gone"
      /\ \A r \in Readers : reader'[r] \notin {"open", "read"}
      /\ UNCHANGED <<staged, tries, bodyOf, stat, got, acked, meddled>>
  BY DEF Crash, TypeOK
<1>4. StagedInv' /\ WriterInv' /\ ReaderInv'
  BY <1>0, <1>3 DEF StagedInv, WriterInv, ReaderInv, TypeOK
<1>5. \A b \in Bodies : file'[b] = Absent \/ file'[b].data # "none"
  <2> SUFFICES ASSUME NEW b \in Bodies PROVE file'[b] = Absent \/ file'[b].data # "none"
    OBVIOUS
  <2>1. [file[b] EXCEPT !.data = "bad"].data = "bad"
    BY DEF TypeOK, Files
  <2> QED
    BY <1>1, <2>1 DEF AfterCrash, IntactInv
<1>6. IntactInv' /\ AckedInv'
  BY <1>2, <1>3, <1>5 DEF IntactInv, AckedInv, TypeOK
<1> QED
  BY <1>0, <1>4, <1>6

\* StoreInv is inductive.
THEOREM StoreInvariance == Spec => []StoreInv
<1>1. Init => StoreInv
  <2> SUFFICES ASSUME Init PROVE StoreInv
    OBVIOUS
  <2>1. TypeOK
    BY InitTypeOK
  <2> QED
    BY <2>1 DEF Init, StoreInv, StagedInv, IntactInv, WriterInv, AckedInv, ReaderInv
<1>2. StoreInv /\ [Next]_vars => StoreInv'
  <2> SUFFICES ASSUME StoreInv, [Next]_vars PROVE StoreInv'
    OBVIOUS
  <2>1. CASE UNCHANGED vars
    BY <2>1 DEF vars, StoreInv, TypeOK, StagedInv, IntactInv, WriterInv, AckedInv,
                ReaderInv, Target
  <2> QED
    BY <2>1, WriterStoreInv, ReaderStoreInv, MeddleStoreInv, CrashStoreInv DEF Next
<1> QED
  BY <1>1, <1>2, PTL DEF Spec

(* Type correctness, for any number of bodies, writers, readers, removals  *)
(* and power losses.                                                       *)
THEOREM TypeCorrect == Spec => []TypeOK
<1>1. StoreInv => TypeOK
  BY DEF StoreInv
<1> QED
  BY <1>1, StoreInvariance, PTL

(* Durability: a body whose put() returned stays in the store intact,      *)
(* whichever writer linked it and whenever power is lost.                  *)
THEOREM DurabilityCorrect == Spec => []AckedSurvives
<1>1. StoreInv => AckedSurvives
  BY DEF StoreInv, TypeOK, IntactInv, AckedInv, AckedSurvives
<1> QED
  BY <1>1, StoreInvariance, PTL

----------------------------------------------------------------------------
(* Refinement *)

\* What a client sees of the store: the substitution of Promised.
Held     == [b \in Bodies |-> file[b].data]
Answers(rd, gt) == [r \in Readers |-> CASE rd[r] = "returned" -> gt[r]
                                        [] rd[r] = "failed"   -> "refused"
                                        [] OTHER              -> "none"]

\* Steps that leave the content of the files, the answers and the ghosts
\* alone are stuttering steps of BodyStore.
LEMMA Stutter ==
    ASSUME \A b \in Bodies : file'[b].data = file[b].data,
           UNCHANGED <<acked, meddled, meddling, crashes>>,
           UNCHANGED <<reader, got>>
    PROVE  UNCHANGED Promised!bodyVars
BY DEF Promised!bodyVars

\* A writer makes a body appear, or promises one that is there.
LEMMA WriterRefines ==
    ASSUME StoreInv, NEW w \in Writers, WriterStep(w)
    PROVE  [Promised!BodyNext]_(Promised!bodyVars)
<1> USE DEF StoreInv
<1>0. PICK b \in Bodies : b = bodyOf[w]
  BY DEF TypeOK
<1>1. CASE Link(w) /\ Target(w) = Absent
  <2>1. /\ file' = [file EXCEPT ![b] = StagedFile(w)]
        /\ UNCHANGED <<reader, got, acked, meddled, meddling, crashes>>
    BY <1>0, <1>1 DEF Link, readers, history
  <2>2. StagedFile(w).data = "good"
    BY DEF StagedFile
  <2>3. Held[b] = "none"
    BY <1>0, <1>1 DEF Held, Target, Absent
  <2>4. \A c \in Bodies : file'[c].data = IF c = b THEN "good" ELSE file[c].data
    BY <1>0, <2>1, <2>2 DEF TypeOK
  <2>5. Held' = [Held EXCEPT ![b] = "good"]
    BY <2>4 DEF Held
  <2>6. Promised!Appear(b)
    BY <2>1, <2>3, <2>5 DEF Promised!Appear, Held
  <2> QED
    BY <2>6 DEF Promised!BodyNext
<1>2. CASE PutReturns(w) /\ pc[w] = "return"
  <2>1. /\ acked' = acked \cup {b}
        /\ UNCHANGED <<file, reader, got, meddled, meddling, crashes>>
    BY <1>0, <1>2 DEF PutReturns, disk, readers
  <2>2. file[b].data = "good" \/ b \in meddled
    BY <1>0, <1>2 DEF IntactInv, WriterInv, Target
  <2>3. Promised!Promise(b)
    BY <1>0, <2>1, <2>2 DEF Promised!Promise
  <2> QED
    BY <2>3 DEF Promised!BodyNext
<1>3. CASE ~(Link(w) /\ Target(w) = Absent) /\ ~(PutReturns(w) /\ pc[w] = "return")
  <2>1. UNCHANGED <<file, reader, got, acked, meddled, meddling, crashes>>
    BY <1>3 DEF WriterStep, CheckExisting, Stage, PutFails, SyncStaged, Link, VerifyTaken,
                VerifyLinked, SyncDirectories, PutReturns, disk, readers, history
  <2> QED
    BY <2>1, Stutter
<1> QED
  BY <1>1, <1>2, <1>3

\* A reader gets the body, is refused, or has not finished.
LEMMA ReaderRefines ==
    ASSUME StoreInv, NEW r \in Readers, ReaderStep(r)
    PROVE  [Promised!BodyNext]_(Promised!bodyVars)
<1> USE DEF StoreInv
<1>a. PICK b \in Bodies : b = bodyOf[r]
  BY DEF TypeOK
<1>0. /\ reader[r] \notin {"returned", "failed"}
      /\ UNCHANGED <<file, acked, meddled, meddling, crashes>>
      /\ \A s \in Readers \ {r} : reader'[s] = reader[s] /\ got'[s] = got[s]
  BY DEF ReaderStep, ReadStat, ReadOpen, ReadAll, ReaderTo, writers, disk, history, TypeOK
<1>1. CASE reader'[r] \notin {"returned", "failed"}
  <2>1. UNCHANGED got
    BY <1>1 DEF ReaderStep, ReadStat, ReadOpen, ReadAll, ReaderTo, TypeOK
  <2>2. Answers(reader', got') = Answers(reader, got)
    BY <1>0, <1>1, <2>1 DEF Answers
  <2> QED
    BY <1>0, <2>2 DEF Promised!bodyVars, Answers
<1>2. CASE reader'[r] = "returned"
  <2>1. /\ reader[r] = "read" /\ "good" \in Contents(r)
        /\ got' = [got EXCEPT ![r] = "good"]
        /\ reader' = [reader EXCEPT ![r] = "returned"]
    BY <1>2 DEF ReaderStep, ReadStat, ReadOpen, ReadAll, ReaderTo, TypeOK
  <2>2. file[b].data = "good" \/ b \in meddled
    BY <1>a, <1>0, <2>1 DEF Contents, ReaderInv
  <2>3. Answers(reader', got') = [Answers(reader, got) EXCEPT ![r] = "good"]
    BY <1>0, <2>1 DEF Answers, TypeOK
  <2>4. Promised!Get(r, b)
    BY <1>0, <2>2, <2>3 DEF Promised!Get, Answers
  <2> QED
    BY <2>4 DEF Promised!BodyNext
<1>3. CASE reader'[r] = "failed"
  <2>1. UNCHANGED got /\ reader' = [reader EXCEPT ![r] = "failed"]
    BY <1>3 DEF ReaderStep, ReadStat, ReadOpen, ReadAll, ReaderTo, TypeOK
  <2>2. file[b].data # "good" \/ b \in meddled
    <3>1. CASE ReadStat(r)
      BY <1>a, <1>0, <1>3, <3>1 DEF ReadStat, ReaderTo, Absent, TypeOK
    <3>2. CASE ReadOpen(r)
      BY <1>a, <1>0, <1>3, <3>2 DEF ReadOpen, ReaderTo, ReaderInv, TypeOK
    <3>3. CASE ReadAll(r)
      BY <1>a, <1>0, <1>3, <3>3 DEF ReadAll, ReaderTo, Contents, ReaderInv, TypeOK
    <3> QED
      BY <3>1, <3>2, <3>3 DEF ReaderStep
  <2>3. Answers(reader', got') = [Answers(reader, got) EXCEPT ![r] = "refused"]
    BY <1>0, <2>1 DEF Answers, TypeOK
  <2>4. Promised!Get(r, b)
    BY <1>0, <2>2, <2>3 DEF Promised!Get, Answers
  <2> QED
    BY <2>4 DEF Promised!BodyNext
<1> QED
  BY <1>1, <1>2, <1>3

\* Meddling with a file is meddling with its body.
LEMMA MeddleRefines ==
    ASSUME StoreInv, NEW b \in Bodies, Remove(b) \/ Damage(b) \/ Replace(b)
    PROVE  [Promised!BodyNext]_(Promised!bodyVars)
<1> USE DEF StoreInv
<1>1. PICK new : Meddle(b, new) /\ (new = Absent \/ new.data = "bad")
  BY MeddledFile
<1>1a. new.data \in {"none", "bad"}
  BY <1>1 DEF Absent
<1>2. Held' = [Held EXCEPT ![b] = new.data]
  BY <1>1 DEF Held, Meddle, TypeOK
<1>3. Promised!Outside(b)
  BY <1>1, <1>1a, <1>2 DEF Promised!Outside, Meddle, readers, Held
<1> QED
  BY <1>3 DEF Promised!BodyNext

\* A power loss takes or tears only bodies that were not acknowledged.
LEMMA CrashRefines ==
    ASSUME StoreInv, Crash
    PROVE  [Promised!BodyNext]_(Promised!bodyVars)
<1> USE DEF StoreInv
<1> DEFINE lost == { b \in Bodies : file'[b].data = "none" /\ file[b].data # "none" }
           torn == { b \in Bodies : file'[b].data # "none" /\ file'[b].data # file[b].data }
<1>1. \A b \in Bodies : file'[b] \in AfterCrash(b)
  BY DEF Crash
<1>2. ASSUME NEW b \in Bodies
      PROVE  /\ file'[b].data \in {file[b].data, "none", "bad"}
             /\ file'[b].data # "none" => file[b].data # "none"
  <2>1. [file[b] EXCEPT !.data = "bad"].data = "bad"
    BY DEF TypeOK, Files
  <2>2. \/ file'[b] = Absent
        \/ file'[b] = file[b]
        \/ file'[b] = [file[b] EXCEPT !.data = "bad"] /\ file[b] # Absent
    BY <1>1 DEF AfterCrash
  <2>3. CASE file'[b] = Absent
    BY <2>3 DEF Absent
  <2>4. CASE file'[b] = file[b]
    BY <2>4
  <2>5. CASE file'[b] = [file[b] EXCEPT !.data = "bad"] /\ file[b] # Absent
    BY <2>1, <2>5 DEF IntactInv
  <2> QED
    BY <2>2, <2>3, <2>4, <2>5
<1>3. \A b \in acked \ meddled : file'[b] = file[b]
  BY <1>1 DEF AfterCrash, AckedInv, IntactInv, TypeOK
<1>4. lost \in SUBSET Promised!Fragile /\ torn \in SUBSET (Promised!Fragile \ lost)
  BY <1>3 DEF Promised!Fragile, TypeOK
<1>5. \A b \in Bodies : b \in torn => file[b].data # "none" /\ file'[b].data = "bad"
  BY <1>2
<1>5a. \A b \in Bodies : /\ b \in lost => file'[b].data = "none"
                         /\ b \in torn => file'[b].data = "bad" /\ file[b].data # "none"
                         /\ b \notin lost /\ b \notin torn => file'[b].data = file[b].data
  BY <1>2, <1>5
<1>5b. Held' = [b \in Bodies |-> CASE b \in lost -> "none"
                                  [] b \in torn /\ Held[b] # "none" -> "bad"
                                  [] OTHER -> Held[b]]
  <2>1. ASSUME NEW b \in Bodies
        PROVE  file'[b].data = CASE b \in lost -> "none"
                                 [] b \in torn /\ file[b].data # "none" -> "bad"
                                 [] OTHER -> file[b].data
    <3>1. CASE b \in lost
      BY <1>5a, <3>1
    <3>2. CASE b \in torn /\ b \notin lost
      BY <1>5a, <3>2
    <3>3. CASE b \notin lost /\ b \notin torn
      BY <1>5a, <3>3
    <3> QED
      BY <3>1, <3>2, <3>3
  <2> HIDE DEF lost, torn
  <2> QED
    BY <2>1 DEF Held
<1>6. Answers(reader', got') = Answers(reader, got)
  BY DEF Crash, Answers, TypeOK
<1>7. Promised!LosePower
  BY <1>4, <1>5b, <1>6 DEF Promised!LosePower, Crash, Held, Answers
<1> QED
  BY <1>7 DEF Promised!BodyNext

(* Refinement: the store, at the granularity of system calls, with races,  *)
(* removals and power losses, implements BodyStore: nothing is replaced,   *)
(* an acknowledged body lasts, and only verified content is returned.      *)
THEOREM RefinementCorrect == Spec => ImplementsBodyStore
<1>1. Init => Promised!BodyInit
  BY DEF Init, Promised!BodyInit, Absent
<1>2. StoreInv /\ [Next]_vars => [Promised!BodyNext]_(Promised!bodyVars)
  <2> SUFFICES ASSUME StoreInv, [Next]_vars
               PROVE  [Promised!BodyNext]_(Promised!bodyVars)
    OBVIOUS
  <2>1. CASE UNCHANGED vars
    BY <2>1, Stutter DEF vars
  <2> QED
    BY <2>1, WriterRefines, ReaderRefines, MeddleRefines, CrashRefines DEF Next
<1> QED
  BY <1>1, <1>2, StoreInvariance, PTL DEF Spec, ImplementsBodyStore, Promised!BodySpec

=============================================================================
