----------------------------- MODULE StorageProofs -----------------------------
(***************************************************************************)
(* Theorems about Storage.                                                 *)
(***************************************************************************)
EXTENDS Storage, SelectionProofs

Code == 0 .. 255
Places == {"idle", "read", "host", "meta", "save", "rmdir"}

-----------------------------------------------------------------------------
(* The file operations and the indexes. *)

\* What the steps of an operation know of it.
TaskTyped(t) ==
  /\ t = [at |-> t.at, op |-> t.op, p |-> t.p, q |-> t.q, prot |-> t.prot, idx |-> t.idx]
  /\ t.at \in Places
  /\ t.at \in {"read", "host", "meta", "save"} =>
       t.p \in Files /\ t.q \in Files /\ t.prot \in 0 .. 256
  /\ t.at = "host" => t.op \in {"write", "delete", "rename"}
  /\ t.at \in {"meta", "save"} => t.op \in {"write", "touch", "alloc", "delete", "rename"}
  /\ t.at \in {"host", "meta", "save"} /\ t.op \in {"write", "touch"} => t.prot \in Code
  /\ t.at \in {"host", "meta", "save"} /\ t.op # "rename" => t.q = t.p
  /\ t.at = "save" => t.idx \in [Names -> Code]

\* What a job is about to save is what it makes of the index as it is.
Fresh(t) == t.at = "save" /\ t.p[1] = t.q[1] => t.idx = Recorded(t, index[t.p[1]])

DiskInv ==
  /\ exists \subseteq Files
  /\ index \in [Folders -> [Names -> Code]]
  /\ dmu \in Jobs \cup {NoJob}
  /\ task = [j \in Jobs |-> task[j]]
  /\ \A j \in Jobs : TaskTyped(task[j]) /\ (task[j].at = "save" <=> dmu = j) /\ Fresh(task[j])
  /\ torn = IF dmu = NoJob THEN {} ELSE {SavedIn(task[dmu])}

LEMMA FilesTyped ==
  ASSUME NEW p, p \in Files
  PROVE  p[1] \in Folders /\ p[2] \in Names /\ p = <<p[1], p[2]>>
BY DiskAssumption

LEMMA BareTyped == Bare \in [Names -> Code]
BY DEF Bare, Code

LEMMA LoadTyped ==
  ASSUME DiskInv, NEW d, d \in Folders
  PROVE  LoadIndex(d) \in [Names -> Code]
BY BareTyped DEF LoadIndex, DiskInv

LEMMA WrittenTyped ==
  ASSUME NEW code, code \in 0 .. 256
  PROVE  Written(code) \in Code /\ Written(code) \in 0 .. 256
BY DEF Written, Code, DefaultProt, NoProt

LEMMA CodeTyped ==
  ASSUME NEW code, code \in Code
  PROVE  code \in 0 .. 256
BY DEF Code

\* An index stays one, and changes at the names of the operation only.
LEMMA RecordedTyped ==
  ASSUME NEW t, NEW idx, TaskTyped(t), t.at \in {"meta", "save"}, idx \in [Names -> Code]
  PROVE  /\ Recorded(t, idx) \in [Names -> Code]
         /\ \A n \in Names : Recorded(t, idx)[n] # idx[n] => n = t.p[2] \/ n = t.q[2]
<1>1. t.p[2] \in Names /\ t.q[2] \in Names
  BY FilesTyped DEF TaskTyped
<1>2. DefaultProt \in Code /\ 0 \in Code
  BY DEF DefaultProt, Code
<1>3. CASE t.op \in {"write", "touch"}
  <2>1. Recorded(t, idx) = IF t.prot = 0 THEN idx ELSE [idx EXCEPT ![t.p[2]] = t.prot]
    BY <1>3 DEF Recorded
  <2>2. t.prot \in Code
    BY <1>3 DEF TaskTyped
  <2> QED
    BY <1>1, <2>1, <2>2
<1>4. CASE t.op = "alloc"
  <2>1. Recorded(t, idx) = [idx EXCEPT ![t.p[2]] = IF @ = 0 THEN DefaultProt ELSE @]
    BY <1>4 DEF Recorded
  <2> QED
    BY <1>1, <1>2, <2>1
<1>5. CASE t.op = "delete"
  <2>1. Recorded(t, idx) = [idx EXCEPT ![t.p[2]] = 0]
    BY <1>5 DEF Recorded
  <2> QED
    BY <1>1, <1>2, <2>1
<1>6. CASE t.op = "rename"
  <2>1. PICK c : c = IF t.prot # NoProt THEN t.prot
                     ELSE IF idx[t.p[2]] # 0 THEN idx[t.p[2]] ELSE DefaultProt
    OBVIOUS
  <2>2. Recorded(t, idx) = [idx EXCEPT ![t.p[2]] = 0, ![t.q[2]] = c]
    BY <1>6, <2>1 DEF Recorded
  <2>3. t.prot # NoProt => t.prot \in Code
    BY DEF TaskTyped, NoProt, Code
  <2>4. c \in Code
    BY <1>1, <1>2, <2>1, <2>3
  <2> QED
    BY <1>1, <1>2, <2>2, <2>4
<1> QED
  BY <1>3, <1>4, <1>5, <1>6 DEF TaskTyped

LEMMA DiskInitInv == DiskInit => DiskInv
<1> SUFFICES ASSUME DiskInit PROVE DiskInv
  OBVIOUS
<1>1. TaskTyped(NoTask) /\ NoTask.at = "idle"
  BY DEF TaskTyped, NoTask, Places
<1>2. task = [j \in Jobs |-> NoTask] /\ dmu = NoJob /\ torn = {} /\ exists = {}
  BY DEF DiskInit
<1>3. index \in [Folders -> [Names -> Code]]
  BY BareTyped DEF DiskInit
<1>4. \A j \in Jobs : task[j] = NoTask
  BY <1>2
<1>5. \A j \in Jobs : Fresh(task[j])
  BY <1>1, <1>4 DEF Fresh
<1> QED
  BY <1>1, <1>2, <1>3, <1>4, <1>5, DiskAssumption DEF DiskInv

\* The step of a job that does not hold the mutex: it goes from one place to another,
\* and no index changes that is being saved.
LEMMA TaskStep ==
  ASSUME DiskInv, NEW j, NEW r, j \in Jobs, task[j].at # "save", TaskTyped(r), r.at # "save",
         task' = [task EXCEPT ![j] = r], exists' \subseteq Files, UNCHANGED <<torn, dmu>>,
         index' \in [Folders -> [Names -> Code]], \A d \in torn : index'[d] = index[d]
  PROVE  DiskInv'
<1>1. dmu # j
  BY DEF DiskInv
<1>2. task' = [k \in Jobs |-> IF k = j THEN r ELSE task[k]]
  BY DEF DiskInv
<1>3. \A k \in Jobs : task'[k] = IF k = j THEN r ELSE task[k]
  BY <1>2
<1>4. ASSUME NEW k \in Jobs
      PROVE  TaskTyped(task'[k]) /\ (task'[k].at = "save" <=> dmu' = k) /\ Fresh(task[k])'
  <2>1. CASE k = j
    BY <1>1, <1>3, <2>1 DEF Fresh
  <2>2. CASE k # j
    <3>1. task'[k] = task[k] /\ TaskTyped(task[k]) /\ (task[k].at = "save" <=> dmu = k)
          /\ Fresh(task[k])
      BY <1>3, <2>2 DEF DiskInv
    <3>2. CASE task[k].at = "save" /\ task[k].p[1] = task[k].q[1]
      <4>1. dmu = k /\ dmu # NoJob
        BY <3>1, <3>2, DiskAssumption
      <4>2. torn = {SavedIn(task[k])}
        BY <4>1 DEF DiskInv
      <4>3. task[k].p[1] \in torn
        BY <3>2, <4>2 DEF SavedIn
      <4>4. index'[task[k].p[1]] = index[task[k].p[1]]
        BY <4>3
      <4>5. Fresh(task[k])'
        BY <3>1, <4>4 DEF Fresh
      <4> QED
        BY <3>1, <4>5
    <3>3. CASE ~ (task[k].at = "save" /\ task[k].p[1] = task[k].q[1])
      BY <3>1, <3>3 DEF Fresh
    <3> QED
      BY <3>2, <3>3
  <2> QED
    BY <2>1, <2>2
<1>5. torn' = IF dmu' = NoJob THEN {} ELSE {SavedIn(task'[dmu'])}
  <2>1. dmu # NoJob => task'[dmu] = task[dmu]
    BY <1>1, <1>3 DEF DiskInv
  <2> QED
    BY <2>1 DEF DiskInv
<1>6. task' = [k \in Jobs |-> task'[k]]
  BY <1>2
<1> QED
  BY <1>4, <1>5, <1>6 DEF DiskInv

LEMMA BeginStep ==
  ASSUME DiskInv, NEW j, NEW at, NEW op, NEW p, NEW q, NEW code,
         j \in Jobs, task[j].at # "save", Begin(j, at, op, p, q, code),
         at \in {"read", "host", "meta"}, p \in Files, q \in Files, code \in 0 .. 256,
         at = "host" => op \in {"write", "delete", "rename"},
         at = "meta" => op \in {"write", "touch", "alloc", "delete", "rename"},
         at # "read" /\ op \in {"write", "touch"} => code \in Code,
         at # "read" /\ op # "rename" => q = p
  PROVE  DiskInv'
<1>1. PICK r : r = [at |-> at, op |-> op, p |-> p, q |-> q, prot |-> code, idx |-> Bare]
  OBVIOUS
<1>2. task' = [task EXCEPT ![j] = r] /\ UNCHANGED <<exists, index, torn, dmu>>
  BY <1>1 DEF Begin
<1>3. /\ r.at = at /\ r.op = op /\ r.p = p /\ r.q = q /\ r.prot = code
      /\ r = [at |-> r.at, op |-> r.op, p |-> r.p, q |-> r.q, prot |-> r.prot, idx |-> r.idx]
  BY <1>1
<1>4. TaskTyped(r) /\ r.at # "save"
  BY <1>3 DEF TaskTyped, Places
<1>5. /\ exists' \subseteq Files /\ index' \in [Folders -> [Names -> Code]]
      /\ \A d \in torn : index'[d] = index[d]
  BY <1>2 DEF DiskInv
<1> QED
  BY <1>2, <1>4, <1>5, TaskStep

LEMMA NoTaskTyped == TaskTyped(NoTask) /\ NoTask.at = "idle"
BY DEF TaskTyped, NoTask, Places

LEMMA LeaveStep ==
  ASSUME DiskInv, NEW j, j \in Jobs, task[j].at # "save", Leave(j),
         UNCHANGED <<exists, index, torn, dmu>>
  PROVE  DiskInv'
<1>1. task' = [task EXCEPT ![j] = NoTask]
  BY DEF Leave
<1>2. /\ exists' \subseteq Files /\ index' \in [Folders -> [Names -> Code]]
      /\ \A d \in torn : index'[d] = index[d]
  BY DEF DiskInv
<1>3. PICK r : r = NoTask
  OBVIOUS
<1>4. TaskTyped(r) /\ r.at # "save" /\ task' = [task EXCEPT ![j] = r]
  BY <1>1, <1>3, NoTaskTyped
<1> QED
  BY <1>2, <1>4, TaskStep

LEMMA ProtsTyped ==
  ASSUME NEW c, c \in Prots
  PROVE  c \in 0 .. 256 /\ (c # NoProt => c \in Code)
BY DiskAssumption DEF NoProt, Code

LEMMA WriteTextInv ==
  ASSUME DiskInv, NEW j, NEW p, NEW c, j \in Jobs, p \in Files, c \in Prots, WriteText(j, p, c)
  PROVE  DiskInv'
<1>1. task[j].at # "save" /\ Begin(j, "host", "write", p, p, Written(c))
  BY DEF WriteText, Idle
<1>2. Written(c) \in Code /\ Written(c) \in 0 .. 256
  BY ProtsTyped, WrittenTyped
<1> QED
  BY <1>1, <1>2, BeginStep

LEMMA SetProtInv ==
  ASSUME DiskInv, NEW j, NEW p, NEW c, j \in Jobs, p \in Files, c \in Prots \ {NoProt},
         SetProt(j, p, c)
  PROVE  DiskInv'
<1>1. task[j].at # "save" /\ Begin(j, "meta", "touch", p, p, c)
  BY DEF SetProt, Idle
<1> QED
  BY <1>1, ProtsTyped, BeginStep

LEMMA AllocInv ==
  ASSUME DiskInv, NEW j, NEW p, j \in Jobs, p \in Files, SetFileAlloc(j, p)
  PROVE  DiskInv'
<1>1. task[j].at # "save" /\ Begin(j, "meta", "alloc", p, p, NoProt)
  BY DEF SetFileAlloc, Idle
<1>2. NoProt \in 0 .. 256
  BY DEF NoProt
<1> QED
  BY <1>1, <1>2, BeginStep

LEMMA DeleteInv ==
  ASSUME DiskInv, NEW j, NEW p, j \in Jobs, p \in Files, Delete(j, p)
  PROVE  DiskInv'
<1>1. task[j].at # "save" /\ Begin(j, "host", "delete", p, p, NoProt)
  BY DEF Delete, Idle
<1>2. NoProt \in 0 .. 256
  BY DEF NoProt
<1> QED
  BY <1>1, <1>2, BeginStep

LEMMA RenameInv ==
  ASSUME DiskInv, NEW j, NEW p, NEW q, NEW c, j \in Jobs, p \in Files, q \in Files, c \in Prots,
         Rename(j, p, q, c)
  PROVE  DiskInv'
<1>1. task[j].at # "save"
  BY DEF Rename, Idle
<1>2. \/ c # NoProt /\ Begin(j, "meta", "touch", p, p, c)
      \/ Begin(j, "host", "rename", p, q, c)
  BY DEF Rename
<1>3. CASE c # NoProt /\ Begin(j, "meta", "touch", p, p, c)
  BY <1>1, <1>3, ProtsTyped, BeginStep
<1>4. CASE Begin(j, "host", "rename", p, q, c)
  BY <1>1, <1>4, ProtsTyped, BeginStep
<1> QED
  BY <1>2, <1>3, <1>4

LEMMA CopyInv ==
  ASSUME DiskInv, NEW j, NEW p, NEW q, NEW c, NEW ne, j \in Jobs, p \in Files, q \in Files,
         c \in Prots, Copy(j, p, q, c, ne)
  PROVE  DiskInv'
<1>1. task[j].at # "save" /\ Begin(j, "read", "copy", p, q, c)
  BY DEF Copy, Idle
<1> QED
  BY <1>1, ProtsTyped, BeginStep

LEMMA ReadOpInv ==
  ASSUME DiskInv, NEW j, j \in Jobs, ReadOp(j)
  PROVE  DiskInv'
<1>1. PICK t, code : /\ t = task[j]
                     /\ code = Written(IF t.prot # NoProt THEN t.prot ELSE ProtOf(t.p))
  OBVIOUS
<1>2. /\ t.at = "read"
      /\ \/ Begin(j, "host", "write", t.q, t.q, code)
         \/ Leave(j) /\ UNCHANGED <<exists, index, torn, dmu, packVars>>
  BY <1>1 DEF ReadOp
<1>3. t.p \in Files /\ t.q \in Files /\ t.prot \in 0 .. 256
  BY <1>1, <1>2 DEF DiskInv, TaskTyped
<1>4. ProtOf(t.p) \in 0 .. 256
  <2>1. PICK f, n : f = t.p[1] /\ n = t.p[2]
    OBVIOUS
  <2>2. f \in Folders /\ n \in Names
    BY <1>3, <2>1, FilesTyped
  <2>3. LoadIndex(f)[n] \in Code
    BY <2>2, LoadTyped
  <2> QED
    BY <2>1, <2>3, CodeTyped DEF ProtOf, DefaultProt
<1>5. code \in Code /\ code \in 0 .. 256
  BY <1>1, <1>3, <1>4, WrittenTyped
<1>6. CASE Begin(j, "host", "write", t.q, t.q, code)
  BY <1>1, <1>2, <1>3, <1>5, <1>6, BeginStep
<1>7. CASE Leave(j) /\ UNCHANGED <<exists, index, torn, dmu, packVars>>
  BY <1>1, <1>2, <1>7, LeaveStep
<1> QED
  BY <1>2, <1>6, <1>7

LEMMA HostStepInv ==
  ASSUME DiskInv, NEW j, j \in Jobs, HostStep(j)
  PROVE  DiskInv'
<1>1. PICK t : t = task[j]
  OBVIOUS
<1>2. /\ t.at = "host" /\ UNCHANGED <<index, torn, dmu>>
      /\ \/ /\ exists' = CASE t.op = "write"  -> exists \cup {t.p}
                           [] t.op = "delete" -> exists \ {t.p}
                           [] t.op = "rename" -> (exists \ {t.p}) \cup {t.q}
            /\ task' = [task EXCEPT ![j].at = "meta"]
         \/ Leave(j) /\ UNCHANGED exists
  BY <1>1 DEF HostStep
<1>3. TaskTyped(t) /\ exists \subseteq Files
  BY <1>1 DEF DiskInv
<1>4. CASE Leave(j) /\ UNCHANGED exists
  BY <1>1, <1>2, <1>4, LeaveStep
<1>5. CASE /\ exists' = CASE t.op = "write"  -> exists \cup {t.p}
                           [] t.op = "delete" -> exists \ {t.p}
                           [] t.op = "rename" -> (exists \ {t.p}) \cup {t.q}
           /\ task' = [task EXCEPT ![j].at = "meta"]
  <2>1. exists' \subseteq Files
    <3>1. t.op \in {"write", "delete", "rename"} /\ t.p \in Files /\ t.q \in Files
      BY <1>2, <1>3 DEF TaskTyped
    <3> QED
      BY <1>3, <1>5, <3>1
  <2>2. PICK r : r = [t EXCEPT !.at = "meta"]
    OBVIOUS
  <2>3. task' = [task EXCEPT ![j] = r]
    BY <1>1, <1>5, <2>2 DEF DiskInv
  <2>4. /\ r = [at |-> "meta", op |-> t.op, p |-> t.p, q |-> t.q, prot |-> t.prot, idx |-> t.idx]
    BY <1>3, <2>2 DEF TaskTyped
  <2>5. /\ r.at = "meta" /\ r.op = t.op /\ r.p = t.p /\ r.q = t.q /\ r.prot = t.prot
        /\ r.idx = t.idx
    BY <2>4
  <2>6. TaskTyped(r)
    BY <1>2, <1>3, <2>4, <2>5 DEF TaskTyped, Places
  <2>7. index' \in [Folders -> [Names -> Code]] /\ \A d \in torn : index'[d] = index[d]
    BY <1>2 DEF DiskInv
  <2> QED
    BY <1>1, <1>2, <2>1, <2>3, <2>5, <2>6, <2>7, TaskStep
<1> QED
  BY <1>2, <1>4, <1>5

LEMMA LockIndexInv ==
  ASSUME DiskInv, NEW j, j \in Jobs, LockIndex(j)
  PROVE  DiskInv'
<1>1. PICK t : t = task[j]
  OBVIOUS
<1>2. PICK idx : idx = Recorded(t, LoadIndex(t.p[1]))
  OBVIOUS
<1>3. PICK r : r = [t EXCEPT !.at = "save", !.idx = idx]
  OBVIOUS
<1>4. /\ t.at = "meta" /\ dmu = NoJob /\ dmu' = j /\ torn' = torn \cup {SavedIn(t)}
      /\ UNCHANGED <<exists, index>>
  BY <1>1 DEF LockIndex
<1>5. TaskTyped(t) /\ torn = {} /\ index \in [Folders -> [Names -> Code]]
  BY <1>1, <1>4 DEF DiskInv
<1>6. t.p[1] \in Folders
  BY <1>4, <1>5, FilesTyped DEF TaskTyped
<1>7. idx = Recorded(t, index[t.p[1]]) /\ idx \in [Names -> Code]
  <2>1. LoadIndex(t.p[1]) = index[t.p[1]]
    BY <1>5 DEF LoadIndex
  <2>2. index[t.p[1]] \in [Names -> Code]
    BY <1>5, <1>6
  <2> QED
    BY <1>2, <1>4, <1>5, <2>1, <2>2, RecordedTyped
<1>8. r = [at |-> "save", op |-> t.op, p |-> t.p, q |-> t.q, prot |-> t.prot, idx |-> idx]
  BY <1>3, <1>5 DEF TaskTyped
<1>9. /\ r.at = "save" /\ r.op = t.op /\ r.p = t.p /\ r.q = t.q /\ r.prot = t.prot
      /\ r.idx = idx
  BY <1>8
<1>10. TaskTyped(r)
  BY <1>4, <1>5, <1>7, <1>8, <1>9 DEF TaskTyped, Places
<1>11. task' = [k \in Jobs |-> IF k = j THEN r ELSE task[k]]
  <2>1. task' = [task EXCEPT ![j].at = "save", ![j].idx = Recorded(task[j], LoadIndex(task[j].p[1]))]
    BY DEF LockIndex
  <2>2. task' = [task EXCEPT ![j] = [task[j] EXCEPT !.at = "save",
                                       !.idx = Recorded(task[j], LoadIndex(task[j].p[1]))]]
    BY <2>1 DEF DiskInv
  <2> QED
    BY <1>1, <1>2, <1>3, <2>2 DEF DiskInv
<1>12. task'[j] = r /\ \A k \in Jobs \ {j} : task'[k] = task[k]
  BY <1>11
<1>13. ASSUME NEW k \in Jobs
       PROVE  TaskTyped(task'[k]) /\ (task'[k].at = "save" <=> dmu' = k) /\ Fresh(task[k])'
  <2>1. CASE k = j
    <3>1. Fresh(task[k])'
      <4>1. SavedIn(r) = SavedIn(t) /\ Recorded(r, index[r.p[1]]) = Recorded(t, index[t.p[1]])
        BY <1>9 DEF SavedIn, Recorded
      <4>2. r.idx = Recorded(r, index'[r.p[1]])
        BY <1>4, <1>7, <1>9, <4>1
      <4> QED
        BY <1>12, <2>1, <4>2 DEF Fresh, Recorded
    <3> QED
      BY <1>4, <1>9, <1>10, <1>12, <2>1, <3>1
  <2>2. CASE k # j
    <3>1. task'[k] = task[k] /\ TaskTyped(task[k]) /\ task[k].at # "save"
      BY <1>4, <1>12, <2>2, DiskAssumption DEF DiskInv
    <3>2. Fresh(task[k])'
      BY <3>1 DEF Fresh
    <3> QED
      BY <1>4, <2>2, <3>1, <3>2
  <2> QED
    BY <2>1, <2>2
<1>14. torn' = IF dmu' = NoJob THEN {} ELSE {SavedIn(task'[dmu'])}
  <2>1. SavedIn(r) = SavedIn(t)
    BY <1>9 DEF SavedIn
  <2> QED
    BY <1>4, <1>5, <1>12, <2>1, DiskAssumption
<1>15. task' = [k \in Jobs |-> task'[k]]
  BY <1>11
<1> QED
  BY <1>4, <1>13, <1>14, <1>15 DEF DiskInv

\* The mutex is held by the job that saves, and only the folder it saves is truncated.
LEMMA Saving ==
  ASSUME DiskInv, NEW j, j \in Jobs, task[j].at = "save"
  PROVE  /\ dmu = j /\ torn = {SavedIn(task[j])} /\ SavedIn(task[j]) \in Folders
         /\ task[j].idx \in [Names -> Code]
         /\ \A k \in Jobs \ {j} : task[k].at # "save"
<1>1. dmu = j /\ torn = {SavedIn(task[j])} /\ TaskTyped(task[j])
  BY DiskAssumption DEF DiskInv
<1>2. SavedIn(task[j]) \in Folders
  BY <1>1, FilesTyped DEF TaskTyped, SavedIn
<1> QED
  BY <1>1, <1>2 DEF DiskInv, TaskTyped

LEMMA SaveIndexInv ==
  ASSUME DiskInv, NEW j, j \in Jobs, SaveIndex(j)
  PROVE  DiskInv'
<1>1. PICK t, d : t = task[j] /\ d = SavedIn(t)
  OBVIOUS
<1>2. /\ t.at = "save" /\ index' = [index EXCEPT ![d] = t.idx] /\ torn' = torn \ {d}
      /\ dmu' = NoJob /\ task' = [task EXCEPT ![j] = NoTask] /\ UNCHANGED exists
  BY <1>1 DEF SaveIndex, Leave
<1>3. /\ dmu = j /\ torn = {d} /\ d \in Folders /\ t.idx \in [Names -> Code]
      /\ \A k \in Jobs \ {j} : task[k].at # "save"
  BY <1>1, <1>2, Saving
<1>4. index' \in [Folders -> [Names -> Code]]
  BY <1>2, <1>3 DEF DiskInv
<1>5. task' = [k \in Jobs |-> IF k = j THEN NoTask ELSE task[k]]
  BY <1>2 DEF DiskInv
<1>6. \A k \in Jobs : TaskTyped(task'[k]) /\ task'[k].at # "save"
  BY <1>3, <1>5, NoTaskTyped DEF DiskInv
<1>7. \A k \in Jobs : Fresh(task[k])'
  BY <1>6 DEF Fresh
<1>8. task' = [k \in Jobs |-> task'[k]]
  BY <1>5
<1> QED
  BY <1>2, <1>3, <1>4, <1>6, <1>7, <1>8, DiskAssumption DEF DiskInv

LEMMA DiskCrashInv ==
  ASSUME DiskInv, NEW tornPacks, DiskCrash(tornPacks)
  PROVE  DiskInv'
<1>1. /\ index' = [d \in Folders |-> LoadIndex(d)]
      /\ torn' = {} /\ dmu' = NoJob /\ task' = [j \in Jobs |-> NoTask] /\ UNCHANGED exists
  BY DEF DiskCrash
<1>2. index' \in [Folders -> [Names -> Code]]
  BY <1>1, LoadTyped
<1>3. \A k \in Jobs : TaskTyped(task'[k]) /\ task'[k].at # "save"
  BY <1>1, NoTaskTyped
<1>4. \A k \in Jobs : Fresh(task[k])'
  BY <1>3 DEF Fresh
<1> QED
  BY <1>1, <1>2, <1>3, <1>4, DiskAssumption DEF DiskInv

LEMMA DiskUnchanged ==
  ASSUME DiskInv, UNCHANGED <<exists, index, torn, dmu, task>>
  PROVE  DiskInv'
<1>1. task' = task /\ index' = index /\ dmu' = dmu /\ torn' = torn /\ exists' = exists
  OBVIOUS
<1>2. \A j \in Jobs : Fresh(task[j])' <=> Fresh(task[j])
  BY <1>1 DEF Fresh, Recorded
<1>3. \A j \in Jobs : TaskTyped(task'[j]) /\ (task'[j].at = "save" <=> dmu' = j) /\ Fresh(task[j])'
  BY <1>1, <1>2 DEF DiskInv
<1>4. torn' = IF dmu' = NoJob THEN {} ELSE {SavedIn(task'[dmu'])}
  BY <1>1 DEF DiskInv
<1> QED
  BY <1>1, <1>3, <1>4 DEF DiskInv

LEMMA FileOpInv ==
  ASSUME DiskInv, NEW j, NEW p, j \in Jobs, p \in Files, use.files \subseteq Files, FileOp(j, p)
  PROVE  DiskInv'
<1>1. CASE \E c \in Prots : WriteText(j, p, c)
  BY <1>1, WriteTextInv
<1>2. CASE \E c \in Prots \ {NoProt} : SetProt(j, p, c)
  BY <1>2, SetProtInv
<1>3. CASE SetFileAlloc(j, p)
  BY <1>3, AllocInv
<1>4. CASE Delete(j, p)
  BY <1>4, DeleteInv
<1>5. CASE \E q \in use.files, c \in Prots : Rename(j, p, q, c)
  BY <1>5, RenameInv
<1>6. CASE \E q \in use.files, c \in Prots, ne \in BOOLEAN : Copy(j, p, q, c, ne)
  BY <1>6, CopyInv
<1> QED
  BY <1>1, <1>2, <1>3, <1>4, <1>5, <1>6 DEF FileOp

LEMMA FileStepInv ==
  ASSUME DiskInv, NEW j, j \in Jobs, FileStep(j)
  PROVE  DiskInv'
BY ReadOpInv, HostStepInv, LockIndexInv, SaveIndexInv DEF FileStep

LEMMA PackOpInv ==
  ASSUME DiskInv, NEW j, PackOp(j)
  PROVE  DiskInv'
BY DiskUnchanged DEF PackOp

\* DELETE/ACCOUNT and the removal of the folder.
LEMMA CmdDeleteInv ==
  ASSUME DiskInv, NEW j, NEW a, j \in Jobs, CmdDeleteAccount(j, a)
  PROVE  DiskInv'
<1>1. PICK r : r = [NoTask EXCEPT !.at = "rmdir", !.op = a]
  OBVIOUS
<1>2. r = [at |-> "rmdir", op |-> a, p |-> Nowhere, q |-> Nowhere, prot |-> NoProt, idx |-> Bare]
  BY <1>1 DEF NoTask
<1>3. TaskTyped(r) /\ r.at # "save"
  BY <1>2 DEF TaskTyped, Places
<1>4. task[j].at # "save" /\ task' = [task EXCEPT ![j] = r] /\ UNCHANGED <<exists, index, torn, dmu>>
  BY <1>1 DEF CmdDeleteAccount, Idle
<1>5. /\ exists' \subseteq Files /\ index' \in [Folders -> [Names -> Code]]
      /\ \A d \in torn : index'[d] = index[d]
  BY <1>4 DEF DiskInv
<1> QED
  BY <1>3, <1>4, <1>5, TaskStep

LEMMA RemoveInv ==
  ASSUME DiskInv, NEW j, j \in Jobs, RemoveAccount(j)
  PROVE  DiskInv'
<1>1. PICK gone : gone = SystemFolder(task[j].op)
  OBVIOUS
<1>2. /\ task[j].at = "rmdir" /\ gone \cap torn = {}
      /\ exists' = {p \in exists : p[1] \notin gone}
      /\ index' = [d \in Folders |-> IF d \in gone THEN Bare ELSE index[d]]
      /\ task' = [task EXCEPT ![j] = NoTask] /\ UNCHANGED <<torn, dmu>>
  BY <1>1 DEF RemoveAccount, Leave
<1>3. exists' \subseteq Files
  BY <1>2 DEF DiskInv
<1>4. index' \in [Folders -> [Names -> Code]]
  BY <1>2, BareTyped DEF DiskInv
<1>5. torn \subseteq Folders
  BY Saving DEF DiskInv
<1>6. \A d \in torn : index'[d] = index[d]
  BY <1>2, <1>5
<1>7. PICK r : r = NoTask
  OBVIOUS
<1>8. TaskTyped(r) /\ r.at # "save" /\ task' = [task EXCEPT ![j] = r]
  BY <1>2, <1>7, NoTaskTyped
<1> QED
  BY <1>2, <1>3, <1>4, <1>6, <1>8, TaskStep

\* The rest of the state of the process.
UseInv == use \in Scenarios /\ up \in BOOLEAN /\ crashes \in 0 .. MaxCrashes

LEMMA DiskNextInv ==
  ASSUME DiskInv, UseInv, DiskNext
  PROVE  DiskInv'
<1>1. use.files \subseteq Files
  BY StorageAssumption DEF UseInv
<1>2. PICK j \in Jobs :
        \/ FileStep(j)
        \/ \E p \in use.files : FileOp(j, p)
        \/ \E k \in Packs, id \in PackIds, public \in BOOLEAN :
             \/ Initialize(j, k, id, public)
             \/ \E ro \in BOOLEAN : Mount(j, k, id, public, ro)
        \/ \E k \in Packs : Dismount(j, k)
  BY DEF DiskNext
<1>3. CASE FileStep(j)
  BY <1>3, FileStepInv
<1>4. CASE \E p \in use.files : FileOp(j, p)
  BY <1>1, <1>4, FileOpInv
<1>5. CASE PackOp(j)
  BY <1>5, PackOpInv
<1> QED
  BY <1>2, <1>3, <1>4, <1>5 DEF Initialize, Mount, Dismount

LEMMA AccountNextInv ==
  ASSUME DiskInv, AccountNext
  PROVE  DiskInv'
<1>1. CASE UNCHANGED diskVars
  BY <1>1, DiskUnchanged DEF diskVars
<1>2. CASE \E j \in Jobs : \/ \E a \in Accounts : CmdDeleteAccount(j, a)
                           \/ RemoveAccount(j)
  BY <1>2, CmdDeleteInv, RemoveInv
<1> QED
  BY <1>1, <1>2 DEF AccountNext

LEMMA UseStep == UseInv /\ [Next]_vars => UseInv'
<1> SUFFICES ASSUME UseInv, [Next]_vars PROVE UseInv'
  OBVIOUS
<1>1. CASE DiskNext \/ SpoolNext \/ Drain \/ ListNext \/ AccountNext \/ Edit
  <2>1. Rest
    BY <1>1 DEF DiskNext, SpoolNext, Drain, ListNext, AccountNext, Edit
  <2> QED
    BY <2>1 DEF Rest, UseInv
<1>2. CASE Crash
  <2>1. crashes < MaxCrashes /\ crashes' = crashes + 1 /\ up' = FALSE /\ use' = use
    BY <1>2 DEF Crash
  <2>2. crashes' \in 0 .. MaxCrashes
    BY <2>1, StorageAssumption DEF UseInv
  <2> QED
    BY <2>1, <2>2 DEF UseInv
<1>3. CASE Restart
  BY <1>3 DEF Restart, UseInv
<1>4. CASE UNCHANGED vars
  BY <1>4 DEF vars, UseInv
<1> QED
  BY <1>1, <1>2, <1>3, <1>4 DEF Next

LEMMA DiskStep == DiskInv /\ UseInv /\ [Next]_vars => DiskInv'
<1> SUFFICES ASSUME DiskInv, UseInv, [Next]_vars PROVE DiskInv'
  OBVIOUS
<1>1. CASE DiskNext
  BY <1>1, DiskNextInv
<1>2. CASE AccountNext
  BY <1>2, AccountNextInv
<1>3. CASE SpoolNext \/ Drain \/ ListNext \/ Edit
  BY <1>3, DiskUnchanged DEF SpoolNext, Drain, ListNext, Edit, diskVars
<1>4. CASE Crash
  BY <1>4, DiskCrashInv DEF Crash
<1>5. CASE Restart
  BY <1>5, DiskUnchanged DEF Restart
<1>6. CASE UNCHANGED vars
  BY <1>6, DiskUnchanged DEF vars, diskVars
<1> QED
  BY <1>1, <1>2, <1>3, <1>4, <1>5, <1>6 DEF Next

-----------------------------------------------------------------------------
(* The packs. *)

GoodPacks(ps) ==
  /\ ps \in [Packs -> PackRecord]
  /\ ps[SystemPack].init /\ ps[SystemPack].mounted /\ ps[PayrolPack].init
  /\ \A k \in Packs : ps[k].init => Unused(ps[k].id, k, ps)

PacksInv ==
  /\ GoodPacks(packs)
  /\ packsFile = Lost \/ GoodPacks(packsFile)
  /\ up => packsFile = packs

\* One pack changes, and keeps what was said of it or takes an ID that is free.
LEMMA OnePack ==
  ASSUME NEW ps, NEW k, NEW r, ps \in [Packs -> PackRecord], k \in Packs, r \in PackRecord,
         \A o \in Packs : ps[o].init => Unused(ps[o].id, o, ps),
         r.init => Unused(r.id, k, ps)
  PROVE  /\ [ps EXCEPT ![k] = r] \in [Packs -> PackRecord]
         /\ \A o \in Packs : [ps EXCEPT ![k] = r][o].init =>
              Unused([ps EXCEPT ![k] = r][o].id, o, [ps EXCEPT ![k] = r])
<1>1. PICK qs : qs = [ps EXCEPT ![k] = r]
  OBVIOUS
<1>2. /\ qs \in [Packs -> PackRecord] /\ qs[k] = r
      /\ \A o \in Packs \ {k} : qs[o] = ps[o]
  BY <1>1
<1>3. ASSUME NEW o \in Packs, qs[o].init
      PROVE  Unused(qs[o].id, o, qs)
  <2>1. SUFFICES ASSUME NEW i \in Packs \ {o}, qs[i].init, qs[i].id = qs[o].id
                 PROVE  FALSE
    BY DEF Unused
  <2>2. CASE o = k
    BY <1>2, <1>3, <2>1, <2>2 DEF Unused
  <2>3. CASE i = k
    BY <1>2, <1>3, <2>1, <2>3 DEF Unused
  <2>4. CASE o # k /\ i # k
    BY <1>2, <1>3, <2>1, <2>4 DEF Unused
  <2> QED
    BY <2>2, <2>3, <2>4
<1> QED
  BY <1>1, <1>2, <1>3

LEMMA InitializedGood ==
  ASSUME NEW ps, NEW k, NEW id, NEW public, ps \in [Packs -> PackRecord], k \in Packs \ {SystemPack},
         id \in PackIds, public \in BOOLEAN, Unused(id, k, ps),
         ps[SystemPack].init, ps[SystemPack].mounted, k = PayrolPack \/ ps[PayrolPack].init,
         \A o \in Packs : ps[o].init => Unused(ps[o].id, o, ps)
  PROVE  GoodPacks(Initialized(ps, k, id, public))
<1>1. PICK r : r = [id |-> id, init |-> TRUE, mounted |-> FALSE, readOnly |-> FALSE, public |-> public]
  OBVIOUS
<1>2. r \in PackRecord /\ r.id = id /\ r.init = TRUE
  BY <1>1 DEF PackRecord
<1>3. PICK qs : qs = [ps EXCEPT ![k] = r]
  OBVIOUS
<1>4. /\ qs \in [Packs -> PackRecord]
      /\ \A o \in Packs : qs[o].init => Unused(qs[o].id, o, qs)
  BY <1>2, <1>3, OnePack
<1>5. qs[k] = r /\ \A o \in Packs \ {k} : qs[o] = ps[o]
  BY <1>3
<1>6. qs[SystemPack].init /\ qs[SystemPack].mounted /\ qs[PayrolPack].init
  BY <1>2, <1>5, DiskAssumption
<1>7. Initialized(ps, k, id, public) = qs
  BY <1>1, <1>3 DEF Initialized
<1> QED
  BY <1>4, <1>6, <1>7 DEF GoodPacks

LEMMA PackStep ==
  ASSUME GoodPacks(packs), NEW j, NEW k, NEW id, NEW public, NEW ro, k \in Packs, id \in PackIds,
         public \in BOOLEAN, ro \in BOOLEAN,
         Initialize(j, k, id, public) \/ Mount(j, k, id, public, ro) \/ Dismount(j, k)
  PROVE  GoodPacks(packs') /\ packsFile' = packs'
<1>1. /\ packs \in [Packs -> PackRecord] /\ packs[k] \in PackRecord
      /\ packs[SystemPack].init /\ packs[SystemPack].mounted /\ packs[PayrolPack].init
      /\ \A o \in Packs : packs[o].init => Unused(packs[o].id, o, packs)
  BY DEF GoodPacks
<1>2. packsFile' = packs'
  <2>1. CASE Initialize(j, k, id, public)
    BY <2>1 DEF Initialize, SavePacks
  <2>2. CASE Mount(j, k, id, public, ro)
    BY <2>2 DEF Mount, SavePacks
  <2>3. CASE Dismount(j, k)
    BY <2>3 DEF Dismount, SavePacks
  <2> QED
    BY <2>1, <2>2, <2>3
<1>3. CASE Initialize(j, k, id, public)
  <2>1. k # SystemPack /\ Unused(id, k, packs) /\ packs' = Initialized(packs, k, id, public)
    BY <1>3 DEF Initialize, SavePacks
  <2> QED
    BY <1>1, <1>2, <2>1, InitializedGood
<1>4. CASE Mount(j, k, id, public, ro) \/ Dismount(j, k)
  <2>1. \E r \in PackRecord :
          /\ packs' = [packs EXCEPT ![k] = r] /\ r.id = packs[k].id /\ r.init = packs[k].init
          /\ k = SystemPack => r.mounted
    <3>1. CASE Mount(j, k, id, public, ro)
      <4>1. PICK r : r = [packs[k] EXCEPT !.mounted = TRUE, !.readOnly = ro, !.public = @ \/ public]
        OBVIOUS
      <4>2. packs' = [packs EXCEPT ![k] = r]
        BY <1>1, <3>1, <4>1 DEF Mount, SavePacks
      <4>3. r \in PackRecord /\ r.id = packs[k].id /\ r.init = packs[k].init /\ r.mounted
        BY <1>1, <4>1 DEF PackRecord
      <4> QED
        BY <4>2, <4>3
    <3>2. CASE Dismount(j, k)
      <4>1. PICK r : r = [packs[k] EXCEPT !.mounted = FALSE]
        OBVIOUS
      <4>2. packs' = [packs EXCEPT ![k] = r] /\ k # SystemPack
        BY <1>1, <3>2, <4>1 DEF Dismount, SavePacks
      <4>3. r \in PackRecord /\ r.id = packs[k].id /\ r.init = packs[k].init
        BY <1>1, <4>1 DEF PackRecord
      <4> QED
        BY <4>2, <4>3
    <3> QED
      BY <1>4, <3>1, <3>2
  <2>2. PICK r \in PackRecord :
          /\ packs' = [packs EXCEPT ![k] = r] /\ r.id = packs[k].id /\ r.init = packs[k].init
          /\ k = SystemPack => r.mounted
    BY <2>1
  <2>3. r.init => Unused(r.id, k, packs)
    BY <1>1, <2>2
  <2>4. /\ packs' \in [Packs -> PackRecord]
        /\ \A o \in Packs : packs'[o].init => Unused(packs'[o].id, o, packs')
    BY <1>1, <2>2, <2>3, OnePack
  <2>5. packs'[k] = r /\ \A o \in Packs \ {k} : packs'[o] = packs[o]
    BY <1>1, <2>2
  <2>6. packs'[SystemPack].init /\ packs'[SystemPack].mounted /\ packs'[PayrolPack].init
    BY <1>1, <2>2, <2>5, DiskAssumption
  <2> QED
    BY <1>2, <2>4, <2>6 DEF GoodPacks
<1> QED
  BY <1>3, <1>4

\* Whatever the state of packs.json, the system starts with good packs.
LEMMA LoadGood ==
  ASSUME NEW file, file = Lost \/ GoodPacks(file)
  PROVE  GoodPacks(LoadPacks(file))
<1>1. PICK ds : ds = [k \in Packs |-> DefaultPack(k)]
  OBVIOUS
<1>2. ASSUME NEW k \in Packs
      PROVE  /\ ds[k] \in PackRecord
             /\ k = SystemPack => /\ ds[k].init = TRUE /\ ds[k].mounted = TRUE
                                  /\ ds[k].id = "SYSDSK"
             /\ k # SystemPack => ds[k].init = FALSE /\ ds[k].mounted = FALSE
  <2>1. CASE k = SystemPack
    <3>1. ds[k] = [id |-> "SYSDSK", init |-> TRUE, mounted |-> TRUE, readOnly |-> FALSE,
                   public |-> TRUE]
      BY <1>1, <2>1 DEF DefaultPack
    <3> QED
      BY <2>1, <3>1 DEF PackRecord
  <2>2. CASE k # SystemPack
    <3>1. ds[k] = [id |-> NoId, init |-> FALSE, mounted |-> FALSE, readOnly |-> FALSE,
                   public |-> FALSE]
      BY <1>1, <2>2 DEF DefaultPack
    <3> QED
      BY <2>2, <3>1 DEF PackRecord
  <2> QED
    BY <2>1, <2>2
<1>3. /\ ds \in [Packs -> PackRecord]
      /\ \A k \in Packs : ds[k].init <=> k = SystemPack
      /\ ds[SystemPack].init /\ ds[SystemPack].mounted /\ ds[SystemPack].id = "SYSDSK"
  <2>1. ds \in [Packs -> PackRecord]
    BY <1>1, <1>2
  <2> QED
    BY <1>2, <2>1, DiskAssumption
<1>4. \A k \in Packs : ds[k].init => Unused(ds[k].id, k, ds)
  BY <1>3 DEF Unused
<1>5. CASE file = Lost /\ ~ds[PayrolPack].init
  <2>1. LoadPacks(file) = Initialized(ds, PayrolPack, PayrolId, FALSE)
    BY <1>1, <1>5 DEF LoadPacks
  <2>2. PayrolPack \in Packs \ {SystemPack} /\ PayrolId \in PackIds /\ Unused(PayrolId, PayrolPack, ds)
    BY <1>3, <1>5, DiskAssumption DEF Unused
  <2> QED
    BY <1>3, <1>4, <2>1, <2>2, InitializedGood
<1>6. CASE file = Lost /\ ds[PayrolPack].init
  <2>1. LoadPacks(file) = ds
    BY <1>1, <1>6 DEF LoadPacks
  <2> QED
    BY <1>3, <1>4, <1>6, <2>1, DiskAssumption DEF GoodPacks
<1>7. CASE file # Lost
  <2>1. LoadPacks(file) = file
    BY <1>7 DEF LoadPacks, GoodPacks
  <2> QED
    BY <1>7, <2>1
<1> QED
  BY <1>5, <1>6, <1>7

LEMMA PacksUnchanged == PacksInv /\ UNCHANGED <<packVars, up>> => PacksInv'
BY DEF PacksInv, packVars, GoodPacks, Unused

LEMMA PacksStep == PacksInv /\ [Next]_vars => PacksInv'
<1> SUFFICES ASSUME PacksInv, [Next]_vars PROVE PacksInv'
  OBVIOUS
<1>1. CASE DiskNext
  <2>1. UNCHANGED up
    BY <1>1 DEF DiskNext, Rest
  <2>2. CASE UNCHANGED packVars
    BY <2>1, <2>2, PacksUnchanged
  <2>3. CASE \E j \in Jobs, k \in Packs, id \in PackIds, public \in BOOLEAN, ro \in BOOLEAN :
               Initialize(j, k, id, public) \/ Mount(j, k, id, public, ro)
    <3>1. GoodPacks(packs') /\ packsFile' = packs'
      BY <2>3, PackStep DEF PacksInv
    <3> QED
      BY <3>1 DEF PacksInv, GoodPacks, Unused
  <2>4. CASE \E j \in Jobs, k \in Packs : Dismount(j, k)
    <3>1. PayrolId \in PackIds /\ TRUE \in BOOLEAN
      BY DiskAssumption
    <3>2. GoodPacks(packs') /\ packsFile' = packs'
      BY <2>4, <3>1, PackStep DEF PacksInv
    <3> QED
      BY <3>2 DEF PacksInv, GoodPacks, Unused
  <2>5. PICK j \in Jobs :
          \/ FileStep(j)
          \/ \E p \in use.files : FileOp(j, p)
          \/ \E k \in Packs, id \in PackIds, public \in BOOLEAN :
               \/ Initialize(j, k, id, public)
               \/ \E ro \in BOOLEAN : Mount(j, k, id, public, ro)
          \/ \E k \in Packs : Dismount(j, k)
    BY <1>1 DEF DiskNext
  <2>6. CASE FileStep(j)
    <3>1. UNCHANGED packVars
      BY <2>6 DEF FileStep, ReadOp, HostStep, LockIndex, SaveIndex, Begin
    <3> QED
      BY <2>2, <3>1
  <2>7. CASE \E p \in use.files : FileOp(j, p)
    <3>1. UNCHANGED packVars
      BY <2>7 DEF FileOp, WriteText, SetProt, SetFileAlloc, Delete, Rename, Copy, Begin
    <3> QED
      BY <2>2, <3>1
  <2>8. CASE \E k \in Packs, id \in PackIds, public \in BOOLEAN : Initialize(j, k, id, public)
    BY <2>3, <2>8
  <2>9. CASE \E k \in Packs, id \in PackIds, public \in BOOLEAN, ro \in BOOLEAN :
               Mount(j, k, id, public, ro)
    BY <2>3, <2>9
  <2> QED
    BY <2>4, <2>5, <2>6, <2>7, <2>8, <2>9
<1>2. CASE AccountNext
  <2>1. UNCHANGED <<packVars, up>>
    BY <1>2 DEF AccountNext, Rest, diskVars, packVars, CmdDeleteAccount, RemoveAccount
  <2> QED
    BY <2>1, PacksUnchanged
<1>3. CASE SpoolNext \/ Drain \/ ListNext \/ Edit
  <2>1. UNCHANGED <<packVars, up>>
    BY <1>3 DEF SpoolNext, Drain, ListNext, Edit, Rest, diskVars, packVars
  <2> QED
    BY <2>1, PacksUnchanged
<1>4. CASE Crash
  <2>1. packs' = packs /\ up' = FALSE /\ (packsFile' = Lost \/ packsFile' = packsFile)
    BY <1>4 DEF Crash, DiskCrash
  <2>2. GoodPacks(packs)' /\ (packsFile' = Lost \/ GoodPacks(packsFile)')
    BY <2>1 DEF PacksInv, GoodPacks, Unused
  <2> QED
    BY <2>1, <2>2 DEF PacksInv
<1>5. CASE Restart
  <2>1. packs' = LoadPacks(packsFile) /\ packsFile' = packs'
    BY <1>5 DEF Restart, OpenDisk, SavePacks
  <2>2. GoodPacks(LoadPacks(packsFile))
    BY LoadGood DEF PacksInv
  <2>3. GoodPacks(packs)' /\ GoodPacks(packsFile)'
    BY <2>1, <2>2 DEF GoodPacks, Unused
  <2> QED
    BY <2>1, <2>3 DEF PacksInv
<1>6. CASE UNCHANGED vars
  <2>1. UNCHANGED <<packVars, up>>
    BY <1>6 DEF vars, diskVars, packVars
  <2> QED
    BY <2>1, PacksUnchanged
<1> QED
  BY <1>1, <1>2, <1>3, <1>4, <1>5, <1>6 DEF Next

LEMMA PacksInit == Init => PacksInv
<1> SUFFICES ASSUME Init PROVE PacksInv
  OBVIOUS
<1>1. packs = LoadPacks(Lost) /\ packsFile = packs
  BY DEF Init, DiskInit
<1>2. GoodPacks(LoadPacks(Lost))
  BY LoadGood
<1> QED
  BY <1>1, <1>2 DEF PacksInv

-----------------------------------------------------------------------------
(* The accounts. *)

Books == [Accounts -> Terms \cup {NoAccount}]

AccountsInv ==
  /\ accounts \in Books /\ Structural \subseteq Present(accounts)
  /\ accountsFile = Damaged \/ accountsFile \in Books
  /\ up => accountsFile = accounts

\* The accounts a system starts with are good ones.
LEMMA DefaultsGood == Defaults \in Books /\ Structural \subseteq Present(Defaults)
<1>1. \A a \in Accounts : Defaults[a] \in Terms \cup {NoAccount}
  BY AccountAssumption DEF Defaults
<1>2. Defaults \in Books
  BY <1>1 DEF Defaults, Books
<1> QED
  BY <1>2, AccountAssumption DEF Defaults, Present

\* Whatever is in accounts.json, Load leaves the structural accounts in memory and the file as
\* the memory.
LEMMA LoadBooks ==
  ASSUME accountsFile = Damaged \/ accountsFile \in Books, Load
  PROVE  accounts' \in Books /\ Structural \subseteq Present(accounts)' /\ accountsFile' = accounts'
<1>1. CASE SaveAs(Defaults)
  BY <1>1, DefaultsGood DEF SaveAs, Present
<1>2. CASE accountsFile \in Books /\ SaveAs(WithStructural(accountsFile))
  <2>1. PICK db : db = WithStructural(accountsFile)
    OBVIOUS
  <2>2. accounts' = db /\ accountsFile' = db
    BY <1>2, <2>1 DEF SaveAs
  <2>3. db = [a \in Accounts |-> IF a \in Structural /\ accountsFile[a] = NoAccount THEN StockTerms
                                 ELSE accountsFile[a]]
    BY <2>1 DEF WithStructural
  <2>4. db \in Books
    BY <1>2, <2>3, AccountAssumption DEF Books
  <2>5. \A a \in Structural : a \in Accounts /\ db[a] # NoAccount
    BY <2>3, AccountAssumption
  <2> QED
    BY <2>2, <2>4, <2>5 DEF Present
<1>3. CASE /\ accountsFile \in Books /\ WithStructural(accountsFile) = accountsFile
           /\ accounts' = accountsFile /\ UNCHANGED accountsFile
  <2>1. \A a \in Structural : a \in Accounts /\ WithStructural(accountsFile)[a] # NoAccount
    BY AccountAssumption DEF WithStructural
  <2> QED
    BY <1>3, <2>1 DEF Present
<1> QED
  BY <1>1, <1>2, <1>3 DEF Load

LEMMA SaveBooks ==
  ASSUME AccountsInv, NEW a, NEW v, a \in Accounts, v \in Terms \cup {NoAccount},
         a \in Structural => v # NoAccount, SaveAs([accounts EXCEPT ![a] = v]), UNCHANGED up
  PROVE  AccountsInv'
<1>1. PICK db : db = [accounts EXCEPT ![a] = v]
  OBVIOUS
<1>2. accounts' = db /\ accountsFile' = db
  BY <1>1 DEF SaveAs
<1>3. db \in Books
  BY <1>1 DEF AccountsInv, Books
<1>4. \A s \in Structural : s \in Accounts /\ db[s] # NoAccount
  BY <1>1, AccountAssumption DEF AccountsInv, Books, Present
<1> QED
  BY <1>2, <1>3, <1>4 DEF AccountsInv, Present

LEMMA AccountsUnchanged == AccountsInv /\ UNCHANGED <<accountVars, up>> => AccountsInv'
BY DEF AccountsInv, accountVars, Present

LEMMA AccountsStep == AccountsInv /\ [Next]_vars => AccountsInv'
<1> SUFFICES ASSUME AccountsInv, [Next]_vars PROVE AccountsInv'
  OBVIOUS
<1>1. CASE DiskNext \/ SpoolNext \/ Drain \/ ListNext \/ UNCHANGED vars
  <2>1. UNCHANGED <<accountVars, up>>
    BY <1>1 DEF DiskNext, SpoolNext, Drain, ListNext, Rest, vars
  <2> QED
    BY <2>1, AccountsUnchanged
<1>2. CASE AccountNext
  <2>1. UNCHANGED up
    BY <1>2 DEF AccountNext, Rest
  <2>2. \/ UNCHANGED accountVars
        \/ \E a \in Accounts, v \in Terms : CreateAccount(a, v) \/ SetTerms(a, v)
        \/ \E a \in Accounts : DeleteAccount(a)
    BY <1>2 DEF AccountNext, CmdDeleteAccount
  <2>3. CASE UNCHANGED accountVars
    BY <2>1, <2>3, AccountsUnchanged
  <2>4. CASE \E a \in Accounts, v \in Terms : CreateAccount(a, v) \/ SetTerms(a, v)
    <3>1. PICK a \in Accounts, v \in Terms : CreateAccount(a, v) \/ SetTerms(a, v)
      BY <2>4
    <3>2. SaveAs([accounts EXCEPT ![a] = v]) /\ v # NoAccount
      BY <3>1, AccountAssumption DEF CreateAccount, SetTerms
    <3> QED
      BY <2>1, <3>2, SaveBooks
  <2>5. CASE \E a \in Accounts : DeleteAccount(a)
    <3>1. PICK a \in Accounts : DeleteAccount(a)
      BY <2>5
    <3>2. SaveAs([accounts EXCEPT ![a] = NoAccount]) /\ a \notin Structural
      BY <3>1 DEF DeleteAccount
    <3> QED
      BY <2>1, <3>2, SaveBooks
  <2> QED
    BY <2>2, <2>3, <2>4, <2>5
<1>3. CASE Crash
  <2>1. /\ accounts' = accounts /\ up' = FALSE
        /\ accountsFile' = Damaged \/ accountsFile' = accountsFile
    BY <1>3 DEF Crash
  <2> QED
    BY <2>1 DEF AccountsInv, Present
<1>4. CASE Edit
  <2>1. accounts' = accounts /\ up' = up /\ ~up /\ accountsFile # Damaged
    BY <1>4 DEF Edit, Rest
  <2>2. accountsFile' = Damaged \/ accountsFile' \in Books
    <3>1. CASE accountsFile' = Damaged
      BY <3>1
    <3>2. CASE \E a \in Present(accountsFile) : accountsFile' = [accountsFile EXCEPT ![a] = NoAccount]
      BY <2>1, <3>2 DEF AccountsInv, Books, Present
    <3> QED
      BY <1>4, <3>1, <3>2 DEF Edit
  <2> QED
    BY <2>1, <2>2 DEF AccountsInv, Present
<1>5. CASE Restart
  <2>1. Load
    BY <1>5 DEF Restart
  <2>2. accounts' \in Books /\ Structural \subseteq Present(accounts)' /\ accountsFile' = accounts'
    BY <2>1, LoadBooks DEF AccountsInv
  <2> QED
    BY <2>2 DEF AccountsInv
<1> QED
  BY <1>1, <1>2, <1>3, <1>4, <1>5 DEF Next

-----------------------------------------------------------------------------
(* The inductive invariant of the disk, the packs and the accounts. *)

StorageInv == UseInv /\ DiskInv /\ PacksInv /\ AccountsInv

\* Every reachable state satisfies StorageInv: who holds d.mu, which index is truncated, what a
\* job is about to save, and that packs.json and accounts.json are what is in memory.
THEOREM StorageInvariant == Spec => []StorageInv
<1>1. Init => StorageInv
  <2>1. Init => UseInv
    BY StorageAssumption DEF Init, UseInv
  <2>2. Init => DiskInv
    BY DiskInitInv DEF Init
  <2>3. Init => AccountsInv
    BY DefaultsGood DEF Init, AccountsInv
  <2> QED
    BY <2>1, <2>2, <2>3, PacksInit DEF StorageInv
<1>2. StorageInv /\ [Next]_vars => StorageInv'
  BY UseStep, DiskStep, PacksStep, AccountsStep DEF StorageInv
<1> QED
  BY <1>1, <1>2, PTL DEF Spec

\* The type invariant, with which job holds d.mu and which index is truncated meanwhile.
THEOREM StorageTypes == Spec => []TypeOK
<1>1. StorageInv => TypeOK
  <2> SUFFICES ASSUME StorageInv PROVE TypeOK
    OBVIOUS
  <2>1. torn \subseteq Folders
    BY Saving DEF StorageInv, DiskInv
  <2>2. packs \in [Packs -> PackRecord]
    BY DEF StorageInv, PacksInv, GoodPacks
  <2>3. \A j \in Jobs : task[j].at = "save" <=> dmu = j
    BY DEF StorageInv, DiskInv
  <2>4. index \in [Folders -> [Names -> 0 .. 255]]
    BY DEF StorageInv, DiskInv, Code
  <2> QED
    BY <2>1, <2>2, <2>3, <2>4 DEF StorageInv, DiskInv, UseInv, TypeOK
<1> QED
  BY <1>1, StorageInvariant, PTL

\* While the system is up its accounts and its packs are those of the files it will start from,
\* [1,2], [1,9] and DB0: are there and a pack ID names one pack, however often it has crashed in
\* the middle of a save and whatever was done to accounts.json (db.Load, loadPacks, OpenDisk).
THEOREM StorageBoots == Spec => []BootsAsLeft
<1>1. StorageInv => BootsAsLeft
  <2> SUFFICES ASSUME StorageInv PROVE BootsAsLeft
    OBVIOUS
  <2>1. up => accounts = accountsFile /\ packs = packsFile
    BY DEF StorageInv, PacksInv, AccountsInv
  <2>2. Structural \subseteq Present(accounts)
    BY DEF StorageInv, AccountsInv
  <2>3. /\ packs[SystemPack].init /\ packs[SystemPack].mounted
        /\ \A k \in Packs : packs[k].init => Unused(packs[k].id, k, packs)
    BY DEF StorageInv, PacksInv, GoodPacks
  <2> QED
    BY <2>1, <2>2, <2>3 DEF BootsAsLeft
<1> QED
  BY <1>1, StorageInvariant, PTL

\* SaveIndex writes what the operation makes of the index as it is, so only its own entries change.
LEMMA SaveKeeps ==
  ASSUME DiskInv, NEW j, j \in Jobs, SaveIndex(j), NEW d, NEW n, d \in Folders, n \in Names,
         index'[d][n] # index[d][n]
  PROVE  task[j].at = "save" /\ (<<d, n>> \in Names1(task[j]) \/ task[j].p[1] # task[j].q[1])
<1>1. PICK t, f : t = task[j] /\ f = SavedIn(t)
  OBVIOUS
<1>2. t.at = "save" /\ index' = [index EXCEPT ![f] = t.idx]
  BY <1>1 DEF SaveIndex
<1>3. index \in [Folders -> [Names -> Code]] /\ TaskTyped(t)
  BY <1>1 DEF DiskInv
<1>4. d = f
  BY <1>2, <1>3
<1>5. f \in Folders /\ index'[f] = t.idx
  BY <1>2, <1>3, <1>4
<1>6. CASE t.p[1] # t.q[1]
  BY <1>1, <1>2, <1>6
<1>7. CASE t.p[1] = t.q[1]
  <2>1. f = t.p[1]
    BY <1>1, <1>7 DEF SavedIn
  <2>2. t.idx = Recorded(t, index[f])
    <3>1. Fresh(t)
      BY <1>1 DEF DiskInv
    <3> QED
      BY <1>2, <1>7, <2>1, <3>1 DEF Fresh
  <2>3. index[f] \in [Names -> Code]
    BY <1>3, <1>5
  <2>4. n = t.p[2] \/ n = t.q[2]
    BY <1>2, <1>3, <1>4, <1>5, <2>2, <2>3, RecordedTyped
  <2>5. t.p \in Files /\ t.q \in Files
    BY <1>2, <1>3 DEF TaskTyped
  <2>6. t.p = <<t.p[1], t.p[2]>> /\ t.q = <<t.q[1], t.q[2]>>
    BY <2>5, FilesTyped
  <2>7. <<d, n>> = t.p \/ <<d, n>> = t.q
    BY <1>4, <1>7, <2>1, <2>4, <2>6
  <2> QED
    BY <1>1, <1>2, <2>7 DEF Names1
<1> QED
  BY <1>6, <1>7

\* A save of an index changes the entries its operation names and no others, whatever the other
\* jobs have recorded in the folder between the steps of the operation (filesystem.go touchMeta,
\* SetFileAlloc, Delete, Rename under d.mu).
THEOREM StorageKeepsOthers == Spec => OthersKept
<1> DEFINE Others == \A d \in Folders, n \in Names :
       index'[d][n] # index[d][n] /\ up' =>
         \E j \in Jobs :
           \/ task[j].at = "save" /\ (<<d, n>> \in Names1(task[j]) \/ task[j].p[1] # task[j].q[1])
           \/ task[j].at = "rmdir" /\ d \in SystemFolder(task[j].op)
<1>1. StorageInv /\ [Next]_vars => [Others]_vars
  <2> SUFFICES ASSUME StorageInv, Next, NEW d \in Folders, NEW n \in Names,
                      index'[d][n] # index[d][n], up'
               PROVE  \E j \in Jobs :
           \/ task[j].at = "save" /\ (<<d, n>> \in Names1(task[j]) \/ task[j].p[1] # task[j].q[1])
           \/ task[j].at = "rmdir" /\ d \in SystemFolder(task[j].op)
    OBVIOUS
  <2>1. index' # index
    OBVIOUS
  <2>2. \/ \E j \in Jobs : SaveIndex(j)
        \/ \E j \in Jobs : RemoveAccount(j)
    <3>1. CASE DiskNext
      <4>1. PICK j \in Jobs :
          \/ FileStep(j)
          \/ \E p \in use.files : FileOp(j, p)
          \/ PackOp(j)
        BY <3>1 DEF DiskNext, Initialize, Mount, Dismount
      <4>2. CASE FileStep(j)
        BY <2>1, <4>2 DEF FileStep, ReadOp, HostStep, LockIndex, Begin
      <4>3. CASE \E p \in use.files : FileOp(j, p)
        BY <2>1, <4>3 DEF FileOp, WriteText, SetProt, SetFileAlloc, Delete, Rename, Copy, Begin
      <4>4. CASE PackOp(j)
        BY <2>1, <4>4 DEF PackOp
      <4> QED
        BY <4>1, <4>2, <4>3, <4>4
    <3>2. CASE AccountNext
      BY <2>1, <3>2 DEF AccountNext, diskVars, CmdDeleteAccount
    <3>3. CASE SpoolNext \/ Drain \/ ListNext \/ Edit \/ Restart
      BY <2>1, <3>3 DEF SpoolNext, Drain, ListNext, Edit, Restart, diskVars
    <3>4. CASE Crash
      BY <3>4 DEF Crash
    <3> QED
      BY <3>1, <3>2, <3>3, <3>4 DEF Next
  <2>3. CASE \E j \in Jobs : SaveIndex(j)
    BY <2>3, SaveKeeps DEF StorageInv
  <2>4. CASE \E j \in Jobs : RemoveAccount(j)
    <3>1. PICK j \in Jobs : RemoveAccount(j)
      BY <2>4
    <3>2. PICK gone : gone = SystemFolder(task[j].op)
      OBVIOUS
    <3>3. task[j].at = "rmdir" /\ index' = [f \in Folders |-> IF f \in gone THEN Bare ELSE index[f]]
      BY <3>1, <3>2 DEF RemoveAccount
    <3>4. d \in gone
      BY <3>3
    <3> QED
      BY <3>2, <3>3, <3>4
  <2> QED
    BY <2>2, <2>3, <2>4
<1> QED
  BY <1>1, StorageInvariant, PTL DEF Spec, OthersKept

-----------------------------------------------------------------------------
(* The print queue. *)

Requests == [id : Nat, who : Users, file : Printables, n : Nat]

\* The ids of the requests that wait, and their serial numbers, grow.
Growing(s) == \A k, l \in 1 .. Len(s) : k < l => s[k].id < s[l].id /\ s[k].n < s[l].n

QueueInv ==
  /\ queue = [next |-> queue.next, jobs |-> queue.jobs]
  /\ queue.next \in Nat /\ queue.jobs \in Seq(Requests) /\ Growing(queue.jobs)
  /\ \A k \in 1 .. Len(queue.jobs) : queue.jobs[k].id < queue.next /\ queue.jobs[k].n <= sent
  /\ spool \in Seq(Requests) /\ lp0 \in Seq(Requests) /\ sent \in Nat

\* The serial numbers of a sequence of requests.
LEMMA SerialsTyped ==
  ASSUME NEW s, s \in Seq(Requests)
  PROVE  /\ Serials(s) \in Seq(Nat) /\ Len(Serials(s)) = Len(s)
         /\ \A k \in 1 .. Len(s) : Serials(s)[k] = s[k].n
<1>1. Serials(s) = [k \in 1 .. Len(s) |-> s[k].n]
  BY DEF Serials
<1>2. ASSUME NEW k \in 1 .. Len(s)
      PROVE  s[k].n \in Nat
  <2>1. s[k] \in Requests
    OBVIOUS
  <2> QED
    BY <2>1 DEF Requests
<1> QED
  BY <1>1, <1>2

\* None for none.
LEMMA SerialsNone == Serials(<<>>) = <<>>
BY DEF Serials

\* A request that comes last gives the last number.
LEMMA SerialsAppend ==
  ASSUME NEW s, NEW e, s \in Seq(Requests), e \in Requests
  PROVE  Serials(Append(s, e)) = Append(Serials(s), e.n)
<1>1. PICK t : t = Append(s, e)
  OBVIOUS
<1>2. /\ t \in Seq(Requests) /\ Len(t) = Len(s) + 1
      /\ \A k \in 1 .. Len(s) + 1 : t[k] = IF k <= Len(s) THEN s[k] ELSE e
  BY <1>1
<1>3. PICK a, b, n : a = Serials(s) /\ b = Serials(t) /\ n = e.n
  OBVIOUS
<1>4. /\ a \in Seq(Nat) /\ Len(a) = Len(s) /\ \A k \in 1 .. Len(s) : a[k] = s[k].n
      /\ b \in Seq(Nat) /\ Len(b) = Len(t) /\ \A k \in 1 .. Len(t) : b[k] = t[k].n
  BY <1>2, <1>3, SerialsTyped
<1>5. n \in Nat
  BY <1>3 DEF Requests
<1>6. PICK c : c = Append(a, n)
  OBVIOUS
<1>7. /\ c \in Seq(Nat) /\ Len(c) = Len(a) + 1
      /\ \A k \in 1 .. Len(a) + 1 : c[k] = IF k <= Len(a) THEN a[k] ELSE n
  BY <1>4, <1>5, <1>6
<1>8. ASSUME NEW k \in 1 .. Len(b)
      PROVE  b[k] = c[k]
  <2>1. k \in 1 .. Len(s) + 1 /\ b[k] = t[k].n /\ Len(s) \in Nat
    BY <1>2, <1>4
  <2>2. CASE k <= Len(s)
    <3>1. k \in 1 .. Len(s)
      BY <2>1, <2>2
    <3> QED
      BY <1>2, <1>4, <1>7, <2>1, <2>2, <3>1
  <2>3. CASE ~ (k <= Len(s))
    BY <1>2, <1>3, <1>4, <1>7, <2>1, <2>3
  <2> QED
    BY <2>2, <2>3
<1>9. b = c
  BY <1>2, <1>4, <1>7, <1>8, SeqEqual
<1> QED
  BY <1>1, <1>3, <1>6, <1>9

\* The number of the first request, and those of the others.
LEMMA SerialsTail ==
  ASSUME NEW s, s \in Seq(Requests), s # <<>>
  PROVE  /\ Serials(s) # <<>> /\ Head(s) \in Requests /\ Tail(s) \in Seq(Requests)
         /\ Serials(<<Head(s)>>) = <<Head(Serials(s))>> /\ Serials(Tail(s)) = Tail(Serials(s))
<1>1. PICK t, h, a : t = Tail(s) /\ h = Head(s) /\ a = Serials(s)
  OBVIOUS
<1>2. /\ t \in Seq(Requests) /\ Len(t) = Len(s) - 1 /\ h \in Requests /\ h = s[1]
      /\ \A k \in 1 .. Len(s) - 1 : t[k] = s[k + 1]
      /\ Len(s) \in Nat /\ Len(s) >= 1
  BY <1>1
<1>3. a \in Seq(Nat) /\ Len(a) = Len(s) /\ \A k \in 1 .. Len(s) : a[k] = s[k].n
  BY <1>1, SerialsTyped
<1>4. a # <<>> /\ Head(a) = a[1]
  BY <1>2, <1>3
<1>5. PICK b, c : b = Serials(t) /\ c = Tail(a)
  OBVIOUS
<1>6. b \in Seq(Nat) /\ Len(b) = Len(t) /\ \A k \in 1 .. Len(t) : b[k] = t[k].n
  BY <1>2, <1>5, SerialsTyped
<1>7. c \in Seq(Nat) /\ Len(c) = Len(a) - 1 /\ \A k \in 1 .. Len(a) - 1 : c[k] = a[k + 1]
  BY <1>3, <1>4, <1>5
<1>8. ASSUME NEW k \in 1 .. Len(b)
      PROVE  b[k] = c[k]
  <2>1. k \in 1 .. Len(s) - 1 /\ k \in 1 .. Len(a) - 1 /\ b[k] = t[k].n /\ Len(s) \in Nat
    BY <1>2, <1>3, <1>6
  <2>2. k + 1 \in 1 .. Len(s)
    BY <2>1
  <2>3. t[k] = s[k + 1] /\ c[k] = a[k + 1] /\ a[k + 1] = s[k + 1].n
    BY <1>2, <1>3, <1>7, <2>1, <2>2
  <2> QED
    BY <2>1, <2>3
<1>9. b = c
  BY <1>2, <1>3, <1>6, <1>7, <1>8, SeqEqual
<1>10. Serials(<<h>>) = <<a[1]>>
  <2>0. 1 \in 1 .. Len(s)
    BY <1>2
  <2>1. h.n = a[1]
    BY <1>2, <1>3, <2>0
  <2>2. Serials(<<h>>) = [k \in 1 .. 1 |-> <<h>>[k].n]
    BY DEF Serials
  <2>3. Serials(<<h>>) = <<h.n>>
    BY <2>2
  <2> QED
    BY <2>1, <2>3
<1> QED
  BY <1>1, <1>2, <1>4, <1>5, <1>9, <1>10

\* Two sequences one after the other.
LEMMA SerialsConcat ==
  ASSUME NEW s, NEW t, s \in Seq(Requests), t \in Seq(Requests)
  PROVE  Serials(s \o t) = Serials(s) \o Serials(t)
<1>1. PICK u : u = s \o t
  OBVIOUS
<1>2. /\ u \in Seq(Requests) /\ Len(u) = Len(s) + Len(t) /\ Len(s) \in Nat /\ Len(t) \in Nat
      /\ \A k \in 1 .. Len(s) + Len(t) : u[k] = IF k <= Len(s) THEN s[k] ELSE t[k - Len(s)]
  BY <1>1
<1>3. PICK a, b, c : a = Serials(s) /\ b = Serials(t) /\ c = Serials(u)
  OBVIOUS
<1>4. /\ a \in Seq(Nat) /\ Len(a) = Len(s) /\ \A k \in 1 .. Len(s) : a[k] = s[k].n
      /\ b \in Seq(Nat) /\ Len(b) = Len(t) /\ \A k \in 1 .. Len(t) : b[k] = t[k].n
      /\ c \in Seq(Nat) /\ Len(c) = Len(u) /\ \A k \in 1 .. Len(u) : c[k] = u[k].n
  BY <1>2, <1>3, SerialsTyped
<1>5. PICK d : d = a \o b
  OBVIOUS
<1>6. /\ d \in Seq(Nat) /\ Len(d) = Len(a) + Len(b)
      /\ \A k \in 1 .. Len(a) + Len(b) : d[k] = IF k <= Len(a) THEN a[k] ELSE b[k - Len(a)]
  <2>1. a \in Seq(Nat) /\ b \in Seq(Nat)
    BY <1>4
  <2> QED
    BY <1>5, <2>1
<1>7. ASSUME NEW k \in 1 .. Len(c)
      PROVE  c[k] = d[k]
  <2>1. k \in 1 .. Len(s) + Len(t) /\ c[k] = u[k].n /\ Len(a) = Len(s) /\ Len(b) = Len(t)
    BY <1>2, <1>4
  <2>2. CASE k <= Len(s)
    <3>1. k \in 1 .. Len(s)
      BY <1>2, <2>1, <2>2
    <3>2. d[k] = a[k] /\ u[k] = s[k] /\ a[k] = s[k].n
      BY <1>2, <1>4, <1>6, <2>1, <2>2, <3>1
    <3> QED
      BY <2>1, <3>2
  <2>3. CASE ~ (k <= Len(s))
    <3>1. k - Len(s) \in 1 .. Len(t)
      BY <1>2, <2>1, <2>3
    <3>2. d[k] = b[k - Len(s)] /\ u[k] = t[k - Len(s)] /\ b[k - Len(s)] = t[k - Len(s)].n
      BY <1>2, <1>4, <1>6, <2>1, <2>3, <3>1
    <3> QED
      BY <2>1, <3>2
  <2> QED
    BY <2>2, <2>3
<1>8. c = d
  BY <1>2, <1>4, <1>6, <1>7, SeqEqual
<1> QED
  BY <1>1, <1>3, <1>5, <1>8

\* What is left when one request is taken out.
LEMMA SerialsRemove ==
  ASSUME NEW s, NEW i, s \in Seq(Requests), i \in 1 .. Len(s)
  PROVE  Serials(RemoveAt(s, i)) = RemoveAt(Serials(s), i)
<1>1. PICK r, a : r = RemoveAt(s, i) /\ a = Serials(s)
  OBVIOUS
<1>2. /\ r \in Seq(Requests) /\ Len(r) = Len(s) - 1
      /\ \A k \in 1 .. Len(s) - 1 : r[k] = IF k < i THEN s[k] ELSE s[k + 1]
  BY <1>1, RemoveAtIs
<1>3. a \in Seq(Nat) /\ Len(a) = Len(s) /\ \A k \in 1 .. Len(s) : a[k] = s[k].n
  BY <1>1, SerialsTyped
<1>4. PICK b, c : b = Serials(r) /\ c = RemoveAt(a, i)
  OBVIOUS
<1>5. b \in Seq(Nat) /\ Len(b) = Len(r) /\ \A k \in 1 .. Len(r) : b[k] = r[k].n
  BY <1>2, <1>4, SerialsTyped
<1>6. i \in 1 .. Len(a)
  BY <1>3
<1>7. /\ c \in Seq(Nat) /\ Len(c) = Len(a) - 1
      /\ \A k \in 1 .. Len(a) - 1 : c[k] = IF k < i THEN a[k] ELSE a[k + 1]
  BY <1>3, <1>4, <1>6, RemoveAtIs
<1>8. ASSUME NEW k \in 1 .. Len(b)
      PROVE  b[k] = c[k]
  <2>1. Len(s) \in Nat /\ Len(b) = Len(s) - 1 /\ Len(a) = Len(s)
    BY <1>2, <1>3, <1>5
  <2>2. k \in 1 .. Len(s) - 1 /\ k \in 1 .. Len(s) /\ k + 1 \in 1 .. Len(s)
    BY <2>1
  <2>3. b[k] = r[k].n
    BY <1>2, <1>5, <2>2
  <2>4. CASE k < i
    <3>1. r[k] = s[k] /\ c[k] = a[k] /\ a[k] = s[k].n
      BY <1>2, <1>3, <1>7, <2>1, <2>2, <2>4
    <3> QED
      BY <2>3, <3>1
  <2>5. CASE ~ (k < i)
    <3>1. r[k] = s[k + 1] /\ c[k] = a[k + 1] /\ a[k + 1] = s[k + 1].n
      BY <1>2, <1>3, <1>7, <2>1, <2>2, <2>5
    <3> QED
      BY <2>3, <3>1
  <2> QED
    BY <2>4, <2>5
<1>9. b = c
  BY <1>2, <1>3, <1>5, <1>7, <1>8, SeqEqual
<1> QED
  BY <1>1, <1>4, <1>9

-----------------------------------------------------------------------------

LEMMA QueueUnchanged == QueueInv /\ UNCHANGED spoolVars => QueueInv'
BY DEF QueueInv, spoolVars, Growing

LEMMA QueueInit == Init => QueueInv
<1> SUFFICES ASSUME Init PROVE QueueInv
  OBVIOUS
<1>1. queue = [next |-> 1, jobs |-> <<>>] /\ spool = <<>> /\ lp0 = <<>> /\ sent = 0
  BY DEF Init, SpoolInit, EmptyQueue
<1> QED
  BY <1>1 DEF QueueInv, Growing

\* QUE puts the request at the end, with the next id and the next number.
LEMMA EnqueueInv ==
  ASSUME QueueInv, NEW u, NEW f, u \in Users, f \in Printables, EnqueuePrint(u, f)
  PROVE  /\ QueueInv' /\ sent < MaxRequests /\ sent' = sent + 1 /\ UNCHANGED <<spool, lp0>>
         /\ Serials(queue'.jobs) = Append(Serials(queue.jobs), sent')
<1>1. PICK s, m, e : /\ s = queue.jobs /\ m = queue.next
                     /\ e = [id |-> m, who |-> u, file |-> f, n |-> sent']
  OBVIOUS
<1>2. /\ sent < MaxRequests /\ sent' = sent + 1 /\ UNCHANGED <<spool, lp0>>
      /\ queue' = [next |-> m + 1, jobs |-> Append(s, e)]
  BY <1>1 DEF EnqueuePrint
<1>3. /\ s \in Seq(Requests) /\ m \in Nat /\ sent \in Nat /\ Growing(s)
      /\ \A k \in 1 .. Len(s) : s[k].id < m /\ s[k].n <= sent
  BY <1>1 DEF QueueInv
<1>4. e \in Requests /\ e.id = m /\ e.n = sent + 1
  BY <1>1, <1>2, <1>3 DEF Requests
<1>5. PICK t : t = Append(s, e)
  OBVIOUS
<1>6. /\ t \in Seq(Requests) /\ Len(t) = Len(s) + 1 /\ Len(s) \in Nat
      /\ \A k \in 1 .. Len(s) + 1 : t[k] = IF k <= Len(s) THEN s[k] ELSE e
  BY <1>3, <1>4, <1>5
<1>7. /\ \A k \in 1 .. Len(s) : t[k] = s[k]
      /\ \A k \in 1 .. Len(t) : k \in 1 .. Len(s) \/ k = Len(s) + 1
      /\ t[Len(s) + 1] = e
  BY <1>6
<1>8. queue'.next = m + 1 /\ queue'.jobs = t /\ queue' = [next |-> queue'.next, jobs |-> queue'.jobs]
  BY <1>2, <1>5
<1>9. \A k \in 1 .. Len(s) : s[k].id \in Nat /\ s[k].n \in Nat
  <2>1. \A k \in 1 .. Len(s) : s[k] \in Requests
    BY <1>3
  <2> QED
    BY <2>1 DEF Requests
<1>10. ASSUME NEW k \in 1 .. Len(t)
       PROVE  t[k].id < m + 1 /\ t[k].n <= sent'
  <2>1. CASE k \in 1 .. Len(s)
    <3>1. t[k] = s[k] /\ s[k].id < m /\ s[k].n <= sent /\ s[k].id \in Nat /\ s[k].n \in Nat
      BY <1>3, <1>7, <1>9, <2>1
    <3> QED
      BY <1>2, <1>3, <3>1
  <2>2. CASE k = Len(s) + 1
    BY <1>2, <1>3, <1>4, <1>7, <2>2
  <2> QED
    BY <1>7, <2>1, <2>2
<1>11. Growing(t)
  <2> SUFFICES ASSUME NEW k \in 1 .. Len(t), NEW l \in 1 .. Len(t), k < l
               PROVE  t[k].id < t[l].id /\ t[k].n < t[l].n
    BY DEF Growing
  <2>1. k \in 1 .. Len(s)
    BY <1>6
  <2>2. t[k] = s[k] /\ s[k].id < m /\ s[k].n <= sent /\ s[k].id \in Nat /\ s[k].n \in Nat
    BY <1>3, <1>7, <1>9, <2>1
  <2>3. CASE l \in 1 .. Len(s)
    <3>1. t[l] = s[l]
      BY <1>7, <2>3
    <3> QED
      BY <1>3, <2>1, <2>2, <2>3, <3>1 DEF Growing
  <2>4. CASE l = Len(s) + 1
    <3>1. t[l].id = m /\ t[l].n = sent + 1
      BY <1>4, <1>7, <2>4
    <3> QED
      BY <1>3, <2>2, <3>1
  <2> QED
    BY <1>7, <2>3, <2>4
<1>12. spool' \in Seq(Requests) /\ lp0' \in Seq(Requests) /\ sent' \in Nat /\ m + 1 \in Nat
  BY <1>2, <1>3 DEF QueueInv
<1>13. QueueInv'
  BY <1>6, <1>8, <1>10, <1>11, <1>12 DEF QueueInv
<1>14. Serials(t) = Append(Serials(s), sent')
  <2>1. Serials(Append(s, e)) = Append(Serials(s), e.n)
    BY <1>3, <1>4, SerialsAppend
  <2> QED
    BY <1>2, <1>4, <1>5, <2>1
<1> QED
  BY <1>1, <1>2, <1>8, <1>13, <1>14

\* A queue out of which one request is taken is a queue.
LEMMA RemovedGood ==
  ASSUME NEW s, NEW i, NEW m, NEW c, s \in Seq(Requests), i \in 1 .. Len(s), Growing(s),
         m \in Nat, c \in Nat, \A k \in 1 .. Len(s) : s[k].id < m /\ s[k].n <= c
  PROVE  /\ RemoveAt(s, i) \in Seq(Requests) /\ Growing(RemoveAt(s, i))
         /\ \A k \in 1 .. Len(RemoveAt(s, i)) :
              RemoveAt(s, i)[k].id < m /\ RemoveAt(s, i)[k].n <= c
<1>1. PICK r : r = RemoveAt(s, i)
  OBVIOUS
<1>2. /\ r \in Seq(Requests) /\ Len(r) = Len(s) - 1
      /\ \A k \in 1 .. Len(s) - 1 : r[k] = IF k < i THEN s[k] ELSE s[k + 1]
  BY <1>1, RemoveAtIs
<1>3. PICK at : at = [k \in 1 .. Len(r) |-> IF k < i THEN k ELSE k + 1]
  OBVIOUS
<1>4. \A k \in 1 .. Len(r) : at[k] \in 1 .. Len(s) /\ r[k] = s[at[k]]
  <2> SUFFICES ASSUME NEW k \in 1 .. Len(r)
               PROVE  at[k] \in 1 .. Len(s) /\ r[k] = s[at[k]]
    OBVIOUS
  <2>1. Len(s) \in Nat /\ k \in 1 .. Len(s) - 1
    BY <1>2
  <2>2. CASE k < i
    BY <1>2, <1>3, <2>1, <2>2
  <2>3. CASE ~ (k < i)
    BY <1>2, <1>3, <2>1, <2>3
  <2> QED
    BY <2>2, <2>3
<1>5. \A k, l \in 1 .. Len(r) : k < l => at[k] < at[l]
  BY <1>2, <1>3
<1>6. Growing(r)
  BY <1>4, <1>5 DEF Growing
<1>7. \A k \in 1 .. Len(r) : r[k].id < m /\ r[k].n <= c
  BY <1>4
<1> QED
  BY <1>1, <1>2, <1>6, <1>7

\* QUE/DE takes out one request, or none.
LEMMA DeleteQueueInv ==
  ASSUME QueueInv, NEW u, NEW id, DeleteQueue(u, id)
  PROVE  /\ QueueInv' /\ UNCHANGED <<spool, lp0, sent>>
         /\ \/ queue' = queue
            \/ \E n \in ToSet(Serials(queue.jobs)) :
                 Serials(queue'.jobs) = Without(Serials(queue.jobs), {n})
<1>1. PICK s, m, D : /\ s = queue.jobs /\ m = queue.next
                     /\ D = {e \in ToSet(s) : Deletes(u, id, e)}
  OBVIOUS
<1>2. /\ s \in Seq(Requests) /\ m \in Nat /\ sent \in Nat /\ Growing(s)
      /\ \A k \in 1 .. Len(s) : s[k].id < m /\ s[k].n <= sent
      /\ queue = [next |-> m, jobs |-> s]
  BY <1>1 DEF QueueInv
<1>3. PICK t : t = Without(s, D)
  OBVIOUS
<1>4. UNCHANGED <<spool, lp0, sent>> /\ queue' = [next |-> m, jobs |-> t]
  BY <1>1, <1>2, <1>3 DEF DeleteQueue
<1>5. CASE \A k \in 1 .. Len(s) : s[k] \notin D
  <2>1. t = s
    BY <1>2, <1>3, <1>5, WithoutNone
  <2>2. queue' = queue
    BY <1>2, <1>4, <2>1
  <2>3. QueueInv'
    BY <1>4, <2>2 DEF QueueInv, Growing
  <2> QED
    BY <1>4, <2>2, <2>3
<1>6. CASE \E k \in 1 .. Len(s) : s[k] \in D
  <2>1. PICK i \in 1 .. Len(s) : s[i] \in D
    BY <1>6
  <2>2. ASSUME NEW k \in 1 .. Len(s)
        PROVE  s[k].id \in Nat /\ s[k].n \in Nat
    <3>1. s[k] \in Requests
      BY <1>2
    <3> QED
      BY <3>1 DEF Requests
  <2>3. ASSUME NEW k \in 1 .. Len(s), k # i
        PROVE  s[k].id # s[i].id /\ s[k].n # s[i].n
    <3>1. k < i \/ i < k
      BY <2>3
    <3>2. /\ s[k].id < s[i].id \/ s[i].id < s[k].id
          /\ s[k].n < s[i].n \/ s[i].n < s[k].n
      BY <1>2, <3>1 DEF Growing
    <3> QED
      BY <2>2, <3>2
  <2>4. Sole(s, i, D)
    <3>1. \A e \in D : e.id = id
      BY <1>1 DEF Deletes
    <3> QED
      BY <2>1, <2>3, <3>1 DEF Sole
  <2>5. t = RemoveAt(s, i)
    BY <1>2, <1>3, <2>1, <2>4, WithoutUnique
  <2>6. QueueInv'
    <3>1. /\ t \in Seq(Requests) /\ Growing(t)
          /\ \A k \in 1 .. Len(t) : t[k].id < m /\ t[k].n <= sent
      BY <1>2, <2>5, RemovedGood
    <3>2. queue'.next = m /\ queue'.jobs = t /\ queue' = [next |-> queue'.next, jobs |-> queue'.jobs]
      BY <1>4
    <3>3. spool' \in Seq(Requests) /\ lp0' \in Seq(Requests) /\ sent' = sent
      BY <1>4 DEF QueueInv
    <3> QED
      BY <1>2, <3>1, <3>2, <3>3 DEF QueueInv
  <2>7. PICK a : a = Serials(s)
    OBVIOUS
  <2>8. a \in Seq(Nat) /\ Len(a) = Len(s) /\ \A k \in 1 .. Len(s) : a[k] = s[k].n
    BY <1>2, <2>7, SerialsTyped
  <2>9. PICK n : n = a[i]
    OBVIOUS
  <2>10. i \in 1 .. Len(a) /\ a[i] \in {n} /\ n \in ToSet(a)
    BY <2>8, <2>9 DEF ToSet
  <2>11. Sole(a, i, {n})
    BY <2>3, <2>8, <2>9 DEF Sole
  <2>12. Without(a, {n}) = RemoveAt(a, i)
    BY <2>8, <2>10, <2>11, WithoutUnique
  <2>13. Serials(t) = RemoveAt(a, i)
    <3>1. Serials(RemoveAt(s, i)) = RemoveAt(Serials(s), i)
      BY <1>2, SerialsRemove
    <3> QED
      BY <2>5, <2>7, <3>1
  <2>14. queue'.jobs = t
    BY <1>4
  <2>15. \E k \in ToSet(Serials(queue.jobs)) :
           Serials(queue'.jobs) = Without(Serials(queue.jobs), {k})
    BY <1>1, <2>7, <2>10, <2>12, <2>13, <2>14
  <2> QED
    BY <1>4, <2>6, <2>15
<1> QED
  BY <1>5, <1>6

\* The spooler takes the first request.
LEMMA DrainInv ==
  ASSUME QueueInv, DrainOne
  PROVE  /\ QueueInv' /\ UNCHANGED <<lp0, sent>>
         /\ Serials(spool) = <<>> /\ Serials(queue.jobs) # <<>>
         /\ Serials(spool') = <<Head(Serials(queue.jobs))>>
         /\ Serials(queue'.jobs) = Tail(Serials(queue.jobs))
<1>1. PICK s, m : s = queue.jobs /\ m = queue.next
  OBVIOUS
<1>2. /\ s \in Seq(Requests) /\ m \in Nat /\ sent \in Nat /\ Growing(s)
      /\ \A k \in 1 .. Len(s) : s[k].id < m /\ s[k].n <= sent
      /\ queue = [next |-> m, jobs |-> s]
  BY <1>1 DEF QueueInv
<1>3. PICK t, h : t = Tail(s) /\ h = Head(s)
  OBVIOUS
<1>4. /\ spool = <<>> /\ s # <<>> /\ spool' = <<h>> /\ UNCHANGED <<lp0, sent>>
      /\ queue' = [next |-> m, jobs |-> t]
  BY <1>1, <1>2, <1>3 DEF DrainOne
<1>5. /\ t \in Seq(Requests) /\ Len(t) = Len(s) - 1 /\ Len(s) \in Nat
      /\ \A k \in 1 .. Len(s) - 1 : t[k] = s[k + 1]
  BY <1>2, <1>3, <1>4
<1>6. Growing(t) /\ \A k \in 1 .. Len(t) : t[k].id < m /\ t[k].n <= sent
  <2>1. \A k \in 1 .. Len(t) : k + 1 \in 1 .. Len(s) /\ t[k] = s[k + 1]
    BY <1>5
  <2>2. \A k, l \in 1 .. Len(t) : k < l => k + 1 < l + 1
    OBVIOUS
  <2>3. Growing(t)
    BY <1>2, <2>1, <2>2 DEF Growing
  <2> QED
    BY <1>2, <2>1, <2>3
<1>7. /\ Serials(s) # <<>> /\ h \in Requests
      /\ Serials(<<h>>) = <<Head(Serials(s))>> /\ Serials(t) = Tail(Serials(s))
  BY <1>2, <1>3, <1>4, SerialsTail
<1>8. queue'.next = m /\ queue'.jobs = t /\ queue' = [next |-> queue'.next, jobs |-> queue'.jobs]
  BY <1>4
<1>9. spool' \in Seq(Requests) /\ lp0' \in Seq(Requests) /\ sent' = sent
  BY <1>4, <1>7 DEF QueueInv
<1>10. QueueInv'
  BY <1>2, <1>5, <1>6, <1>8, <1>9 DEF QueueInv
<1> QED
  BY <1>1, <1>4, <1>7, <1>8, <1>10, SerialsNone

\* It prints what it has taken.
LEMMA PrintInv ==
  ASSUME QueueInv, PrintJob
  PROVE  /\ QueueInv' /\ UNCHANGED <<queue, sent>>
         /\ Serials(spool) # <<>> /\ Serials(spool') = <<>>
         /\ Serials(lp0') = Serials(lp0) \o Serials(spool)
<1>1. spool # <<>> /\ lp0' = lp0 \o spool /\ spool' = <<>> /\ UNCHANGED <<queue, sent>>
  BY DEF PrintJob
<1>2. spool \in Seq(Requests) /\ lp0 \in Seq(Requests)
  BY DEF QueueInv
<1>3. lp0' \in Seq(Requests) /\ spool' \in Seq(Requests)
  BY <1>1, <1>2
<1>4. QueueInv'
  BY <1>1, <1>3 DEF QueueInv, Growing
<1>5. Serials(lp0 \o spool) = Serials(lp0) \o Serials(spool)
  BY <1>2, SerialsConcat
<1>6. Serials(spool) # <<>>
  BY <1>1, <1>2, SerialsTail
<1> QED
  BY <1>1, <1>4, <1>5, <1>6, SerialsNone

\* A crash loses what was being printed, and the queue if it was being saved.
LEMMA SpoolCrashInv ==
  ASSUME QueueInv, NEW torn1, SpoolCrash(torn1)
  PROVE  /\ QueueInv' /\ UNCHANGED <<lp0, sent>> /\ Serials(spool') = <<>>
         /\ Serials(queue'.jobs) \in {Serials(queue.jobs), <<>>}
<1>1. spool' = <<>> /\ UNCHANGED <<lp0, sent>> /\ (queue' = queue \/ queue' = EmptyQueue)
  BY DEF SpoolCrash
<1>2. Serials(spool') = <<>> /\ spool' \in Seq(Requests)
  BY <1>1, SerialsNone
<1>3. CASE queue' = queue
  <2>1. QueueInv'
    BY <1>1, <1>2, <1>3 DEF QueueInv, Growing
  <2> QED
    BY <1>1, <1>2, <1>3, <2>1
<1>4. CASE queue' = EmptyQueue
  <2>1. /\ queue'.next = 1 /\ queue'.jobs = <<>>
        /\ queue' = [next |-> queue'.next, jobs |-> queue'.jobs]
    BY <1>4 DEF EmptyQueue
  <2>2. QueueInv'
    BY <1>1, <1>2, <2>1 DEF QueueInv, Growing
  <2> QED
    BY <1>1, <1>2, <2>1, <2>2, SerialsNone
<1> QED
  BY <1>1, <1>3, <1>4

\* The print queue's own copies of the operators are the operators.
LEMMA SameWithout == \A s, T : PQ!Without(s, T) = Without(s, T)
BY DEF PQ!Without, Without

\* Every step keeps the queue, and is one of the print queue's or none.
LEMMA QueueStep ==
  ASSUME QueueInv, UseInv, [Next]_vars
  PROVE  QueueInv' /\ [PQ!Next]_(PQ!queueVars)
<1>1. up = TRUE \/ up = FALSE
  BY DEF UseInv
<1>2. CASE UNCHANGED <<spoolVars, up>>
  <2>1. QueueInv'
    BY <1>2, QueueUnchanged
  <2>2. UNCHANGED PQ!queueVars
    BY <1>2 DEF spoolVars, PQ!queueVars, Serials
  <2> QED
    BY <2>1, <2>2
<1>3. CASE UNCHANGED vars \/ DiskNext \/ AccountNext \/ Edit
  <2>1. UNCHANGED <<spoolVars, up>>
    BY <1>3 DEF vars, DiskNext, AccountNext, Edit, Rest
  <2> QED
    BY <1>2, <2>1
<1>4. CASE SpoolNext
  <2>1. PICK u \in Users : Queue(u)
    BY <1>4 DEF SpoolNext
  <2>2. up = TRUE /\ up' = up
    BY <1>1, <1>4, <2>1 DEF SpoolNext, Queue, On, Rest
  <2>3. CASE \E f \in Printables : EnqueuePrint(u, f)
    <3>1. PICK f \in Printables : EnqueuePrint(u, f)
      BY <2>3
    <3>2. /\ QueueInv' /\ sent < MaxRequests /\ sent' = sent + 1 /\ UNCHANGED <<spool, lp0>>
          /\ Serials(queue'.jobs) = Append(Serials(queue.jobs), sent')
      BY <3>1, EnqueueInv
    <3>3. PQ!Request
      BY <2>2, <3>2 DEF PQ!Request, Serials
    <3> QED
      BY <3>2, <3>3 DEF PQ!Next
  <2>4. CASE \E id \in 1 .. MaxRequests : DeleteQueue(u, id)
    <3>1. PICK id \in 1 .. MaxRequests : DeleteQueue(u, id)
      BY <2>4
    <3>2. /\ QueueInv' /\ UNCHANGED <<spool, lp0, sent>>
          /\ \/ queue' = queue
             \/ \E n \in ToSet(Serials(queue.jobs)) :
                  Serials(queue'.jobs) = Without(Serials(queue.jobs), {n})
      BY <3>1, DeleteQueueInv
    <3>3. CASE queue' = queue
      <4>1. UNCHANGED <<spoolVars, up>>
        BY <2>2, <3>2, <3>3 DEF spoolVars
      <4> QED
        BY <1>2, <4>1
    <3>4. CASE \E n \in ToSet(Serials(queue.jobs)) :
                 Serials(queue'.jobs) = Without(Serials(queue.jobs), {n})
      <4>1. PQ!Withdraw
        <5>1. Serials(spool)' = Serials(spool) /\ Serials(lp0)' = Serials(lp0)
          BY <3>2 DEF Serials
        <5>2. Serials(queue.jobs)' = Serials(queue'.jobs)
          BY DEF Serials
        <5> QED
          BY <2>2, <3>2, <3>4, <5>1, <5>2, SameWithout DEF PQ!Withdraw, PQ!ToSet, ToSet
      <4> QED
        BY <3>2, <4>1 DEF PQ!Next
    <3> QED
      BY <3>2, <3>3, <3>4
  <2> QED
    BY <2>1, <2>3, <2>4 DEF Queue
<1>5. CASE Drain
  <2>1. up = TRUE /\ up' = up /\ DrainOne
    BY <1>1, <1>5 DEF Drain, Rest
  <2>2. /\ QueueInv' /\ UNCHANGED <<lp0, sent>>
        /\ Serials(spool) = <<>> /\ Serials(queue.jobs) # <<>>
        /\ Serials(spool') = <<Head(Serials(queue.jobs))>>
        /\ Serials(queue'.jobs) = Tail(Serials(queue.jobs))
    BY <2>1, DrainInv
  <2>3. PQ!Serve
    BY <2>1, <2>2 DEF PQ!Serve, Serials
  <2> QED
    BY <2>2, <2>3 DEF PQ!Next
<1>6. CASE ListNext
  <2>1. up = TRUE /\ up' = up /\ PrintJob
    BY <1>1, <1>6 DEF ListNext, Rest
  <2>2. /\ QueueInv' /\ UNCHANGED <<queue, sent>>
        /\ Serials(spool) # <<>> /\ Serials(spool') = <<>>
        /\ Serials(lp0') = Serials(lp0) \o Serials(spool)
    BY <2>1, PrintInv
  <2>3. PQ!List
    BY <2>1, <2>2 DEF PQ!List, Serials
  <2> QED
    BY <2>2, <2>3 DEF PQ!Next
<1>7. CASE Crash
  <2>1. up = TRUE /\ up' = FALSE /\ \E t : SpoolCrash(t)
    BY <1>1, <1>7 DEF Crash
  <2>2. /\ QueueInv' /\ UNCHANGED <<lp0, sent>> /\ Serials(spool') = <<>>
        /\ Serials(queue'.jobs) \in {Serials(queue.jobs), <<>>}
    BY <2>1, SpoolCrashInv
  <2>3. PQ!Crash
    BY <2>1, <2>2 DEF PQ!Crash, Serials
  <2> QED
    BY <2>2, <2>3 DEF PQ!Next
<1>8. CASE Restart
  <2>1. up = FALSE /\ up' = TRUE /\ UNCHANGED spoolVars
    BY <1>1, <1>8 DEF Restart
  <2>2. QueueInv'
    BY <2>1, QueueUnchanged
  <2>3. PQ!Restart
    BY <2>1 DEF PQ!Restart, Serials, spoolVars
  <2> QED
    BY <2>2, <2>3 DEF PQ!Next
<1> QED
  BY <1>3, <1>4, <1>5, <1>6, <1>7, <1>8 DEF Next

\* Every reachable state satisfies QueueInv: ids and serial numbers of the requests that wait
\* grow, and the next request gets numbers no request that waits has.
THEOREM QueueInvariant == Spec => [](UseInv /\ QueueInv)
<1>1. Init => UseInv /\ QueueInv
  BY QueueInit, StorageAssumption DEF Init, UseInv
<1>2. UseInv /\ QueueInv /\ [Next]_vars => (UseInv /\ QueueInv)'
  BY UseStep, QueueStep
<1> QED
  BY <1>1, <1>2, PTL DEF Spec

\* queue.json and the spooler implement the print queue, its fairness apart: requests are begun
\* in the order in which they were made, one at a time, none twice and none that QUE/DE has taken
\* out, whatever a crash does to the queue and to the request being printed.
THEOREM QueueRefines == Spec => PQ!Init /\ [][PQ!Next]_(PQ!queueVars)
<1>1. Init => PQ!Init
  <2> SUFFICES ASSUME Init PROVE PQ!Init
    OBVIOUS
  <2>1. queue.jobs = <<>> /\ spool = <<>> /\ lp0 = <<>> /\ sent = 0 /\ up = TRUE
    BY DEF Init, SpoolInit, EmptyQueue
  <2> QED
    BY <2>1, SerialsNone DEF PQ!Init
<1>2. UseInv /\ QueueInv /\ [Next]_vars => [PQ!Next]_(PQ!queueVars)
  BY QueueStep
<1> QED
  BY <1>1, <1>2, QueueInvariant, PTL DEF Spec
=============================================================================
