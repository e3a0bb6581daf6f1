--------------------------------- MODULE Disk ---------------------------------
(* The virtual disk (filesystem.go, packs.go): folders of files, one for     *)
(* each account on each pack, and beside the files of a folder its index,    *)
(* .rsts-index.json, with their protection codes.  Every change of the index *)
(* reads it, truncates it and writes it again under d.mu; protOf reads it    *)
(* without.  Between the check, the change of the host's file and that of    *)
(* the index other jobs go on, which is why an operation is several actions. *)
(* Sizes, dates and the text of the files are left out: a file is there or   *)
(* it is not, and takes one block.                                           *)
EXTENDS Naturals, FiniteSets

CONSTANTS Jobs,         \* logged-in jobs
          Privileged,   \* those with privilege
          Account,      \* the account of a job
          Folders,      \* account directories
          Owner,        \* the account a folder is of
          PackOf,       \* the pack it is on
          Project,      \* the project of an account
          Library,      \* the accounts [1,2] and [1,9]
          Names,        \* file names
          Files,        \* <<folder, name>>, the files there may be
          Quota,        \* blocks an account may have in a folder, 0: any number
          Prots,        \* protection codes asked for, NoProt where none is
          Packs,        \* the packs; SystemPack is DB0:
          SystemPack,
          PackIds,      \* pack IDs; NoId is that of a pack never initialised
          NoId,
          PayrolPack,   \* DB1:, and the ID it gets at the first start
          PayrolId,
          Lost,
          NoJob

ASSUME DiskAssumption ==
  /\ Privileged \subseteq Jobs /\ SystemPack \in Packs /\ NoId \notin PackIds
  /\ NoJob \notin Jobs /\ Prots \subseteq 0..256 /\ Files \subseteq Folders \X Names
  /\ PackOf \in [Folders -> Packs] /\ Quota \in [Folders -> Nat]
  /\ PayrolPack \in Packs /\ PayrolId \in PackIds \ {"SYSDSK"}

VARIABLES exists,     \* the files the host has
          index,      \* what the index of a folder says of a name, 0 for nothing
          torn,       \* folders whose index is truncated and not written yet
          dmu,        \* the job that holds d.mu while it saves an index
          task,       \* the file operation each job is in
          packs,      \* d.packs
          packsFile   \* packs.json, or Lost when it cannot be parsed
packVars == <<packs, packsFile>>
diskVars == <<exists, index, torn, dmu, task, packs, packsFile>>

DefaultProt == 60
NoProt == 256
Bare == [n \in Names |-> 0]
Nowhere == CHOOSE f \in Files : TRUE
NoTask == [at |-> "idle", op |-> "none", p |-> Nowhere, q |-> Nowhere, prot |-> NoProt, idx |-> Bare]
(* packs.go:74 defaultPacks. *)
DefaultPack(k) == [id |-> IF k = SystemPack THEN "SYSDSK" ELSE NoId, init |-> k = SystemPack,
                   mounted |-> k = SystemPack, readOnly |-> FALSE, public |-> k = SystemPack]

(* Protection codes. *)

Bit(code, b) == (code \div b) % 2 = 1
CheckPrivProt(code, privileged) ==
  Bit(code, 128) => privileged /\ Bit(code, 64)
ProtAllows(code, owner, group, privileged, op) ==
  LET compiled == Bit(code, 64)
      read  == IF owner THEN 1 ELSE IF group THEN 4 ELSE 16
      write == IF owner THEN 2 ELSE IF group THEN 8 ELSE 32
  IN \/ privileged
     \/ op = "read" /\ (compiled => owner) /\ ~Bit(code, read)
     \/ op \in {"write", "delete"} /\ ~Bit(code, write)

(* A reader that comes while the index is truncated finds no entries. *)
LoadIndex(d) == IF d \in torn THEN Bare ELSE index[d]
ProtOf(p) == LET code == LoadIndex(p[1])[p[2]] IN IF code # 0 THEN code ELSE DefaultProt

Owns(j, p) == Owner[p[1]] = Account[j]
CheckAccess(j, p, op) ==
  ProtAllows(ProtOf(p), Owns(j, p), Project[Owner[p[1]]] = Project[Account[j]],
             j \in Privileged, op)
Locate(j, p, mustExist) ==
  /\ packs[PackOf[p[1]]].mounted
  /\ j \in Privileged \/ Owns(j, p) \/ Owner[p[1]] \in Library
  /\ mustExist => p \in exists

(* Blocks: one a file. *)
FolderBlocks(d) == Cardinality({f \in exists : f[1] = d})
EnforceQuota(p) ==
  Quota[p[1]] > 0 => FolderBlocks(p[1]) + (IF p \in exists THEN 0 ELSE 1) <= Quota[p[1]]

(* The two names of a RENAME, compared without their devices. *)
SameSpecFile(p, q) == Owner[p[1]] = Owner[q[1]] /\ p[2] = q[2]

(* The operations, up to the change of the host's file or of the index. *)

Begin(j, at, op, p, q, code) ==
  /\ task' = [task EXCEPT ![j] = [at |-> at, op |-> op, p |-> p, q |-> q, prot |-> code, idx |-> Bare]]
  /\ UNCHANGED <<exists, index, torn, dmu, packVars>>
Idle(j) == task[j].at = "idle"
Leave(j) == task' = [task EXCEPT ![j] = NoTask]

MayWrite(j, p, code) ==
  /\ CheckPrivProt(code, j \in Privileged)
  /\ ~packs[PackOf[p[1]]].readOnly
  /\ Locate(j, p, FALSE)
  /\ j \in Privileged \/ Owns(j, p)
  /\ p \in exists => CheckAccess(j, p, "write")
  /\ EnforceQuota(p)
(* Mutant: the default is not put in for a code that was not given. *)
WrittenAsGiven(code) == code
Written(code) == IF code \in {0, NoProt} THEN DefaultProt ELSE code
WriteText(j, p, code) ==
  /\ Idle(j) /\ MayWrite(j, p, Written(code))
  /\ Begin(j, "host", "write", p, p, Written(code))

MaySetProt(j, p, code) ==
  CheckPrivProt(code, j \in Privileged) /\ Locate(j, p, TRUE) /\ CheckAccess(j, p, "write")
SetProt(j, p, code) ==
  /\ Idle(j) /\ MaySetProt(j, p, code)
  /\ Begin(j, "meta", "touch", p, p, code)
(* FILESIZE and CLUSTERSIZE of a file that is open: an entry with no code is *)
(* given the default one.                                                    *)
SetFileAlloc(j, p) == Idle(j) /\ p \in exists /\ Begin(j, "meta", "alloc", p, p, NoProt)

Delete(j, p) ==
  /\ Idle(j) /\ Locate(j, p, TRUE) /\ CheckAccess(j, p, "delete")
  /\ Begin(j, "host", "delete", p, p, NoProt)

(* To a name that exists RENAME goes no further; a RENAME to itself with a   *)
(* code is SetProt.                                                          *)
Rename(j, p, q, code) ==
  /\ Idle(j)
  /\ \/ /\ code # NoProt /\ SameSpecFile(p, q)
        /\ MaySetProt(j, p, code) /\ Begin(j, "meta", "touch", p, p, code)
     \/ /\ code # NoProt => CheckPrivProt(code, j \in Privileged) /\ ~SameSpecFile(p, q)
        /\ Locate(j, p, TRUE) /\ CheckAccess(j, p, "write")
        /\ Locate(j, q, FALSE) /\ (j \in Privileged \/ Owns(j, q))
        /\ q \notin exists
        /\ Begin(j, "host", "rename", p, q, code)

(* copyFile without /AP: /NE refuses a name that exists. *)
Copy(j, p, q, code, noSupersede) ==
  /\ Idle(j)
  /\ ~(noSupersede /\ Locate(j, q, TRUE))
  /\ Locate(j, p, TRUE) /\ CheckAccess(j, p, "read")
  /\ Begin(j, "read", "copy", p, q, code)

(* The text has been read; its protection is looked up once more, and the    *)
(* copy is a WriteText.                                                      *)
ReadOp(j) ==
  LET t == task[j]
      code == Written(IF t.prot # NoProt THEN t.prot ELSE ProtOf(t.p))
  IN /\ t.at = "read"
     /\ \/ /\ t.p \in exists /\ MayWrite(j, t.q, code)
           /\ Begin(j, "host", "write", t.q, t.q, code)
        \/ /\ ~(t.p \in exists /\ MayWrite(j, t.q, code))
           /\ Leave(j) /\ UNCHANGED <<exists, index, torn, dmu, packVars>>

(* The change of the host's file: os.WriteFile, os.Remove, os.Rename. *)
HostStep(j) ==
  LET t == task[j] IN
  /\ t.at = "host"
  /\ \/ /\ t.op = "write" \/ t.p \in exists
        /\ exists' = CASE t.op = "write"  -> exists \cup {t.p}
                       [] t.op = "delete" -> exists \ {t.p}
                       [] t.op = "rename" -> (exists \ {t.p}) \cup {t.q}
        /\ task' = [task EXCEPT ![j].at = "meta"]
     \/ /\ t.op # "write" /\ t.p \notin exists
        /\ Leave(j) /\ UNCHANGED exists
  /\ UNCHANGED <<index, torn, dmu, packVars>>

(* What the operation makes of the index it has loaded, and where it saves   *)
(* it: RENAME saves the index of the old name's folder in the new name's.    *)
Recorded(t, idx) ==
  CASE t.op \in {"write", "touch"} -> IF t.prot = 0 THEN idx ELSE [idx EXCEPT ![t.p[2]] = t.prot]
    [] t.op = "alloc"  -> [idx EXCEPT ![t.p[2]] = IF @ = 0 THEN DefaultProt ELSE @]
    [] t.op = "delete" -> [idx EXCEPT ![t.p[2]] = 0]
    [] t.op = "rename" -> [idx EXCEPT ![t.p[2]] = 0,
                             ![t.q[2]] = IF t.prot # NoProt THEN t.prot
                                         ELSE IF idx[t.p[2]] # 0 THEN idx[t.p[2]] ELSE DefaultProt]
SavedIn(t) == IF t.op = "rename" THEN t.q[1] ELSE t.p[1]

(* Mutant: the index is loaded and saved without d.mu. *)
LockIndexFree(j) ==
  LET t == task[j] IN
  /\ t.at = "meta"
  /\ dmu' = j
  /\ task' = [task EXCEPT ![j].at = "save", ![j].idx = Recorded(t, LoadIndex(t.p[1]))]
  /\ torn' = torn \cup {SavedIn(t)}
  /\ UNCHANGED <<exists, index, packVars>>
(* d.mu.Lock, loadIndex, and saveIndex as far as the truncation ... *)
LockIndex(j) ==
  LET t == task[j] IN
  /\ t.at = "meta" /\ dmu = NoJob
  /\ dmu' = j
  /\ task' = [task EXCEPT ![j].at = "save", ![j].idx = Recorded(t, LoadIndex(t.p[1]))]
  /\ torn' = torn \cup {SavedIn(t)}
  /\ UNCHANGED <<exists, index, packVars>>
(* ... and the rest of the write, and Unlock. *)
SaveIndex(j) ==
  LET t == task[j] IN
  /\ t.at = "save"
  /\ index' = [index EXCEPT ![SavedIn(t)] = t.idx]
  /\ torn' = torn \ {SavedIn(t)}
  /\ dmu' = NoJob
  /\ Leave(j)
  /\ UNCHANGED <<exists, packVars>>

(* Packs.  All of it happens under d.mu, the save of packs.json included. *)

SavePacks(ps) == packs' = ps /\ packsFile' = ps
PackOp(j) == Idle(j) /\ dmu = NoJob /\ UNCHANGED <<exists, index, torn, dmu, task>>
Unused(id, k, ps) == \A o \in Packs \ {k} : ~(ps[o].init /\ ps[o].id = id)
Initialized(ps, k, id, public) ==
  [ps EXCEPT ![k] = [id |-> id, init |-> TRUE, mounted |-> FALSE, readOnly |-> FALSE, public |-> public]]
Initialize(j, k, id, public) ==
  /\ PackOp(j) /\ j \in Privileged
  /\ k # SystemPack /\ ~packs[k].mounted /\ Unused(id, k, packs)
  /\ SavePacks(Initialized(packs, k, id, public))
Mount(j, k, id, public, readOnly) ==
  /\ PackOp(j) /\ (public => j \in Privileged)
  /\ ~packs[k].mounted /\ packs[k].init /\ packs[k].id = id
  /\ SavePacks([packs EXCEPT ![k].mounted = TRUE, ![k].readOnly = readOnly, ![k].public = @ \/ public])
Dismount(j, k) ==
  /\ PackOp(j)
  /\ k # SystemPack /\ packs[k].mounted /\ (packs[k].public => j \in Privileged)
  /\ SavePacks([packs EXCEPT ![k].mounted = FALSE])

(* OpenDisk: packs.json, or the stock packs where it is missing or damaged,  *)
(* and the payroll pack, which is initialised once.                          *)
LoadPacks(file) ==
  LET ps == IF file = Lost THEN [k \in Packs |-> DefaultPack(k)] ELSE file
  IN IF ps[PayrolPack].init THEN ps ELSE Initialized(ps, PayrolPack, PayrolId, FALSE)
OpenDisk == SavePacks(LoadPacks(packsFile))

DiskInit == /\ exists = {} /\ index = [d \in Folders |-> Bare] /\ torn = {}
            /\ dmu = NoJob /\ task = [j \in Jobs |-> NoTask]
            /\ packs = LoadPacks(Lost) /\ packsFile = packs
(* The process ends: an index that is truncated stays so, that is empty. *)
DiskCrash(tornPacks) ==
  /\ tornPacks => dmu = NoJob
  /\ index' = [d \in Folders |-> LoadIndex(d)]
  /\ torn' = {} /\ dmu' = NoJob /\ task' = [j \in Jobs |-> NoTask]
  /\ packsFile' = IF tornPacks THEN Lost ELSE packsFile
  /\ UNCHANGED <<exists, packs>>
===============================================================================
