-------------------------------- MODULE Storage --------------------------------
(* What the system keeps in files, and a process that may end between any two  *)
(* steps or in the middle of a write, and is started again: the disk with its  *)
(* indexes and packs, the print queue and the accounts.  The three have a      *)
(* mutex each (d.mu, sys.mu, db.mu), and os.WriteFile truncates the file       *)
(* before it writes: a crash leaves whatever was being saved empty.            *)
EXTENDS Disk, Spooler, AccountDB

CONSTANTS Scenarios,   \* each behaviour uses the operations and files of one of these
          MaxCrashes   \* bound: crashes in a behaviour

ASSUME StorageAssumption == MaxCrashes \in Nat /\ \A s \in Scenarios : s.files \subseteq Files

VARIABLES up,        \* the system runs
          use,       \* the operations and files of this behaviour
          crashes    \* crashes so far
vars == <<diskVars, spoolVars, accountVars, up, use, crashes>>

Init == /\ DiskInit /\ SpoolInit
        /\ accounts = Defaults /\ accountsFile = Defaults
        /\ up = TRUE /\ use \in Scenarios /\ crashes = 0

(* DELETE/ACCOUNT: not of an account with jobs, and with it goes its folder  *)
(* on the system pack.  A folder whose index is just being written is left   *)
(* out.                                                                      *)
CmdDeleteAccount(j, a) ==
  /\ Idle(j) /\ j \in Privileged /\ a \notin {Account[i] : i \in Jobs}
  /\ DeleteAccount(a)
  /\ task' = [task EXCEPT ![j] = [NoTask EXCEPT !.at = "rmdir", !.op = a]]
  /\ UNCHANGED <<exists, index, torn, dmu, packVars>>
SystemFolder(a) == {d \in Folders : Owner[d] = a /\ PackOf[d] = SystemPack}
RemoveAccount(j) ==
  LET gone == SystemFolder(task[j].op) IN
  /\ task[j].at = "rmdir" /\ gone \cap torn = {}
  /\ exists' = {p \in exists : p[1] \notin gone}
  /\ index' = [d \in Folders |-> IF d \in gone THEN Bare ELSE index[d]]
  /\ Leave(j) /\ UNCHANGED <<torn, dmu, packVars>>

On(op) == up /\ op \in use.ops
Rest == UNCHANGED <<up, use, crashes>>

FileOp(j, p) ==
  \/ On("write")  /\ \E c \in Prots : WriteText(j, p, c)
  \/ On("prot")   /\ \E c \in Prots \ {NoProt} : SetProt(j, p, c)
  \/ On("alloc")  /\ SetFileAlloc(j, p)
  \/ On("delete") /\ Delete(j, p)
  \/ On("rename") /\ \E q \in use.files, c \in Prots : Rename(j, p, q, c)
  \/ On("copy")   /\ \E q \in use.files, c \in Prots, ne \in BOOLEAN : Copy(j, p, q, c, ne)
FileStep(j) == up /\ (ReadOp(j) \/ HostStep(j) \/ LockIndex(j) \/ SaveIndex(j))
DiskNext == /\ \E j \in Jobs :
                 \/ FileStep(j)
                 \/ \E p \in use.files : FileOp(j, p)
                 \/ \E k \in Packs, id \in PackIds, public \in BOOLEAN :
                      \/ On("init")  /\ Initialize(j, k, id, public)
                      \/ On("mount") /\ \E ro \in BOOLEAN : Mount(j, k, id, public, ro)
                 \/ \E k \in Packs : On("mount") /\ Dismount(j, k)
            /\ UNCHANGED <<spoolVars, accountVars>> /\ Rest

Queue(u) == \/ On("que") /\ \E f \in Printables : EnqueuePrint(u, f)
            \/ On("quede") /\ \E id \in 1..MaxRequests : DeleteQueue(u, id)
Drain == up /\ DrainOne /\ UNCHANGED <<diskVars, accountVars>> /\ Rest
ListNext == up /\ PrintJob /\ UNCHANGED <<diskVars, accountVars>> /\ Rest
SpoolNext == (\E u \in Users : Queue(u)) /\ UNCHANGED <<diskVars, accountVars>> /\ Rest

AccountNext ==
  \/ /\ On("account")
     /\ \E a \in Accounts, v \in Terms : CreateAccount(a, v) \/ SetTerms(a, v)
     /\ UNCHANGED <<diskVars, spoolVars>> /\ Rest
  \/ /\ \E j \in Jobs : \/ On("account") /\ \E a \in Accounts : CmdDeleteAccount(j, a)
                        \/ up /\ RemoveAccount(j) /\ UNCHANGED accountVars
     /\ UNCHANGED spoolVars /\ Rest

(* The process ends, by SHUTDOWN or by a fault.  torn: the files that were   *)
(* being saved, of those the operations of this behaviour save.              *)
Saved(op) == CASE op \in {"que", "quede"} -> "queue"
               [] op \in {"init", "mount"} -> "packs"
               [] op = "account" -> "accounts"
               [] OTHER -> "index"
Crash ==
  /\ up /\ crashes < MaxCrashes
  /\ \E t \in SUBSET ({Saved(op) : op \in use.ops} \ {"index"}) :
       /\ DiskCrash("packs" \in t) /\ SpoolCrash("queue" \in t)
       /\ accountsFile' = IF "accounts" \in t THEN Damaged ELSE accountsFile
  /\ up' = FALSE /\ crashes' = crashes + 1
  /\ UNCHANGED <<accounts, use>>
(* accounts.json is edited while the system is down: an account is dropped,  *)
(* or nothing is left that can be read (README.md:230).                      *)
Edit ==
  /\ ~up /\ "account" \in use.ops /\ accountsFile # Damaged
  /\ \/ accountsFile' = Damaged
     \/ \E a \in Present(accountsFile) : accountsFile' = [accountsFile EXCEPT ![a] = NoAccount]
  /\ UNCHANGED <<diskVars, spoolVars, accounts>> /\ Rest
Restart ==
  /\ ~up /\ up' = TRUE
  /\ Load /\ OpenDisk
  /\ UNCHANGED <<exists, index, torn, dmu, task, spoolVars, use, crashes>>

Next == DiskNext \/ SpoolNext \/ Drain \/ ListNext \/ AccountNext \/ Crash \/ Edit \/ Restart

(* The spooler is a goroutine with a ticker and has nothing to wait for but  *)
(* sys.mu (queue.go:160-173).                                                *)
Spec == Init /\ [][Next]_vars /\ WF_vars(Drain) /\ WF_vars(ListNext)

(* Properties. *)

PackRecord == [id : PackIds \cup {NoId, "SYSDSK"}, init : BOOLEAN, mounted : BOOLEAN,
               readOnly : BOOLEAN, public : BOOLEAN]
TypeOK ==
  /\ exists \subseteq Files
  /\ index \in [Folders -> [Names -> 0..255]]
  /\ torn \subseteq Folders /\ dmu \in Jobs \cup {NoJob}
  /\ \A j \in Jobs : task[j].at = "save" <=> dmu = j
  /\ torn = IF dmu = NoJob THEN {} ELSE {SavedIn(task[dmu])}
  /\ packs \in [Packs -> PackRecord]
  /\ up \in BOOLEAN /\ crashes \in 0..MaxCrashes

(* A save of an index changes the entries of the files its operation names   *)
(* and no others: what another job has recorded in the same folder is never  *)
(* lost (touchMeta, SetFileAlloc, Delete, Rename).  A RENAME from one folder *)
(* into another is the exception: it saves the index of the old folder in    *)
(* the new one.                                                              *)
Names1(t) == {t.p, t.q}
OthersKept ==
  [][\A d \in Folders, n \in Names :
       index'[d][n] # index[d][n] /\ up' =>
         \E j \in Jobs :
           \/ task[j].at = "save" /\ (<<d, n>> \in Names1(task[j]) \/ task[j].p[1] # task[j].q[1])
           \/ task[j].at = "rmdir" /\ d \in SystemFolder(task[j].op)]_vars

(* While the system is up, its accounts and packs are those of the files it  *)
(* will be started from; [1,2], [1,9] and DB0: are there after any crash and *)
(* any edit, and a pack ID names one pack (README.md:230).                   *)
BootsAsLeft ==
  up => /\ accounts = accountsFile /\ packs = packsFile
        /\ Structural \subseteq Present(accounts)
        /\ packs[SystemPack].init /\ packs[SystemPack].mounted
        /\ \A k \in Packs : packs[k].init => Unused(packs[k].id, k, packs)

(* queue.json and the spooler are the print queue QUE speaks of.             *)
Serials(s) == [k \in DOMAIN s |-> s[k].n]
PQ == INSTANCE PrintQueue WITH
        waiting <- Serials(queue.jobs), listing <- Serials(spool), listed <- Serials(lp0),
        made <- sent, running <- up
QueueSpec == PQ!Spec
================================================================================
