----------------------------- MODULE FileLocks -----------------------------
(***************************************************************************)
(* Files that several jobs have open.  A channel that OPEN has set up      *)
(* claims its file (fileJobs, and fileExcl for MODE 16) and GET, PUT and   *)
(* sequential INPUT interlock one record of it (locks); every way a        *)
(* channel goes away gives both back.  The tables belong to the Disk and   *)
(* are used under disk.mu, one critical section at a time; the channels   *)
(* belong to the program of one job.                                       *)
(*                                                                         *)
(* What is in the files, whether they exist and who may read them is left *)
(* out: an OPEN that fails before it reaches the channel is no step here. *)
(***************************************************************************)
EXTENDS Naturals, FiniteSets

CONSTANTS
  Jobs,      \* job numbers; one who logs in gets a number with no channels
  Careless,  \* jobs whose programs open a file on two channels at once, or
             \* OPEN on a channel that is in use
  Channels,
  Files,     \* paths, in lower case
  Records,
  MaxClaims, \* a bound: a device is opened over a channel only by a job with
             \* no more claims than this
  NoJob, NoRecord, NoFile

ASSUME FileAssumption ==
  /\ Careless \subseteq Jobs
  /\ NoJob \notin Jobs /\ NoRecord \notin Records /\ NoFile \notin Files
  /\ IsFiniteSet(Channels) /\ MaxClaims \in Nat

VARIABLES
  files,     \* m.Files: the channels of each job
  locks,     \* disk.locks, the job that holds each record
  fileExcl,  \* disk.fileExcl, the job with the exclusive claim
  fileJobs,  \* disk.fileJobs, how often each job has claimed the file
  pc,        \* what the program of each job is doing
  at         \* the channel and the record it is doing it to

tables == <<locks, fileExcl, fileJobs>>
vars == <<files, tables, pc, at>>

(* A chanFile; file is NoFile when the channel is not open. *)
Channel == [file : Files \cup {NoFile}, exclusive : BOOLEAN, wait : BOOLEAN,
            claimed : BOOLEAN, lockedRec : Records \cup {NoRecord}]

Closed == [file |-> NoFile, exclusive |-> FALSE, wait |-> FALSE,
           claimed |-> FALSE, lockedRec |-> NoRecord]

PC == {"ready", "claim", "lock", "close", "closeAll", "closeNext"}

TypeOK ==
  /\ files \in [Jobs -> [Channels -> Channel]]
  /\ locks \in [Files -> [Records -> Jobs \cup {NoJob}]]
  /\ fileExcl \in [Files -> Jobs \cup {NoJob}]
  /\ fileJobs \in [Files -> [Jobs -> Nat]]
  /\ pc \in [Jobs -> PC]
  /\ at \in [Jobs -> [chan : Channels, rec : Records]]
  /\ \A j \in Jobs : pc[j] \in {"claim", "lock", "close", "closeNext"}
                      => files[j][at[j].chan].file # NoFile

Init ==
  /\ files = [j \in Jobs |-> [c \in Channels |-> Closed]]
  /\ locks = [f \in Files |-> [r \in Records |-> NoJob]]
  /\ fileExcl = [f \in Files |-> NoJob]
  /\ fileJobs = [f \in Files |-> [j \in Jobs |-> 0]]
  /\ pc = [j \in Jobs |-> "ready"]
  /\ \E c \in Channels, r \in Records :
       at = [j \in Jobs |-> [chan |-> c, rec |-> r]]

-----------------------------------------------------------------------------
Goto(j, place) == pc' = [pc EXCEPT ![j] = place]
IsOpen(j, c) == files[j][c].file # NoFile

(* Mutant: the exclusive claim is left behind. *)
ReleaseCount(j, x) ==
  IF x.claimed
  THEN /\ fileJobs' = [fileJobs EXCEPT ![x.file][j] = IF @ = 0 THEN 0 ELSE @ - 1]
       /\ UNCHANGED fileExcl
  ELSE UNCHANGED <<fileJobs, fileExcl>>

(* disk.releaseFile, which closing a channel runs when the channel has     *)
(* claimed its file: one claim of the job less, and the exclusive claim of *)
(* the job is gone whichever channel made it.                              *)
ReleaseFile(j, x) ==
  IF x.claimed
  THEN /\ fileJobs' = [fileJobs EXCEPT ![x.file][j] = IF @ = 0 THEN 0 ELSE @ - 1]
       /\ fileExcl' = [fileExcl EXCEPT ![x.file] = IF @ = j THEN NoJob ELSE @]
  ELSE UNCHANGED <<fileJobs, fileExcl>>

(* Mutant: a record is unlocked whoever has it. *)
UnlockedAny(j, x) ==
  IF x.lockedRec = NoRecord THEN locks
  ELSE [locks EXCEPT ![x.file][x.lockedRec] = NoJob]

(* unlockChan: the record of the channel is no longer locked by the job. *)
Unlocked(j, x) ==
  IF x.lockedRec = NoRecord THEN locks
  ELSE [locks EXCEPT ![x.file][x.lockedRec] = IF @ = j THEN NoJob ELSE @]

-----------------------------------------------------------------------------
(* OPEN of a disk file.                                                    *)

(* openDiskFile: the host file is opened, a channel in use is closed (but  *)
(* not unlocked), and the new one is set.                                  *)
OpenDiskFile(j, c, f, exclusive, wait) ==
  /\ pc[j] = "ready"
  /\ j \in Careless \/ \A d \in Channels : ~IsOpen(j, d) \/ (d # c /\ files[j][d].file # f)
  /\ ReleaseFile(j, files[j][c])
  /\ files' = [files EXCEPT ![j][c] =
                 [Closed EXCEPT !.file = f, !.exclusive = exclusive, !.wait = wait]]
  /\ at' = [at EXCEPT ![j].chan = c]
  /\ Goto(j, "claim")
  /\ UNCHANGED locks

(* OPEN of a device replaces the channel and closes nothing. *)
OpenDevice(j, c) ==
  /\ pc[j] = "ready" /\ j \in Careless /\ IsOpen(j, c)
  /\ fileJobs[files[j][c].file][j] <= MaxClaims
  /\ files' = [files EXCEPT ![j][c] = Closed]
  /\ UNCHANGED <<tables, pc, at>>

(* Mutant: an exclusive OPEN does not look who has the file open. *)
InUseExclusively(j, x) == fileExcl[x.file] \notin {NoJob, j}

(* disk.claimFile refuses. *)
InUse(j, x) ==
  \/ fileExcl[x.file] \notin {NoJob, j}
  \/ x.exclusive /\ \E k \in Jobs \ {j} : fileJobs[x.file][k] > 0

(* applyOpenMode. *)
Claim(j) ==
  LET c == at[j].chan
      x == files[j][c] IN
    /\ pc[j] = "claim" /\ ~InUse(j, x)
    /\ fileJobs' = [fileJobs EXCEPT ![x.file][j] = @ + 1]
    /\ fileExcl' = [fileExcl EXCEPT ![x.file] = IF x.exclusive THEN j ELSE @]
    /\ files' = [files EXCEPT ![j][c].claimed = TRUE]
    /\ Goto(j, "ready")
    /\ UNCHANGED <<locks, at>>

(* Error 3, and the channel stays as it is. *)
ClaimRefused(j) ==
  LET x == files[j][at[j].chan] IN
    /\ pc[j] = "claim" /\ InUse(j, x) /\ ~x.wait
    /\ Goto(j, "ready")
    /\ UNCHANGED <<files, tables, at>>

-----------------------------------------------------------------------------
(* GET, PUT and INPUT #: lockRecord gives back the record of the channel,  *)
(* then asks for the one it wants.                                         *)
Access(j, c, r) ==
  /\ pc[j] = "ready" /\ IsOpen(j, c)
  /\ locks' = Unlocked(j, files[j][c])
  /\ files' = [files EXCEPT ![j][c].lockedRec = NoRecord]
  /\ at' = [at EXCEPT ![j] = [chan |-> c, rec |-> r]]
  /\ Goto(j, "lock")
  /\ UNCHANGED <<fileExcl, fileJobs>>

Holder(j) == locks[files[j][at[j].chan].file][at[j].rec]

(* Mutant: a record that is waited for is taken when the wait is over,     *)
(* whoever has it.                                                         *)
LockAfterWait(j) ==
  LET c == at[j].chan IN
    /\ pc[j] = "lock" /\ (Holder(j) \in {NoJob, j} \/ files[j][c].wait)
    /\ locks' = [locks EXCEPT ![files[j][c].file][at[j].rec] = j]
    /\ files' = [files EXCEPT ![j][c].lockedRec = at[j].rec]
    /\ Goto(j, "ready")
    /\ UNCHANGED <<fileExcl, fileJobs, at>>

LockRecord(j) ==
  LET c == at[j].chan IN
    /\ pc[j] = "lock" /\ Holder(j) \in {NoJob, j}
    /\ locks' = [locks EXCEPT ![files[j][c].file][at[j].rec] = j]
    /\ files' = [files EXCEPT ![j][c].lockedRec = at[j].rec]
    /\ Goto(j, "ready")
    /\ UNCHANGED <<fileExcl, fileJobs, at>>

(* Error 19. *)
Interlocked(j) ==
  /\ pc[j] = "lock" /\ Holder(j) \notin {NoJob, j}
  /\ ~files[j][at[j].chan].wait
  /\ Goto(j, "ready")
  /\ UNCHANGED <<files, tables, at>>

(* ^C while the file or the record is waited for (MODE 8). *)
Interrupt(j) ==
  /\ pc[j] \in {"claim", "lock"} /\ files[j][at[j].chan].wait
  /\ \/ pc[j] = "claim" /\ InUse(j, files[j][at[j].chan])
     \/ pc[j] = "lock" /\ Holder(j) \notin {NoJob, j}
  /\ Goto(j, "ready")
  /\ UNCHANGED <<files, tables, at>>

Unlock(j, c) ==
  /\ pc[j] = "ready" /\ IsOpen(j, c)
  /\ locks' = Unlocked(j, files[j][c])
  /\ files' = [files EXCEPT ![j][c].lockedRec = NoRecord]
  /\ UNCHANGED <<fileExcl, fileJobs, pc, at>>

-----------------------------------------------------------------------------
(* Mutant: CLOSE forgets the record. *)
CloseOnly(j, c) ==
  /\ \/ pc[j] = "ready" /\ Goto(j, "close")
     \/ pc[j] = "closeAll" /\ Goto(j, "closeNext")
  /\ IsOpen(j, c)
  /\ at' = [at EXCEPT ![j].chan = c]
  /\ UNCHANGED <<files, tables>>

(* Mutant: CLOSE of a channel that is not open. *)
CloseAny(j, c) ==
  /\ \/ pc[j] = "ready" /\ Goto(j, "close")
     \/ pc[j] = "closeAll" /\ IsOpen(j, c) /\ Goto(j, "closeNext")
  /\ locks' = Unlocked(j, files[j][c])
  /\ files' = [files EXCEPT ![j][c].lockedRec = NoRecord]
  /\ at' = [at EXCEPT ![j].chan = c]
  /\ UNCHANGED <<fileExcl, fileJobs>>

(* CLOSE, and CloseAllFiles at CLOSE without a channel, at the end of the  *)
(* program and of the session.                                             *)
CloseUnlock(j, c) ==
  /\ \/ pc[j] = "ready" /\ Goto(j, "close")
     \/ pc[j] = "closeAll" /\ Goto(j, "closeNext")
  /\ IsOpen(j, c)
  /\ locks' = Unlocked(j, files[j][c])
  /\ files' = [files EXCEPT ![j][c].lockedRec = NoRecord]
  /\ at' = [at EXCEPT ![j].chan = c]
  /\ UNCHANGED <<fileExcl, fileJobs>>

CloseChanFile(j) ==
  LET c == at[j].chan IN
    /\ pc[j] \in {"close", "closeNext"}
    /\ ReleaseFile(j, files[j][c])
    /\ files' = [files EXCEPT ![j][c] = Closed]
    /\ Goto(j, IF pc[j] = "close" THEN "ready" ELSE "closeAll")
    /\ UNCHANGED <<locks, at>>

CloseAllFiles(j) ==
  /\ pc[j] = "ready"
  /\ Goto(j, "closeAll")
  /\ UNCHANGED <<files, tables, at>>

AllClosed(j) ==
  /\ pc[j] = "closeAll" /\ \A c \in Channels : ~IsOpen(j, c)
  /\ Goto(j, "ready")
  /\ UNCHANGED <<files, tables, at>>

-----------------------------------------------------------------------------
Next == \E j \in Jobs :
  \/ \E c \in Channels :
       \/ \E f \in Files, exclusive, wait \in BOOLEAN :
            OpenDiskFile(j, c, f, exclusive, wait)
       \/ OpenDevice(j, c)
       \/ \E r \in Records : Access(j, c, r)
       \/ Unlock(j, c) \/ CloseUnlock(j, c)
  \/ Claim(j) \/ ClaimRefused(j)
  \/ LockRecord(j) \/ Interlocked(j) \/ Interrupt(j)
  \/ CloseChanFile(j) \/ CloseAllFiles(j) \/ AllClosed(j)

Spec == Init /\ [][Next]_vars

-----------------------------------------------------------------------------
(* Properties.                                                             *)

Careful == Jobs \ Careless
OnFile(j, f) == {c \in Channels : files[j][c].file = f}
Claims(j, f) == {c \in OnFile(j, f) : files[j][c].claimed}

(* README.md:535: GET interlocks the record until UNLOCK, the next GET or *)
(* PUT, or CLOSE.  Whatever other jobs do, those whose programs open a file *)
(* twice included, the record of a channel stays locked by its job.        *)
RecordHeld == \A j \in Careful, c \in Channels :
  LET x == files[j][c] IN
    x.lockedRec # NoRecord => locks[x.file][x.lockedRec] = j

(* The other half: a record is not locked for longer than that. *)
RecordFreed == \A j \in Careful, f \in Files, r \in Records :
  locks[f][r] = j => \E c \in OnFile(j, f) : files[j][c].lockedRec = r

(* README.md:535: MODE 16 is exclusive.  While the channel that claimed a  *)
(* file exclusively is open no other job has a claim on it.                *)
ExclusiveKept == \A j \in Careful, c \in Channels :
  LET x == files[j][c] IN
    x.exclusive /\ x.claimed =>
      \A k \in Jobs \ {j} : Claims(k, x.file) = {}

(* Nobody is refused a file for a channel that is no longer there. *)
ClaimsFreed == \A j \in Careful, f \in Files :
  /\ fileJobs[f][j] = Cardinality(Claims(j, f))
  /\ fileExcl[f] = j => \E c \in Claims(j, f) : files[j][c].exclusive

(* What the channels say a job has is given and taken as Reservations       *)
(* promises.  No job comes between another and its file or record: not by   *)
(* an OPEN, a GET or a wait that ends (lockRecord, claimFile), and not by   *)
(* what it closes (releaseFile, unlockChan).                                *)
AllChannels == Jobs \X Channels
ClaimsOf ==
  {[job |-> p[1], file |-> files[p[1]][p[2]].file, exclusive |-> files[p[1]][p[2]].exclusive] :
     p \in {q \in AllChannels : files[q[1]][q[2]].claimed}}
RecordsOf ==
  {[job |-> p[1], file |-> files[p[1]][p[2]].file, rec |-> files[p[1]][p[2]].lockedRec] :
     p \in {q \in AllChannels : files[q[1]][q[2]].lockedRec # NoRecord}}
Promised == INSTANCE Reservations WITH claims <- ClaimsOf, holds <- RecordsOf
ReservationSpec == Promised!Spec
=============================================================================
