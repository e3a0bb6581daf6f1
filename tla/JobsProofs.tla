----------------------------- MODULE JobsProofs -----------------------------
(***************************************************************************)
(* Proofs about the job table, for every number of lines, sessions, jobs   *)
(* and accounts.  Type correctness needs no condition; the ownership of    *)
(* job numbers is proved for systems where nobody uses HANGUP, and run     *)
(* hangup_job shows why that is needed.                                    *)
(***************************************************************************)
EXTENDS Jobs, TLAPS

-----------------------------------------------------------------------------
(* The records the actions write are well typed.                           *)

SomeAccount == Accounts \cup {NoAccount}

LEMMA FreeSlotTyped == FreeSlot \in Slot /\ NewJob \in Slot
<1>1. FreeSlot \in Slot
  BY JobsAssumption DEF Slot, FreeSlot
<1>2. QED
  BY <1>1 DEF Slot, NewJob

LEMMA BatchSlotTyped ==
  ASSUME NEW x \in SomeAccount
  PROVE  [NewJob EXCEPT !.detached = TRUE, !.who = x, !.owner = x] \in Slot
BY FreeSlotTyped DEF Slot, SomeAccount

LEMMA PKSlotTyped ==
  ASSUME NEW x \in SomeAccount, NEW u \in Units \cup {NoUnit},
         NEW n \in JobNum
  PROVE  [NewJob EXCEPT !.unit = u, !.owner = x, !.ownerJob = n] \in Slot
<1>1. n \in 0..MaxUsers
  BY JobsAssumption DEF JobNum
<1>2. QED
  BY <1>1, FreeSlotTyped DEF Slot, SomeAccount

LEMMA SlotWhoTyped ==
  ASSUME NEW r \in Slot, NEW x \in SomeAccount
  PROVE  /\ [r EXCEPT !.who = x] \in Slot
         /\ [r EXCEPT !.owner = x, !.who = x] \in Slot
BY DEF Slot, SomeAccount

LEMMA SlotDetachedTyped ==
  ASSUME NEW r \in Slot, NEW v \in BOOLEAN
  PROVE  r.used \in BOOLEAN /\ [r EXCEPT !.detached = v] \in Slot
BY DEF Slot

LEMMA NewShellTyped ==
  ASSUME NEW n \in JobNum, NEW x \in SomeAccount, NEW b \in BOOLEAN
  PROVE  /\ NewShell(n) \in Shell
         /\ [NewShell(n) EXCEPT !.acct = x, !.console = b] \in Shell
<1>1. NewShell(n) \in Shell
  BY JobsAssumption DEF Shell, NewShell, JobNum
<1>2. QED
  BY <1>1 DEF Shell, SomeAccount

LEMMA ShellFieldsTyped ==
  ASSUME NEW r \in Shell
  PROVE  /\ r.job \in JobNum /\ r.kb \in JobNum /\ r.acct \in SomeAccount
         /\ r.attachTo \in 0..MaxUsers
         /\ r.running \in BOOLEAN /\ r.parked \in BOOLEAN
         /\ r.console \in BOOLEAN
BY DEF Shell, SomeAccount

LEMMA ShellStopTyped ==
  ASSUME NEW r \in Shell
  PROVE  /\ [r EXCEPT !.running = FALSE] \in Shell
         /\ [r EXCEPT !.parked = TRUE, !.running = FALSE] \in Shell
BY DEF Shell

LEMMA ShellAcctTyped ==
  ASSUME NEW r \in Shell, NEW x \in SomeAccount
  PROVE  [r EXCEPT !.acct = x] \in Shell
BY DEF Shell, SomeAccount

LEMMA ShellAttachTyped ==
  ASSUME NEW r \in Shell, NEW n \in JobNum, NEW b \in BOOLEAN
  PROVE  /\ [r EXCEPT !.kb = n, !.running = TRUE, !.parked = FALSE,
                      !.console = b] \in Shell
         /\ [r EXCEPT !.attachTo = n, !.running = FALSE] \in Shell
<1>1. n \in 0..MaxUsers
  BY JobsAssumption DEF JobNum
<1>2. QED
  BY <1>1 DEF Shell

LEMMA LocalsTyped ==
  ASSUME NEW r \in Locals
  PROVE  /\ r.job \in 0..MaxUsers /\ r.kb \in JobNum
         /\ r.acct \in SomeAccount /\ r.unit \in Units \cup {NoUnit}
BY DEF Locals, SomeAccount

LEMMA LocalsSetTyped ==
  ASSUME NEW r \in Locals
  PROVE  /\ \A n \in 0..MaxUsers : [r EXCEPT !.job = n] \in Locals
         /\ \A x \in SomeAccount : [r EXCEPT !.acct = x] \in Locals
         /\ \A u \in Units \cup {NoUnit} : [r EXCEPT !.unit = u] \in Locals
BY DEF Locals, SomeAccount

LEMMA LocalsLeftTyped ==
  ASSUME NEW r \in Locals, NEW n \in 0..MaxUsers, NEW k \in JobNum,
         NEW x \in SomeAccount
  PROVE  [r EXCEPT !.job = n, !.kb = k, !.acct = x] \in Locals
BY DEF Locals, SomeAccount

LEMMA NoLocalsTyped ==
  ASSUME NEW u \in Units \cup {NoUnit}
  PROVE  NoLocals \in Locals /\ [NoLocals EXCEPT !.unit = u] \in Locals
<1>1. NoLocals \in Locals
  BY JobsAssumption DEF Locals, NoLocals, JobNum
<1>2. QED
  BY <1>1 DEF Locals

Busy == Serving \cup {"ending", "bind"}

(* What a thread that runs a session works on. *)
LEMMA SessionTyped ==
  ASSUME TypeOK, NEW t \in Threads, pc[t] \in Busy
  PROVE  /\ cur[t] \in Sessions
         /\ sess[cur[t]] \in Shell
         /\ sess[cur[t]].job \in JobNum
         /\ jobs[sess[cur[t]].job] \in Slot
         /\ Account(t) \in SomeAccount
BY ShellFieldsTyped DEF TypeOK, Account, Busy

LEMMA SyncJobTyped ==
  ASSUME TypeOK, NEW n \in JobNum, NEW x \in SomeAccount
  PROVE  SyncJob(n, x) \in [JobNum -> Slot]
BY SlotWhoTyped DEF TypeOK, SyncJob

LEMMA StartShellTyped ==
  ASSUME TypeOK, NEW t \in Threads, pc[t] \in Window, NEW w \in Threads,
         NEW s \in Sessions, NEW x \in SomeAccount, StartShell(t, w, s, x)
  PROVE  /\ jobs' \in [JobNum -> Slot]
         /\ shells' \in [JobNum -> Sessions \cup {NoSession}]
         /\ sess' \in [Sessions -> Shell]
         /\ cur' = [cur EXCEPT ![w] = s]
         /\ num' = [num EXCEPT ![t] = 0]
         /\ cur' \in [Threads -> Sessions \cup {NoSession}]
         /\ num' \in [Threads -> 0..MaxUsers]
<1>1. num[t] \in JobNum
  BY JobsAssumption DEF TypeOK, JobNum
<1>2. jobs' \in [JobNum -> Slot]
  BY <1>1, SyncJobTyped DEF StartShell
<1>3. sess' \in [Sessions -> Shell]
  BY <1>1, NewShellTyped DEF StartShell, TypeOK
<1>4. QED
  BY <1>1, <1>2, <1>3, JobsAssumption DEF StartShell, TypeOK

LEMMA AttachAsTyped ==
  ASSUME TypeOK, NEW t \in Threads, NEW n \in JobNum, NEW r \in Slot,
         NEW place, AttachAs(t, n, r, place)
  PROVE  /\ jobs' \in [JobNum -> Slot]
         /\ num' \in [Threads -> 0..MaxUsers]
         /\ num' = [num EXCEPT ![t] = n] /\ n # 0
         /\ pc' = [pc EXCEPT ![t] = place]
BY JobsAssumption DEF TypeOK, AttachAs, JobNum, Goto

LEMMA TakeParkedTyped ==
  ASSUME TypeOK, NEW n \in JobNum, NEW s \in Sessions \cup {NoSession},
         TakeParked(n, s)
  PROVE  /\ jobs' \in [JobNum -> Slot]
         /\ parked' \in [JobNum -> Sessions \cup {NoSession}]
         /\ shells' \in [JobNum -> Sessions \cup {NoSession}]
<1>1. jobs[n] \in Slot
  BY DEF TypeOK
<1>2. [jobs[n] EXCEPT !.detached = FALSE] \in Slot
  BY <1>1, SlotDetachedTyped
<1>3. jobs' \in [JobNum -> Slot]
  BY <1>2 DEF TypeOK, TakeParked
<1>4. QED
  BY <1>3 DEF TypeOK, TakeParked

-----------------------------------------------------------------------------
(* Type correctness, action by action.                                     *)

LEMMA LineTyped ==
  ASSUME TypeOK, NEW l \in Lines, Connect(l) \/ LineStep(l)
  PROVE  TypeOK'
<1> l \in Threads
  BY DEF Threads
<1> USE DEF PC, Window, Serving, Goto, sys, table
<1>1. CASE Connect(l) \/ Reattach(l)
  <2>1. PICK n \in JobNum : AttachAs(l, n, NewJob, "attached")
    BY <1>1 DEF Connect, Reattach
  <2>2. QED
    BY <1>1, <2>1, FreeSlotTyped, AttachAsTyped DEF TypeOK, Connect, Reattach
<1>2. CASE StartSession(l)
  <2>1. PICK s \in Sessions : StartShell(l, l, s, NoAccount)
    BY <1>2 DEF StartSession
  <2>2. pc[l] \in Window /\ NoAccount \in SomeAccount
    BY <1>2 DEF StartSession, SomeAccount
  <2>3. QED
    <3>1. /\ jobs' \in [JobNum -> Slot]
          /\ shells' \in [JobNum -> Sessions \cup {NoSession}]
          /\ sess' \in [Sessions -> Shell]
          /\ cur' = [cur EXCEPT ![l] = s]
          /\ num' = [num EXCEPT ![l] = 0]
          /\ cur' \in [Threads -> Sessions \cup {NoSession}]
          /\ num' \in [Threads -> 0..MaxUsers]
      BY <2>1, <2>2, StartShellTyped
    <3>2. s # NoSession
      BY JobsAssumption
    <3>3. QED
      BY <1>2, <3>1, <3>2 DEF TypeOK, StartSession
<1>3. CASE Drop(l)
  BY <1>3, NoLocalsTyped DEF TypeOK, Drop
<1>4. CASE AttachUnpark(l)
  <2>1. PICK s \in Sessions \cup {NoSession} :
          /\ TakeParked(req[l].job, s) /\ cur' = [cur EXCEPT ![l] = s]
          /\ Goto(l, IF s = NoSession THEN "left" ELSE "bind")
    BY <1>4 DEF AttachUnpark
  <2>2. req[l].job \in JobNum
    BY <1>4, LocalsTyped, JobsAssumption DEF AttachUnpark, TypeOK, JobNum
  <2>3. QED
    BY <1>4, <2>1, <2>2, TakeParkedTyped DEF TypeOK, AttachUnpark
<1>5. CASE AttachBind(l)
  <2>1. req[l].kb \in JobNum
    BY LocalsTyped DEF TypeOK
  <2>2. pc[l] \in Busy
    BY <1>5 DEF AttachBind, Busy
  <2>3. sess[cur[l]] \in Shell /\ sess[cur[l]].console \in BOOLEAN
    BY <2>2, SessionTyped, ShellFieldsTyped
  <2>4. sess' \in [Sessions -> Shell]
    BY <1>5, <2>1, <2>3, ShellAttachTyped DEF TypeOK, AttachBind
  <2>5. QED
    BY <1>5, <2>4, NoLocalsTyped DEF TypeOK, AttachBind
<1>6. QED
  BY <1>1, <1>2, <1>3, <1>4, <1>5 DEF LineStep

LEMMA WorkerDoneTyped ==
  ASSUME TypeOK, NEW w \in Workers, WorkerDone(w)
  PROVE  TypeOK'
BY NoLocalsTyped
DEF TypeOK, WorkerDone, Threads, PC, Window, Serving, Goto, table

LEMMA CommandTyped ==
  ASSUME TypeOK, NEW t \in Threads, Command(t)
  PROVE  TypeOK'
<1> USE DEF PC, Window, Serving, Goto, sys, table
<1>1. ASSUME NEW a \in Accounts, LoginCheck(t, a) \/ DeleteCheck(t, a)
      PROVE  TypeOK'
  <2>1. [req[t] EXCEPT !.acct = a] \in Locals
    BY LocalsSetTyped DEF TypeOK, SomeAccount
  <2>2. QED
    BY <1>1, <2>1
    DEF TypeOK, LoginCheck, DeleteCheck, LoggedIn, AtPrompt
<1>2. ASSUME NEW n \in JobNum, AttachCommand(t, n)
      PROVE  TypeOK'
  <2>1. pc[t] \in Busy
    BY <1>2 DEF AttachCommand, LoggedIn, AtPrompt, Busy
  <2>2. sess' \in [Sessions -> Shell]
    BY <1>2, <2>1, SessionTyped, ShellAttachTyped DEF TypeOK, AttachCommand
  <2>3. QED
    BY <1>2, <2>2 DEF TypeOK, AttachCommand
<1>3. ASSUME NEW n \in JobNum, HangupFind(t, n)
      PROVE  TypeOK'
  <2>1. n \in 0..MaxUsers /\ n # 0
    BY JobsAssumption DEF JobNum
  <2>2. [req[t] EXCEPT !.job = n] \in Locals
    BY <2>1, LocalsSetTyped DEF TypeOK
  <2>3. [req[t] EXCEPT !.job = n].job = n
    BY LocalsTyped DEF TypeOK, Locals
  <2>4. QED
    BY <1>3, <2>1, <2>2, <2>3 DEF TypeOK, HangupFind, LoggedIn, AtPrompt
<1>4. ASSUME NEW u \in Units, PKAttach(t, u)
      PROVE  TypeOK'
  <2>1. PICK n \in JobNum : AttachAs(t, n, NewJob, "pkAttached")
    BY <1>4 DEF PKAttach
  <2>2. [req[t] EXCEPT !.unit = u] \in Locals
    BY LocalsSetTyped DEF TypeOK
  <2>3. /\ jobs' \in [JobNum -> Slot]
        /\ num' \in [Threads -> 0..MaxUsers]
        /\ num' = [num EXCEPT ![t] = n] /\ n # 0
        /\ pc' = [pc EXCEPT ![t] = "pkAttached"]
    BY <2>1, FreeSlotTyped, AttachAsTyped
  <2>4. req' \in [Threads -> Locals] /\ pc[t] = "run"
    BY <1>4, <2>2 DEF TypeOK, PKAttach, LoggedIn, AtPrompt
  <2>5. QED
    BY <1>4, <2>3, <2>4 DEF TypeOK, PKAttach
<1>5. CASE SubmitAttach(t)
  <2>1. pc[t] \in Busy /\ pc[t] = "run"
    BY <1>5 DEF SubmitAttach, LoggedIn, AtPrompt, Busy
  <2>2. PICK n \in JobNum : AttachAs(t, n,
          [NewJob EXCEPT !.detached = TRUE, !.who = Account(t),
                         !.owner = Account(t)], "submitted")
    BY <1>5 DEF SubmitAttach
  <2>3. [NewJob EXCEPT !.detached = TRUE, !.who = Account(t),
                       !.owner = Account(t)] \in Slot
    BY <2>1, SessionTyped, BatchSlotTyped
  <2>4. /\ jobs' \in [JobNum -> Slot]
        /\ num' \in [Threads -> 0..MaxUsers]
        /\ num' = [num EXCEPT ![t] = n] /\ n # 0
        /\ pc' = [pc EXCEPT ![t] = "submitted"]
    BY <2>2, <2>3, AttachAsTyped
  <2>5. QED
    BY <1>5, <2>1, <2>4 DEF TypeOK, SubmitAttach
<1>6. CASE Quit(t) \/ DetachCommand(t)
  <2>1. pc[t] \in Busy
    BY <1>6 DEF Quit, DetachCommand, LoggedIn, AtPrompt, Busy
  <2>2. sess' \in [Sessions -> Shell]
    <3>1. /\ cur[t] \in Sessions
          /\ [sess[cur[t]] EXCEPT !.running = FALSE] \in Shell
          /\ [sess[cur[t]] EXCEPT !.parked = TRUE, !.running = FALSE] \in Shell
      BY <2>1, SessionTyped, ShellStopTyped
    <3>2. QED
      BY <1>6, <3>1 DEF TypeOK, Quit, DetachCommand
  <2>3. QED
    BY <1>6, <2>2 DEF TypeOK, Quit, DetachCommand
<1>7. CASE Bye(t)
  <2>1. pc[t] \in Busy /\ NoAccount \in SomeAccount
    BY <1>7 DEF Bye, LoggedIn, AtPrompt, Busy, SomeAccount
  <2>2. jobs' \in [JobNum -> Slot]
    BY <1>7, <2>1, SessionTyped, SyncJobTyped DEF Bye
  <2>3. sess' \in [Sessions -> Shell]
    BY <1>7, <2>1, SessionTyped, ShellAcctTyped DEF TypeOK, Bye
  <2>4. QED
    BY <1>7, <2>2, <2>3 DEF TypeOK, Bye
<1>8. CASE SetLogins(t)
  BY <1>8 DEF TypeOK, SetLogins
<1>9. QED
  BY <1>1, <1>2, <1>3, <1>4, <1>5, <1>6, <1>7, <1>8 DEF Command

(* What TypeOK says of one thread's locals. *)
Coherent(v) ==
  /\ pc[v] \in Window => num[v] # 0
  /\ cur[v] # NoSession <=> pc[v] \in Serving \cup {"ending", "bind"}
  /\ pc[v] \in {"hangup", "hangupLook", "hangupDetach"} => req[v].job # 0

LEMMA CoherentThreads == TypeOK => \A v \in Threads : Coherent(v)
BY DEF TypeOK, Coherent

LEMMA SpawnTyped ==
  ASSUME TypeOK, NEW t \in Threads, NEW w \in Workers,
         SubmitStart(t, w) \/ PKStart(t, w)
  PROVE  TypeOK'
<1> USE DEF PC, Window, Serving, Goto, sys, table
<1> w \in Threads
  BY DEF Threads
<1>1. pc[t] \in Window \cap Busy /\ NoAccount \in SomeAccount
  BY DEF SubmitStart, PKStart, Busy, SomeAccount
<1>2. PICK s \in Sessions, x \in SomeAccount : StartShell(t, w, s, x)
  <2>1. sess[cur[t]].acct \in SomeAccount
    BY <1>1, SessionTyped DEF Account
  <2>2. QED
    BY <1>1, <2>1 DEF SubmitStart, PKStart
<1>3. /\ jobs' \in [JobNum -> Slot]
      /\ shells' \in [JobNum -> Sessions \cup {NoSession}]
      /\ sess' \in [Sessions -> Shell]
      /\ cur' = [cur EXCEPT ![w] = s]
      /\ num' = [num EXCEPT ![t] = 0]
      /\ cur' \in [Threads -> Sessions \cup {NoSession}]
      /\ num' \in [Threads -> 0..MaxUsers]
  BY <1>1, <1>2, StartShellTyped
<1>4. s # NoSession
  BY JobsAssumption
<1>5. req' \in [Threads -> Locals]
  <2>1. CASE SubmitStart(t, w)
    BY <2>1 DEF SubmitStart, TypeOK
  <2>2. CASE PKStart(t, w)
    <3>1. /\ [req[t] EXCEPT !.unit = NoUnit] \in Locals
          /\ [NoLocals EXCEPT !.unit = req[t].unit] \in Locals
      BY LocalsTyped, LocalsSetTyped, NoLocalsTyped DEF TypeOK
    <3>2. QED
      BY <2>2, <3>1 DEF PKStart, TypeOK
  <2>3. QED
    BY <2>1, <2>2
<1>6. pc' = [pc EXCEPT ![t] = "run", ![w] = "run"]
  BY DEF SubmitStart, PKStart
<1>7. UNCHANGED <<parked, pkInUse, accounts, noLogins>>
  BY DEF SubmitStart, PKStart
<1>8. pc' \in [Threads -> PC]
  BY <1>6 DEF TypeOK
<1>9. ASSUME NEW v \in Threads
      PROVE  Coherent(v)'
  <2>1. CASE v = w
    BY <1>3, <1>4, <1>6, <2>1 DEF TypeOK, Coherent
  <2>2. CASE v = t /\ v # w
    BY <1>1, <1>3, <1>6, <2>2, CoherentThreads DEF TypeOK, Coherent, Busy
  <2>3. CASE v # t /\ v # w
    <3>1. /\ pc'[v] = pc[v] /\ cur'[v] = cur[v] /\ num'[v] = num[v]
          /\ req'[v] = req[v]
      BY <1>3, <1>6, <2>3 DEF TypeOK, SubmitStart, PKStart
    <3>2. QED
      BY <3>1, CoherentThreads DEF Coherent
  <2>4. QED
    BY <2>1, <2>2, <2>3
<1>10. QED
  <2>1. accounts' \subseteq Accounts /\ noLogins' \in BOOLEAN
        /\ pkInUse' \subseteq Units
        /\ parked' \in [JobNum -> Sessions \cup {NoSession}]
    BY <1>7 DEF TypeOK
  <2>2. \A v \in Threads : Coherent(v)'
    BY <1>9
  <2>3. QED
    BY <1>3, <1>5, <1>8, <2>1, <2>2 DEF TypeOK, Coherent

LEMMA ContinueTyped ==
  ASSUME TypeOK, NEW t \in Threads, Continue(t)
  PROVE  TypeOK'
<1> USE DEF PC, Window, Serving, Goto, sys, table
<1>1. CASE LoginCommit(t)
  <2>1. /\ cur[t] \in Sessions /\ sess[cur[t]] \in Shell
        /\ sess[cur[t]].job \in JobNum /\ jobs[sess[cur[t]].job] \in Slot
        /\ req[t] \in Locals /\ req[t].acct \in SomeAccount
        /\ NoAccount \in SomeAccount
    BY <1>1, SessionTyped, LocalsTyped
    DEF LoginCommit, Busy, TypeOK, SomeAccount
  <2>2. /\ [sess[cur[t]] EXCEPT !.acct = req[t].acct] \in Shell
        /\ [jobs[sess[cur[t]].job] EXCEPT !.owner = req[t].acct,
                                          !.who = req[t].acct] \in Slot
        /\ [req[t] EXCEPT !.acct = NoAccount] \in Locals
    BY <2>1, ShellAcctTyped, SlotWhoTyped, LocalsSetTyped
  <2>3. jobs' \in [JobNum -> Slot]
    BY <1>1, <2>1, <2>2 DEF LoginCommit, TypeOK
  <2>4. sess' \in [Sessions -> Shell] /\ req' \in [Threads -> Locals]
    BY <1>1, <2>1, <2>2 DEF LoginCommit, TypeOK
  <2>5. QED
    BY <1>1, <2>3, <2>4 DEF TypeOK, LoginCommit
<1>2. CASE DeleteCommit(t)
  <2>1. [req[t] EXCEPT !.acct = NoAccount] \in Locals
    BY LocalsSetTyped DEF TypeOK, SomeAccount
  <2>2. QED
    BY <1>2, <2>1 DEF TypeOK, DeleteCommit
<1>3. CASE HangupUnpark(t)
  <2>1. PICK s \in Sessions \cup {NoSession} :
          /\ TakeParked(req[t].job, s)
          /\ Goto(t, IF s = NoSession THEN "hangupLook" ELSE "hangupDetach")
    BY <1>3 DEF HangupUnpark
  <2>2. req[t].job \in JobNum
    BY <1>3, LocalsTyped, JobsAssumption DEF HangupUnpark, TypeOK, JobNum
  <2>3. QED
    BY <1>3, <2>1, <2>2, TakeParkedTyped DEF TypeOK, HangupUnpark
<1>4. CASE HangupLook(t)
  <2>1. req[t].job \in JobNum
    BY <1>4, LocalsTyped, JobsAssumption DEF HangupLook, TypeOK, JobNum
  <2>2. [req[t] EXCEPT !.job = 0] \in Locals
    <3>1. req[t] \in Locals /\ 0 \in 0..MaxUsers
      BY JobsAssumption DEF TypeOK
    <3>2. QED
      BY <3>1, LocalsSetTyped
  <2>3. sess' \in [Sessions -> Shell]
    <3>1. ASSUME shells[req[t].job] # NoSession
          PROVE /\ shells[req[t].job] \in Sessions
                /\ [sess[shells[req[t].job]] EXCEPT !.running = FALSE]
                     \in Shell
      BY <2>1, <3>1, ShellStopTyped DEF TypeOK
    <3>2. QED
      BY <1>4, <3>1 DEF HangupLook, TypeOK
  <2>4. QED
    BY <1>4, <2>1, <2>2, <2>3 DEF TypeOK, HangupLook
<1>5. CASE HangupDetach(t)
  <2>1. [req[t] EXCEPT !.job = 0] \in Locals
    <3>1. req[t] \in Locals /\ 0 \in 0..MaxUsers
      BY JobsAssumption DEF TypeOK
    <3>2. QED
      BY <3>1, LocalsSetTyped
  <2>2. jobs' \in [JobNum -> Slot]
    BY <1>5, FreeSlotTyped DEF TypeOK, HangupDetach
  <2>3. QED
    BY <1>5, <2>1, <2>2 DEF TypeOK, HangupDetach
<1>6. CASE ReplaceJob(t)
  <2>1. /\ sess[cur[t]].job \in JobNum /\ Account(t) \in SomeAccount
        /\ req[t].unit \in Units \cup {NoUnit}
    BY <1>6, SessionTyped, LocalsTyped DEF ReplaceJob, Busy, TypeOK
  <2>2. [NewJob EXCEPT !.unit = req[t].unit, !.owner = Account(t),
                       !.ownerJob = sess[cur[t]].job] \in Slot
    BY <2>1, PKSlotTyped
  <2>3. jobs' \in [JobNum -> Slot]
    BY <1>6, <2>2 DEF TypeOK, ReplaceJob
  <2>4. QED
    BY <1>6, <2>3 DEF TypeOK, ReplaceJob
<1>7. CASE ParkShell(t)
  <2>1. /\ cur[t] \in Sessions /\ sess[cur[t]].job \in JobNum
        /\ jobs[sess[cur[t]].job] \in Slot
    BY <1>7, SessionTyped DEF ParkShell, Busy
  <2>2. [jobs[sess[cur[t]].job] EXCEPT
           !.detached = jobs[sess[cur[t]].job].used] \in Slot
    BY <2>1, SlotDetachedTyped
  <2>3. jobs' \in [JobNum -> Slot]
    BY <1>7, <2>1, <2>2 DEF ParkShell, TypeOK
  <2>4. QED
    BY <1>7, <2>1, <2>3 DEF TypeOK, ParkShell
<1>8. CASE UnregisterShell(t)
  BY <1>8 DEF TypeOK, UnregisterShell
<1>9. CASE Detach(t)
  <2>1. cur[t] \in Sessions /\ sess[cur[t]] \in Shell
    BY <1>9, SessionTyped DEF Detach, Busy
  <2>2. [req[t] EXCEPT !.job = sess[cur[t]].attachTo, !.kb = sess[cur[t]].kb,
                       !.acct = sess[cur[t]].acct] \in Locals
    BY <2>1, ShellFieldsTyped, LocalsLeftTyped DEF TypeOK
  <2>3. 1 \in JobNum /\ NoAccount \in SomeAccount
    BY JobsAssumption DEF JobNum, SomeAccount
  <2>4. NewShell(1) \in Shell
    BY <2>3, NewShellTyped
  <2>5. jobs' \in [JobNum -> Slot] /\ sess' \in [Sessions -> Shell]
    BY <1>9, <2>1, <2>4, FreeSlotTyped DEF Detach, TypeOK
  <2>6. req' \in [Threads -> Locals]
    BY <1>9, <2>2 DEF Detach, TypeOK
  <2>7. QED
    BY <1>9, <2>5, <2>6 DEF TypeOK, Detach
<1>10. QED
  BY <1>1, <1>2, <1>3, <1>4, <1>5, <1>6, <1>7, <1>8, <1>9, SpawnTyped
  DEF Continue

LEMMA InitTyped == Init => TypeOK
<1> SUFFICES ASSUME Init PROVE TypeOK
  OBVIOUS
<1>1. 1 \in JobNum /\ NoAccount \in SomeAccount /\ NoUnit \in Units \cup {NoUnit}
  BY JobsAssumption DEF JobNum, SomeAccount
<1>2. NewShell(1) \in Shell /\ NoLocals \in Locals /\ FreeSlot \in Slot
  BY <1>1, NewShellTyped, NoLocalsTyped, FreeSlotTyped
<1>3. /\ jobs \in [JobNum -> Slot] /\ sess \in [Sessions -> Shell]
      /\ req \in [Threads -> Locals]
  BY <1>2 DEF Init
<1>4. /\ pc \in [Threads -> PC]
      /\ shells \in [JobNum -> Sessions \cup {NoSession}]
      /\ parked \in [JobNum -> Sessions \cup {NoSession}]
      /\ cur \in [Threads -> Sessions \cup {NoSession}]
  BY DEF Init, PC
<1>5. num \in [Threads -> 0..MaxUsers]
  BY JobsAssumption DEF Init
<1>6. \A v \in Threads : Coherent(v)
  BY DEF Init, Coherent, Window, Serving
<1>7. QED
  BY <1>3, <1>4, <1>5, <1>6 DEF Init, TypeOK, Coherent

LEMMA StepTyped == TypeOK /\ [Next]_vars => TypeOK'
<1> SUFFICES ASSUME TypeOK, [Next]_vars PROVE TypeOK'
  OBVIOUS
<1>1. CASE UNCHANGED vars
  BY <1>1 DEF TypeOK, vars
<1>2. QED
  BY <1>1, LineTyped, WorkerDoneTyped, CommandTyped, ContinueTyped DEF Next

(* Every variable of the job table, the registries and the goroutines      *)
(* keeps its type, and a thread past Attach really has a job number.       *)
THEOREM TypeCorrect == Spec => []TypeOK
<1>1. QED
  BY InitTyped, StepTyped, PTL DEF Spec

-----------------------------------------------------------------------------
(* Who runs a session.  It goes from the thread that made it to the parked *)
(* registry, to a line and out again, and each of these steps takes it     *)
(* from where it was.                                                      *)

LEMMA ServedGiven ==
  ASSUME TypeOK, ServedOnce, NEW t \in Threads, NEW w \in Threads,
         NEW s \in Sessions, NEW x, StartShell(t, w, s, x), UNCHANGED parked
  PROVE  ServedOnce'
<1>1. /\ \A v \in Threads : cur[v] # s
      /\ \A n \in JobNum : parked[n] # s
  BY DEF StartShell, Fresh
<1>2. \A v \in Threads : cur'[v] = IF v = w THEN s ELSE cur[v]
  BY DEF StartShell, TypeOK
<1>3. QED
  BY <1>1, <1>2 DEF ServedOnce

LEMMA ServedParked ==
  ASSUME TypeOK, ServedOnce, NEW t \in Threads, ParkShell(t)
  PROVE  ServedOnce'
<1>1. PICK s, n : s = cur[t] /\ n = sess[cur[t]].job
  OBVIOUS
<1>2. s \in Sessions /\ n \in JobNum
  BY <1>1, ShellFieldsTyped DEF ParkShell, TypeOK, Serving
<1>3. /\ \A v \in Threads : cur'[v] = IF v = t THEN NoSession ELSE cur[v]
      /\ \A m \in JobNum : parked'[m] = IF m = n THEN s ELSE parked[m]
  BY <1>1, <1>2 DEF ParkShell, TypeOK
<1>4. /\ \A v \in Threads : cur[v] = s => v = t
      /\ \A m \in JobNum : parked[m] # s
  BY <1>1, <1>2 DEF ServedOnce
<1>5. NoSession \notin Sessions
  BY JobsAssumption
<1>6. ASSUME NEW r \in Sessions
      PROVE  /\ \A u, v \in Threads : cur'[u] = r /\ cur'[v] = r => u = v
             /\ \A k, m \in JobNum : parked'[k] = r /\ parked'[m] = r => k = m
             /\ \A v \in Threads, m \in JobNum : ~(cur'[v] = r /\ parked'[m] = r)
  BY <1>1, <1>3, <1>4, <1>5 DEF ServedOnce
<1>7. QED
  BY <1>6 DEF ServedOnce

LEMMA ServedLeft ==
  ASSUME TypeOK, ServedOnce, NEW t \in Threads, Detach(t)
  PROVE  ServedOnce'
<1>1. \A v \in Threads : cur'[v] = IF v = t THEN NoSession ELSE cur[v]
  BY DEF Detach, TypeOK
<1>2. QED
  BY <1>1, JobsAssumption DEF Detach, ServedOnce

(* unpark, for ATTACH and for HANGUP: the session leaves the registry. *)
LEMMA ServedUnparked ==
  ASSUME TypeOK, ServedOnce, NEW n \in JobNum, NEW s, TakeParked(n, s),
         cur' = cur \/ \E t \in Threads : cur' = [cur EXCEPT ![t] = s]
  PROVE  ServedOnce'
<1>1. /\ s = parked[n]
      /\ \A m \in JobNum : parked'[m] = IF m = n THEN NoSession ELSE parked[m]
  BY DEF TakeParked, TypeOK
<1>2. NoSession \notin Sessions
  BY JobsAssumption
<1>3. CASE cur' = cur
  BY <1>1, <1>2, <1>3 DEF ServedOnce
<1>4. ASSUME NEW t \in Threads, cur' = [cur EXCEPT ![t] = s]
      PROVE  ServedOnce'
  <2>1. \A v \in Threads : cur'[v] = IF v = t THEN s ELSE cur[v]
    BY <1>4 DEF TypeOK
  <2>2. ASSUME NEW r \in Sessions
        PROVE  /\ \A u, v \in Threads : cur'[u] = r /\ cur'[v] = r => u = v
               /\ \A k, m \in JobNum : parked'[k] = r /\ parked'[m] = r => k = m
               /\ \A v \in Threads, m \in JobNum : ~(cur'[v] = r /\ parked'[m] = r)
    <3>1. CASE r = s
      BY <1>1, <1>2, <2>1, <3>1 DEF ServedOnce
    <3>2. CASE r # s
      BY <1>1, <1>2, <2>1, <3>2 DEF ServedOnce
    <3>3. QED
      BY <3>1, <3>2
  <2>3. QED
    BY <2>2 DEF ServedOnce
<1>5. QED
  BY <1>3, <1>4

LEMMA ServedSame ==
  ASSUME ServedOnce, UNCHANGED <<parked, cur>>
  PROVE  ServedOnce'
BY DEF ServedOnce

LEMMA ServedStep == TypeOK /\ ServedOnce /\ [Next]_vars => ServedOnce'
<1> SUFFICES ASSUME TypeOK, ServedOnce, [Next]_vars PROVE ServedOnce'
  OBVIOUS
<1>1. ASSUME NEW t \in Threads, Command(t)
      PROVE  ServedOnce'
  <2>1. CASE Quit(t) \/ Bye(t) \/ DetachCommand(t) \/ SubmitAttach(t) \/ SetLogins(t)
    BY <2>1, ServedSame DEF Quit, Bye, DetachCommand, SubmitAttach, SetLogins, table
  <2>2. CASE \E a \in Accounts : LoginCheck(t, a) \/ DeleteCheck(t, a)
    BY <2>2, ServedSame DEF LoginCheck, DeleteCheck, table
  <2>3. CASE \E n \in JobNum : AttachCommand(t, n) \/ HangupFind(t, n)
    BY <2>3, ServedSame DEF AttachCommand, HangupFind, table
  <2>4. CASE \E u \in Units : PKAttach(t, u)
    BY <2>4, ServedSame DEF PKAttach
  <2>5. QED
    BY <1>1, <2>1, <2>2, <2>3, <2>4 DEF Command
<1>2. ASSUME NEW t \in Threads, Continue(t)
      PROVE  ServedOnce'
  <2>1. CASE LoginCommit(t) \/ DeleteCommit(t) \/ HangupLook(t)
               \/ HangupDetach(t) \/ ReplaceJob(t) \/ UnregisterShell(t)
    BY <2>1, ServedSame
    DEF LoginCommit, DeleteCommit, HangupLook, HangupDetach, ReplaceJob,
        UnregisterShell, table
  <2>2. CASE HangupUnpark(t)
    <3>1. req[t].job \in JobNum
      BY <2>2, LocalsTyped, JobsAssumption DEF HangupUnpark, TypeOK, JobNum
    <3>2. PICK s \in Sessions \cup {NoSession} : TakeParked(req[t].job, s)
      BY <2>2 DEF HangupUnpark
    <3>3. cur' = cur
      BY <2>2 DEF HangupUnpark
    <3>4. QED
      BY <3>1, <3>2, <3>3, ServedUnparked
  <2>3. ASSUME NEW w \in Workers, SubmitStart(t, w) \/ PKStart(t, w)
        PROVE  ServedOnce'
    <3>1. PICK s \in Sessions, x \in {sess[cur[t]].acct, NoAccount} :
            StartShell(t, w, s, x)
      BY <2>3 DEF SubmitStart, PKStart
    <3>2. w \in Threads /\ UNCHANGED parked
      BY <2>3 DEF SubmitStart, PKStart, Threads
    <3>3. QED
      BY <3>1, <3>2, ServedGiven
  <2>4. QED
    BY <1>2, <2>1, <2>2, <2>3, ServedParked, ServedLeft DEF Continue
<1>3. ASSUME NEW l \in Lines, Connect(l) \/ LineStep(l)
      PROVE  ServedOnce'
  <2>1. l \in Threads
    BY DEF Threads
  <2>2. CASE Connect(l) \/ Reattach(l) \/ Drop(l) \/ AttachBind(l)
    BY <2>2, ServedSame DEF Connect, Reattach, Drop, AttachBind, table
  <2>3. CASE StartSession(l)
    <3>1. PICK s \in Sessions : StartShell(l, l, s, NoAccount)
      BY <2>3 DEF StartSession
    <3>2. QED
      BY <2>1, <2>3, <3>1, ServedGiven DEF StartSession
  <2>4. CASE AttachUnpark(l)
    <3>1. req[l].job \in JobNum
      BY <2>1, <2>4, LocalsTyped, JobsAssumption DEF AttachUnpark, TypeOK, JobNum
    <3>2. PICK s \in Sessions \cup {NoSession} :
            TakeParked(req[l].job, s) /\ cur' = [cur EXCEPT ![l] = s]
      BY <2>4 DEF AttachUnpark
    <3>3. QED
      BY <2>1, <3>1, <3>2, ServedUnparked
  <2>5. QED
    BY <1>3, <2>2, <2>3, <2>4 DEF LineStep
<1>4. ASSUME NEW w \in Workers, WorkerDone(w)
      PROVE  ServedOnce'
  BY <1>4, ServedSame DEF WorkerDone, table
<1>5. CASE UNCHANGED vars
  BY <1>5, ServedSame DEF vars
<1>6. QED
  BY <1>1, <1>2, <1>3, <1>4, <1>5 DEF Next

(* No session is run by two goroutines, or by one while it is parked,      *)
(* however ATTACH, HANGUP and DETACH race for it: whatever HANGUP does to   *)
(* the numbers, unpark gives a session to one of them.                     *)
THEOREM SessionsServedOnce == Spec => []ServedOnce
<1>1. Init => TypeOK /\ ServedOnce
  BY InitTyped, JobsAssumption DEF Init, ServedOnce
<1>2. TypeOK /\ ServedOnce /\ [Next]_vars => (TypeOK /\ ServedOnce)'
  BY StepTyped, ServedStep
<1>3. QED
  BY <1>1, <1>2, PTL DEF Spec

-----------------------------------------------------------------------------
(* Ownership of job numbers.  Most steps touch nothing the invariant reads. *)

LEMMA QuietStep ==
  ASSUME JobInv, TypeOK',
         UNCHANGED <<shells, parked, cur, num>>,
         \A v \in Threads :
           /\ pc'[v] \in Window <=> pc[v] \in Window
           /\ pc'[v] = "ending" <=> pc[v] = "ending"
           /\ pc'[v] \notin {"hangup", "hangupLook", "hangupDetach"},
         \A s \in Sessions : sess'[s].job = sess[s].job,
         \A n \in JobNum :
           /\ jobs'[n].used = jobs[n].used
           /\ parked[n] # NoSession => jobs'[n].detached = jobs[n].detached
  PROVE  JobInv'
<1>1. \A v \in Threads, n \in JobNum : Holds(v, n)' <=> Holds(v, n)
  BY DEF Holds
<1>2. \A s \in Sessions : Live(s)' <=> Live(s)
  BY DEF Live
<1>3. \A s \in Sessions, n \in JobNum : Owns(s, n)' <=> Owns(s, n)
  BY <1>2 DEF Owns
<1>4. SoleHolder'
  BY <1>1, <1>3 DEF JobInv, SoleHolder
<1>5. SlotsHeld'
  BY <1>1, <1>3 DEF JobInv, SlotsHeld
<1>6. ServedOnce'
  BY DEF JobInv, ServedOnce
<1>7. Registered'
  <2>1. ASSUME NEW v \in Threads, cur'[v] # NoSession, pc'[v] # "ending"
        PROVE  shells'[sess'[cur'[v]].job] = cur'[v]
    <3>1. cur[v] \in Sessions
      BY <2>1 DEF JobInv, TypeOK
    <3>2. QED
      BY <2>1, <3>1 DEF JobInv, Registered
  <2>2. ASSUME NEW n \in JobNum, shells'[n] # NoSession
        PROVE  Owns(shells[n], n)'
    <3>1. shells[n] \in Sessions /\ Owns(shells[n], n)
      BY <2>2 DEF JobInv, TypeOK, Registered
    <3>2. QED
      BY <1>3, <3>1
  <2>3. ASSUME NEW n \in JobNum, parked'[n] # NoSession
        PROVE  Owns(parked[n], n)' /\ shells'[n] = NoSession
               /\ jobs'[n].detached
    <3>1. parked[n] \in Sessions /\ Owns(parked[n], n)
          /\ shells[n] = NoSession /\ jobs[n].detached
      BY <2>3 DEF JobInv, TypeOK, Registered
    <3>2. QED
      BY <1>3, <2>3, <3>1
  <2>4. QED
    BY <2>1, <2>2, <2>3 DEF Registered
<1>8. ASSUME NEW v \in Threads, pc'[v] = "ending"
      PROVE  shells'[sess'[cur'[v]].job] = NoSession
  <2>1. cur[v] \in Sessions /\ pc[v] = "ending"
    BY <1>8 DEF JobInv, TypeOK
  <2>2. QED
    BY <2>1 DEF JobInv
<1>9. QED
  BY <1>4, <1>5, <1>6, <1>7, <1>8 DEF JobInv

(* What the invariant says of a running session and of a parked one. *)
LEMMA RunningOwns ==
  ASSUME JobInv, NEW t \in Threads, cur[t] # NoSession
  PROVE  /\ cur[t] \in Sessions /\ sess[cur[t]].job \in JobNum
         /\ Owns(cur[t], sess[cur[t]].job)
         /\ \A n \in JobNum : parked[n] # cur[t]
         /\ parked[sess[cur[t]].job] = NoSession
<1>1. cur[t] \in Sessions
  BY DEF JobInv, TypeOK
<1>2. sess[cur[t]].job \in JobNum
  BY <1>1, ShellFieldsTyped DEF JobInv, TypeOK
<1>3. Owns(cur[t], sess[cur[t]].job)
  BY <1>1 DEF Owns, Live
<1>4. \A n \in JobNum : parked[n] # cur[t]
  BY <1>1 DEF JobInv, ServedOnce
<1>5. parked[sess[cur[t]].job] = NoSession
  <2>1. SUFFICES ASSUME parked[sess[cur[t]].job] # NoSession PROVE FALSE
    OBVIOUS
  <2>2. /\ parked[sess[cur[t]].job] \in Sessions
        /\ Owns(parked[sess[cur[t]].job], sess[cur[t]].job)
    BY <1>2, <2>1 DEF JobInv, TypeOK, Registered
  <2>3. parked[sess[cur[t]].job] = cur[t]
    BY <1>1, <1>2, <1>3, <2>2 DEF JobInv, SoleHolder
  <2>4. QED
    BY <1>2, <1>4, <2>3
<1>6. QED
  BY <1>1, <1>2, <1>3, <1>4, <1>5

LEMMA ParkedOwns ==
  ASSUME JobInv, NEW n \in JobNum, parked[n] # NoSession
  PROVE  /\ parked[n] \in Sessions /\ Owns(parked[n], n)
         /\ sess[parked[n]].job = n
         /\ shells[n] = NoSession /\ jobs[n].detached
         /\ \A t \in Threads : cur[t] # parked[n]
         /\ \A t \in Threads : cur[t] # NoSession => sess[cur[t]].job # n
<1>1. /\ parked[n] \in Sessions /\ Owns(parked[n], n)
      /\ shells[n] = NoSession /\ jobs[n].detached
  BY DEF JobInv, TypeOK, Registered
<1>2. \A t \in Threads : cur[t] # parked[n]
  BY <1>1 DEF JobInv, ServedOnce
<1>3. ASSUME NEW t \in Threads, cur[t] # NoSession
      PROVE  sess[cur[t]].job # n
  BY <1>3, RunningOwns
<1>4. QED
  BY <1>1, <1>2, <1>3 DEF Owns

(* A free number is held by nobody, and a held one has one holder. *)
LEMMA FreeUnheld ==
  ASSUME JobInv, NEW n \in JobNum, ~jobs[n].used
  PROVE  /\ \A t \in Threads : ~Holds(t, n)
         /\ \A s \in Sessions : ~Owns(s, n)
         /\ parked[n] = NoSession /\ shells[n] = NoSession
<1>1. /\ \A t \in Threads : ~Holds(t, n)
      /\ \A s \in Sessions : ~Owns(s, n)
  BY DEF JobInv, SlotsHeld
<1>2. parked[n] = NoSession /\ shells[n] = NoSession
  BY <1>1 DEF JobInv, Registered, TypeOK
<1>3. QED
  BY <1>1, <1>2

LEMMA WindowHolds ==
  ASSUME JobInv, NEW t \in Threads, pc[t] \in Window
  PROVE  /\ num[t] \in JobNum /\ Holds(t, num[t])
         /\ \A s \in Sessions : ~Owns(s, num[t])
         /\ parked[num[t]] = NoSession /\ shells[num[t]] = NoSession
         /\ jobs[num[t]].used
<1>1. num[t] \in JobNum
  BY JobsAssumption DEF JobInv, TypeOK, JobNum
<1>2. Holds(t, num[t])
  BY DEF Holds
<1>3. \A s \in Sessions : ~Owns(s, num[t])
  BY <1>1, <1>2 DEF JobInv, SoleHolder
<1>4. parked[num[t]] = NoSession /\ shells[num[t]] = NoSession
  BY <1>1, <1>3 DEF JobInv, Registered, TypeOK
<1>5. jobs[num[t]].used
  BY <1>1, <1>2 DEF JobInv, SlotsHeld
<1>6. QED
  BY <1>1, <1>2, <1>3, <1>4, <1>5

(* Attach: the lowest free number goes to the thread that asked. *)
LEMMA AttachStep ==
  ASSUME JobInv, TypeOK', NEW t \in Threads, NEW n \in JobNum, NEW r \in Slot,
         NEW place \in Window, r.used, pc[t] \notin Window, pc[t] # "ending",
         AttachAs(t, n, r, place), UNCHANGED <<shells, parked, cur, sess>>
  PROVE  JobInv'
<1>1. /\ \A v \in Threads : ~Holds(v, n)
      /\ \A s \in Sessions : ~Owns(s, n)
      /\ parked[n] = NoSession /\ shells[n] = NoSession
  BY FreeUnheld DEF AttachAs, LowestFree
<1>2. /\ jobs' = [jobs EXCEPT ![n] = r]
      /\ num' = [num EXCEPT ![t] = n]
      /\ pc' = [pc EXCEPT ![t] = place]
  BY DEF AttachAs, Goto
<1>3. \A v \in Threads, m \in JobNum :
        Holds(v, m)' <=> Holds(v, m) \/ (v = t /\ m = n)
  BY <1>2 DEF Holds, JobInv, TypeOK
<1>4. \A s \in Sessions : Live(s)' <=> Live(s)
  BY DEF Live
<1>5. \A s \in Sessions, m \in JobNum : Owns(s, m)' <=> Owns(s, m)
  BY <1>4 DEF Owns
<1>6. \A m \in JobNum :
        /\ jobs'[m].used <=> jobs[m].used \/ m = n
        /\ m # n => jobs'[m] = jobs[m]
  BY <1>2 DEF JobInv, TypeOK
<1>7. SoleHolder'
  BY <1>1, <1>3, <1>5 DEF JobInv, SoleHolder
<1>8. SlotsHeld'
  BY <1>3, <1>5, <1>6 DEF JobInv, SlotsHeld
<1>9. ServedOnce'
  BY DEF JobInv, ServedOnce
<1>10. \A v \in Threads :
         /\ pc'[v] = "ending" <=> pc[v] = "ending"
         /\ pc'[v] \notin {"hangup", "hangupLook", "hangupDetach"}
  BY <1>2 DEF JobInv, TypeOK, Window
<1>11. Registered'
  <2>1. \A v \in Threads : cur'[v] # NoSession /\ pc'[v] # "ending" =>
          shells'[sess'[cur'[v]].job] = cur'[v]
    BY <1>10 DEF JobInv, Registered
  <2>2. \A m \in JobNum : shells'[m] # NoSession => Owns(shells[m], m)'
    BY <1>5 DEF JobInv, Registered, TypeOK
  <2>3. ASSUME NEW m \in JobNum, parked'[m] # NoSession
        PROVE  /\ Owns(parked[m], m)' /\ shells'[m] = NoSession
               /\ jobs'[m].detached
    BY <1>1, <1>5, <1>6, <2>3, ParkedOwns
  <2>4. QED
    BY <2>1, <2>2, <2>3 DEF Registered
<1>12. QED
  BY <1>7, <1>8, <1>9, <1>10, <1>11 DEF JobInv

(* newSession: the number passes from the thread to a session nobody has. *)
LEMMA StartStep ==
  ASSUME JobInv, TypeOK', NEW t \in Threads, pc[t] \in Window,
         NEW w \in Threads, w = t \/ pc[w] = "idle", cur[w] = NoSession,
         NEW s \in Sessions, NEW x \in SomeAccount, StartShell(t, w, s, x),
         pc' = [pc EXCEPT ![t] = "run", ![w] = "run"], UNCHANGED parked
  PROVE  JobInv'
<1> DEFINE n == num[t]
<1>1. /\ n \in JobNum /\ Holds(t, n) /\ jobs[n].used
      /\ \A r \in Sessions : ~Owns(r, n)
      /\ parked[n] = NoSession /\ shells[n] = NoSession
  BY WindowHolds
<1>2. /\ cur' = [cur EXCEPT ![w] = s]
      /\ num' = [num EXCEPT ![t] = 0]
      /\ shells' = [shells EXCEPT ![n] = s]
      /\ sess' = [sess EXCEPT ![s] =
           [NewShell(n) EXCEPT !.acct = x, !.console = (w = Console)]]
      /\ jobs' = SyncJob(n, x)
      /\ ~Live(s)
  BY DEF StartShell, Fresh, Live
<1>3. s # NoSession
  BY JobsAssumption
<1>4. \A v \in Threads : /\ cur'[v] = IF v = w THEN s ELSE cur[v]
                         /\ cur[v] # s
  BY <1>2 DEF JobInv, TypeOK, Live
<1>5. \A r \in Sessions : Live(r)' <=> Live(r) \/ r = s
  BY <1>4, JobsAssumption DEF Live
<1>6. /\ \A r \in Sessions : r # s => sess'[r] = sess[r]
      /\ sess'[s].job = n
  BY <1>1, <1>2 DEF JobInv, TypeOK, NewShell
<1>7. \A r \in Sessions, m \in JobNum :
        Owns(r, m)' <=> Owns(r, m) \/ (r = s /\ m = n)
  BY <1>2, <1>5, <1>6 DEF Owns
<1>8. \A v \in Threads :
        /\ pc'[v] \in Window <=> pc[v] \in Window /\ v # t
        /\ pc'[v] = "ending" <=> pc[v] = "ending"
        /\ pc'[v] \notin {"hangup", "hangupLook", "hangupDetach"}
  BY DEF JobInv, TypeOK, Window
<1>9. \A v \in Threads, m \in JobNum : Holds(v, m)' <=> Holds(v, m) /\ v # t
  BY <1>2, <1>8 DEF Holds, JobInv, TypeOK
<1>10. \A m \in JobNum : /\ jobs'[m].used = jobs[m].used
                         /\ jobs'[m].detached = jobs[m].detached
  BY <1>1, <1>2 DEF JobInv, TypeOK, SyncJob, Slot
<1>11. \A m \in JobNum : m # n => ~Holds(t, m)
  BY DEF Holds
<1>12. SoleHolder'
  BY <1>1, <1>7, <1>9 DEF JobInv, SoleHolder
<1>13. SlotsHeld'
  BY <1>1, <1>7, <1>9, <1>10, <1>11 DEF JobInv, SlotsHeld
<1>14. \A m \in JobNum : parked[m] # s
  BY <1>2 DEF Live
<1>15. ServedOnce'
  BY <1>4, <1>14 DEF JobInv, ServedOnce
<1>16. ASSUME NEW v \in Threads, cur'[v] # NoSession, v # w
       PROVE  /\ cur'[v] = cur[v] /\ cur[v] \in Sessions /\ cur[v] # s
              /\ sess'[cur[v]].job = sess[cur[v]].job
              /\ sess[cur[v]].job # n /\ sess[cur[v]].job \in JobNum
              /\ shells'[sess[cur[v]].job] = shells[sess[cur[v]].job]
  <2>1. /\ cur'[v] = cur[v] /\ cur[v] # NoSession /\ cur[v] # s
    BY <1>4, <1>16
  <2>2. /\ cur[v] \in Sessions /\ sess[cur[v]].job \in JobNum
        /\ Owns(cur[v], sess[cur[v]].job)
    BY <2>1, RunningOwns
  <2>3. sess[cur[v]].job # n
    BY <1>1, <2>2
  <2>4. QED
    BY <1>1, <1>2, <1>6, <2>1, <2>2, <2>3 DEF JobInv, TypeOK
<1>17. Registered'
  <2>1. ASSUME NEW v \in Threads, cur'[v] # NoSession, pc'[v] # "ending"
        PROVE  shells'[sess'[cur'[v]].job] = cur'[v]
    <3>1. CASE v = w
      BY <1>1, <1>2, <1>4, <1>6, <3>1 DEF JobInv, TypeOK
    <3>2. CASE v # w
      BY <1>8, <1>16, <2>1, <3>2 DEF JobInv, Registered
    <3>3. QED
      BY <3>1, <3>2
  <2>2. ASSUME NEW m \in JobNum, shells'[m] # NoSession
        PROVE  Owns(shells[m], m)'
    <3>1. CASE m = n
      BY <1>1, <1>2, <1>7, <3>1 DEF JobInv, TypeOK
    <3>2. CASE m # n
      <4>1. shells'[m] = shells[m] /\ shells[m] \in Sessions
        BY <1>1, <1>2, <2>2, <3>2 DEF JobInv, TypeOK
      <4>2. Owns(shells[m], m)
        BY <2>2, <4>1 DEF JobInv, Registered
      <4>3. QED
        BY <1>7, <4>1, <4>2
    <3>3. QED
      BY <3>1, <3>2
  <2>3. ASSUME NEW m \in JobNum, parked'[m] # NoSession
        PROVE  /\ Owns(parked[m], m)' /\ shells'[m] = NoSession
               /\ jobs'[m].detached
    <3>1. /\ parked[m] \in Sessions /\ Owns(parked[m], m)
          /\ shells[m] = NoSession /\ jobs[m].detached /\ m # n
      BY <1>1, <2>3, ParkedOwns
    <3>2. shells'[m] = shells[m]
      BY <1>2, <3>1 DEF JobInv, TypeOK
    <3>3. QED
      BY <1>7, <1>10, <3>1, <3>2
  <2>4. QED
    BY <2>1, <2>2, <2>3 DEF Registered
<1>18. ASSUME NEW v \in Threads, pc'[v] = "ending"
       PROVE  shells'[sess'[cur'[v]].job] = NoSession
  <2>1. pc[v] = "ending" /\ v # w
    BY <1>8, <1>18, <1>3 DEF JobInv, TypeOK
  <2>2. cur[v] # NoSession /\ shells[sess[cur[v]].job] = NoSession
    BY <2>1 DEF JobInv, TypeOK
  <2>3. QED
    BY <1>4, <1>16, <2>1, <2>2
<1>19. QED
  BY <1>8, <1>12, <1>13, <1>15, <1>17, <1>18 DEF JobInv

(* Two threads run different sessions, so different job numbers. *)
LEMMA RunningApart ==
  ASSUME JobInv, NEW t \in Threads, cur[t] # NoSession,
         NEW v \in Threads, cur[v] # NoSession, v # t
  PROVE  cur[v] # cur[t] /\ sess[cur[v]].job # sess[cur[t]].job
<1>1. cur[v] # cur[t]
  BY RunningOwns DEF JobInv, ServedOnce
<1>2. QED
  <2>1. /\ cur[t] \in Sessions /\ Owns(cur[t], sess[cur[t]].job)
        /\ sess[cur[t]].job \in JobNum
    BY RunningOwns
  <2>2. cur[v] \in Sessions /\ Owns(cur[v], sess[cur[v]].job)
    BY RunningOwns
  <2>3. QED
    BY <1>1, <2>1, <2>2 DEF JobInv, SoleHolder

(* Run's clean-up of a detached session: the parked registry takes it over *)
(* from the thread, under the same number.                                *)
LEMMA ParkStep ==
  ASSUME JobInv, TypeOK', NEW t \in Threads, ParkShell(t)
  PROVE  JobInv'
<1> DEFINE s == cur[t]
           n == sess[cur[t]].job
<1>1. /\ s \in Sessions /\ s # NoSession /\ n \in JobNum /\ Owns(s, n)
      /\ \A m \in JobNum : parked[m] # s
      /\ parked[n] = NoSession /\ shells[n] = s /\ pc[t] = "run"
  <2>1. pc[t] = "run" /\ cur[t] # NoSession
    BY DEF ParkShell, JobInv, TypeOK, Serving
  <2>2. shells[n] = s
    BY <2>1 DEF JobInv, Registered
  <2>3. QED
    BY <2>1, <2>2, RunningOwns
<1>2. jobs[n].used
  BY <1>1 DEF JobInv, SlotsHeld
<1>3. /\ \A m \in JobNum : /\ jobs'[m].used = jobs[m].used
                           /\ m # n => jobs'[m] = jobs[m]
      /\ jobs'[n].detached
  <2>1. jobs' = [jobs EXCEPT ![n].detached = jobs[n].used]
    BY DEF ParkShell
  <2>2. QED
    BY <1>1, <1>2, <2>1 DEF JobInv, TypeOK, Slot
<1>4. /\ parked' = [parked EXCEPT ![n] = s]
      /\ shells' = [shells EXCEPT ![n] = NoSession]
      /\ cur' = [cur EXCEPT ![t] = NoSession]
      /\ pc' = [pc EXCEPT ![t] = "left"]
      /\ sess' = sess /\ num' = num
  BY DEF ParkShell, Goto
<1>5. \A v \in Threads : cur'[v] = IF v = t THEN NoSession ELSE cur[v]
  BY <1>4 DEF JobInv, TypeOK
<1>6. \A m \in JobNum : /\ parked'[m] = IF m = n THEN s ELSE parked[m]
                        /\ shells'[m] = IF m = n THEN NoSession ELSE shells[m]
  BY <1>4 DEF JobInv, TypeOK
<1>7. \A v \in Threads :
        /\ pc'[v] \in Window <=> pc[v] \in Window
        /\ pc'[v] = "ending" <=> pc[v] = "ending"
        /\ pc'[v] \notin {"hangup", "hangupLook", "hangupDetach"}
  BY <1>1, <1>4 DEF JobInv, TypeOK, Window
<1>8. \A r \in Sessions : Live(r)' <=> Live(r)
  BY <1>1, <1>5, <1>6, JobsAssumption DEF Live
<1>9. /\ \A v \in Threads, m \in JobNum : Holds(v, m)' <=> Holds(v, m)
      /\ \A r \in Sessions, m \in JobNum : Owns(r, m)' <=> Owns(r, m)
  BY <1>4, <1>7, <1>8 DEF Holds, Owns
<1>10. SoleHolder' /\ SlotsHeld'
  BY <1>3, <1>9 DEF JobInv, SoleHolder, SlotsHeld
<1>11. ServedOnce'
  <2>1. \A v \in Threads : v # t => cur[v] # s
    BY <1>1, RunningApart
  <2>2. QED
    BY <1>1, <1>5, <1>6, <2>1, JobsAssumption DEF JobInv, ServedOnce
<1>12. ASSUME NEW v \in Threads, cur'[v] # NoSession
       PROVE  /\ v # t /\ cur'[v] = cur[v] /\ cur[v] # NoSession
              /\ sess[cur[v]].job \in JobNum /\ sess[cur[v]].job # n
  <2>1. v # t /\ cur'[v] = cur[v] /\ cur[v] # NoSession
    BY <1>5, <1>12
  <2>2. QED
    BY <1>1, <2>1, RunningOwns, RunningApart
<1>13. Registered'
  <2>1. ASSUME NEW v \in Threads, cur'[v] # NoSession, pc'[v] # "ending"
        PROVE  shells'[sess'[cur'[v]].job] = cur'[v]
    BY <1>4, <1>6, <1>7, <1>12, <2>1 DEF JobInv, Registered
  <2>2. ASSUME NEW m \in JobNum, shells'[m] # NoSession
        PROVE  Owns(shells[m], m)'
    <3>1. shells'[m] = shells[m] /\ shells[m] \in Sessions
          /\ Owns(shells[m], m)
      BY <1>6, <2>2 DEF JobInv, TypeOK, Registered
    <3>2. QED
      BY <1>9, <3>1
  <2>3. ASSUME NEW m \in JobNum, parked'[m] # NoSession
        PROVE  /\ Owns(parked[m], m)' /\ shells'[m] = NoSession
               /\ jobs'[m].detached
    <3>1. CASE m = n
      BY <1>1, <1>3, <1>6, <1>9, <3>1
    <3>2. CASE m # n
      BY <1>3, <1>6, <1>9, <2>3, <3>2, ParkedOwns
    <3>3. QED
      BY <3>1, <3>2
  <2>4. QED
    BY <2>1, <2>2, <2>3 DEF Registered
<1>14. ASSUME NEW v \in Threads, pc'[v] = "ending"
       PROVE  shells'[sess'[cur'[v]].job] = NoSession
  <2>1. pc[v] = "ending" /\ cur'[v] # NoSession
    BY <1>7, <1>14 DEF TypeOK
  <2>2. QED
    BY <1>4, <1>6, <1>12, <2>1 DEF JobInv
<1>15. QED
  BY <1>7, <1>10, <1>11, <1>13, <1>14 DEF JobInv

(* unregisterShell: the session leaves the registry, and only that one. *)
LEMMA UnregisterStep ==
  ASSUME JobInv, TypeOK', NEW t \in Threads, UnregisterShell(t)
  PROVE  JobInv'
<1> DEFINE s == cur[t]
           n == sess[cur[t]].job
<1>1. /\ s \in Sessions /\ s # NoSession /\ n \in JobNum
      /\ shells[n] = s /\ pc[t] = "run"
  <2>1. pc[t] = "run" /\ cur[t] # NoSession
    BY DEF UnregisterShell, JobInv, TypeOK, Serving
  <2>2. shells[n] = s
    BY <2>1 DEF JobInv, Registered
  <2>3. QED
    BY <2>1, <2>2, RunningOwns
<1>2. /\ shells' = [shells EXCEPT ![n] = IF @ = cur[t] THEN NoSession ELSE @]
      /\ pc' = [pc EXCEPT ![t] = "ending"]
      /\ UNCHANGED <<jobs, parked, sess, cur, num>>
  BY DEF UnregisterShell, Goto
<1>3. \A m \in JobNum : shells'[m] = IF m = n THEN NoSession ELSE shells[m]
  BY <1>1, <1>2 DEF JobInv, TypeOK
<1>4. \A v \in Threads :
        /\ pc'[v] \in Window <=> pc[v] \in Window
        /\ pc'[v] = "ending" <=> pc[v] = "ending" \/ v = t
        /\ pc'[v] \notin {"hangup", "hangupLook", "hangupDetach"}
  BY <1>1, <1>2 DEF JobInv, TypeOK, Window
<1>5. /\ \A v \in Threads, m \in JobNum : Holds(v, m)' <=> Holds(v, m)
      /\ \A r \in Sessions : Live(r)' <=> Live(r)
  BY <1>2, <1>4 DEF Holds, Live
<1>6. \A r \in Sessions, m \in JobNum : Owns(r, m)' <=> Owns(r, m)
  BY <1>2, <1>5 DEF Owns
<1>7. SoleHolder' /\ SlotsHeld' /\ ServedOnce'
  BY <1>2, <1>5, <1>6 DEF JobInv, SoleHolder, SlotsHeld, ServedOnce
<1>8. Registered'
  <2>1. ASSUME NEW v \in Threads, cur'[v] # NoSession, pc'[v] # "ending"
        PROVE  shells'[sess'[cur'[v]].job] = cur'[v]
    <3>1. /\ v # t /\ pc[v] # "ending"
          /\ cur'[v] = cur[v] /\ cur[v] # NoSession
      BY <1>2, <1>4, <2>1
    <3>2. sess[cur[v]].job \in JobNum /\ sess[cur[v]].job # n
      BY <1>1, <3>1, RunningOwns, RunningApart
    <3>3. QED
      BY <1>2, <1>3, <3>1, <3>2 DEF JobInv, Registered
  <2>2. ASSUME NEW m \in JobNum, shells'[m] # NoSession
        PROVE  Owns(shells[m], m)'
    <3>1. shells'[m] = shells[m] /\ shells[m] \in Sessions
          /\ Owns(shells[m], m)
      BY <1>3, <2>2 DEF JobInv, TypeOK, Registered
    <3>2. QED
      BY <1>6, <3>1
  <2>3. ASSUME NEW m \in JobNum, parked'[m] # NoSession
        PROVE  /\ Owns(parked[m], m)' /\ shells'[m] = NoSession
               /\ jobs'[m].detached
    BY <1>2, <1>3, <1>6, <2>3, ParkedOwns
  <2>4. QED
    BY <2>1, <2>2, <2>3 DEF Registered
<1>9. ASSUME NEW v \in Threads, pc'[v] = "ending"
      PROVE  shells'[sess'[cur'[v]].job] = NoSession
  <2>1. CASE v = t
    BY <1>1, <1>2, <1>3, <2>1
  <2>2. CASE v # t
    <3>1. pc[v] = "ending" /\ cur[v] # NoSession
      BY <1>4, <1>9, <2>2 DEF JobInv, TypeOK
    <3>2. /\ sess[cur[v]].job \in JobNum
          /\ shells[sess[cur[v]].job] = NoSession
      BY <3>1, RunningOwns DEF JobInv
    <3>3. QED
      BY <1>2, <1>3, <3>2
  <2>3. QED
    BY <2>1, <2>2
<1>10. QED
  BY <1>4, <1>7, <1>8, <1>9 DEF JobInv

(* Detach: the number is returned by the goroutine that ran the session, *)
(* which nobody else can reach any more.                                 *)
LEMMA DetachStep ==
  ASSUME JobInv, TypeOK', NEW t \in Threads, Detach(t)
  PROVE  JobInv'
<1> DEFINE s == cur[t]
           n == sess[cur[t]].job
<1>1. /\ s \in Sessions /\ s # NoSession /\ n \in JobNum /\ Owns(s, n)
      /\ \A m \in JobNum : parked[m] # s
      /\ parked[n] = NoSession /\ shells[n] = NoSession /\ pc[t] = "ending"
  <2>1. pc[t] = "ending" /\ cur[t] # NoSession
    BY DEF Detach, JobInv, TypeOK
  <2>2. shells[n] = NoSession
    BY <2>1 DEF JobInv
  <2>3. QED
    BY <2>1, <2>2, RunningOwns
<1>2. /\ jobs' = [jobs EXCEPT ![n] = FreeSlot]
      /\ sess' = [sess EXCEPT ![s] = NewShell(1)]
      /\ cur' = [cur EXCEPT ![t] = NoSession]
      /\ pc' = [pc EXCEPT ![t] = "ended"]
      /\ UNCHANGED <<shells, parked, num>>
  BY DEF Detach, Goto
<1>3. /\ \A m \in JobNum : m # n => jobs'[m] = jobs[m]
      /\ ~jobs'[n].used
  BY <1>1, <1>2 DEF JobInv, TypeOK, FreeSlot
<1>4. \A v \in Threads : /\ cur'[v] = IF v = t THEN NoSession ELSE cur[v]
                         /\ v # t => cur[v] # s
  BY <1>1, <1>2, RunningApart DEF JobInv, TypeOK
<1>5. \A r \in Sessions : Live(r)' <=> Live(r) /\ r # s
  BY <1>1, <1>2, <1>4, JobsAssumption DEF Live
<1>6. \A r \in Sessions : r # s => sess'[r] = sess[r]
  BY <1>1, <1>2 DEF JobInv, TypeOK
<1>7. \A r \in Sessions, m \in JobNum : Owns(r, m)' <=> Owns(r, m) /\ r # s
  BY <1>5, <1>6 DEF Owns
<1>8. \A v \in Threads :
        /\ pc'[v] \in Window <=> pc[v] \in Window
        /\ pc'[v] = "ending" <=> pc[v] = "ending" /\ v # t
        /\ pc'[v] \notin {"hangup", "hangupLook", "hangupDetach"}
  BY <1>1, <1>2 DEF JobInv, TypeOK, Window
<1>9. \A v \in Threads, m \in JobNum : Holds(v, m)' <=> Holds(v, m)
  BY <1>2, <1>8 DEF Holds
<1>10. SoleHolder'
  BY <1>7, <1>9 DEF JobInv, SoleHolder
<1>11. SlotsHeld'
  <2>1. /\ \A r \in Sessions : Owns(r, n) => r = s
        /\ \A v \in Threads : ~Holds(v, n)
    BY <1>1 DEF JobInv, SoleHolder
  <2>2. \A m \in JobNum : m # n => ~Owns(s, m)
    BY DEF Owns
  <2>3. QED
    BY <1>1, <1>3, <1>7, <1>9, <2>1, <2>2 DEF JobInv, SlotsHeld
<1>12. ServedOnce'
  BY <1>2, <1>4, JobsAssumption DEF JobInv, ServedOnce
<1>13. ASSUME NEW v \in Threads, cur'[v] # NoSession
       PROVE  /\ v # t /\ cur'[v] = cur[v] /\ cur[v] # NoSession
              /\ sess'[cur[v]] = sess[cur[v]]
              /\ sess[cur[v]].job \in JobNum
  <2>1. v # t /\ cur'[v] = cur[v] /\ cur[v] # NoSession
    BY <1>4, <1>13
  <2>2. QED
    BY <1>4, <1>6, <2>1, RunningOwns
<1>14. Registered'
  <2>1. ASSUME NEW v \in Threads, cur'[v] # NoSession, pc'[v] # "ending"
        PROVE  shells'[sess'[cur'[v]].job] = cur'[v]
    <3>1. pc[v] # "ending"
      BY <1>8, <1>13, <2>1
    <3>2. QED
      BY <1>2, <1>13, <2>1, <3>1 DEF JobInv, Registered
  <2>2. ASSUME NEW m \in JobNum, shells'[m] # NoSession
        PROVE  Owns(shells[m], m)'
    <3>1. shells[m] \in Sessions /\ Owns(shells[m], m)
      BY <1>2, <2>2 DEF JobInv, TypeOK, Registered
    <3>2. m # n
      BY <1>1, <1>2, <2>2
    <3>3. shells[m] # s
      BY <3>1, <3>2 DEF Owns
    <3>4. QED
      BY <1>2, <1>7, <3>1, <3>3
  <2>3. ASSUME NEW m \in JobNum, parked'[m] # NoSession
        PROVE  /\ Owns(parked[m], m)' /\ shells'[m] = NoSession
               /\ jobs'[m].detached
    <3>1. m # n /\ parked[m] # s
      BY <1>1, <1>2, <2>3
    <3>2. QED
      BY <1>2, <1>3, <1>7, <2>3, <3>1, ParkedOwns
  <2>4. QED
    BY <2>1, <2>2, <2>3 DEF Registered
<1>15. ASSUME NEW v \in Threads, pc'[v] = "ending"
       PROVE  shells'[sess'[cur'[v]].job] = NoSession
  <2>1. pc[v] = "ending" /\ cur'[v] # NoSession
    BY <1>8, <1>15 DEF TypeOK
  <2>2. QED
    BY <1>2, <1>13, <2>1 DEF JobInv
<1>16. QED
  BY <1>8, <1>10, <1>11, <1>12, <1>14, <1>15 DEF JobInv

(* unpark: the parked registry hands the session to the line. *)
LEMMA UnparkStep ==
  ASSUME JobInv, TypeOK', NEW t \in Lines, AttachUnpark(t)
  PROVE  JobInv'
<1> DEFINE n == req[t].job
           s == parked[n]
<1>1. t \in Threads
  BY DEF Threads
<1>2. n \in JobNum /\ pc[t] = "ended" /\ cur[t] = NoSession
  <2>1. req[t] \in Locals
    BY <1>1 DEF JobInv, TypeOK
  <2>2. pc[t] = "ended" /\ req[t].job # 0
    BY DEF AttachUnpark
  <2>3. n \in JobNum
    BY <2>1, <2>2, LocalsTyped, JobsAssumption DEF JobNum
  <2>4. cur[t] = NoSession
    BY <1>1, <2>2 DEF JobInv, TypeOK, Serving
  <2>5. QED
    BY <2>2, <2>3, <2>4
<1>3. CASE s = NoSession
  <2>1. /\ pc' = [pc EXCEPT ![t] = "left"] /\ cur' = [cur EXCEPT ![t] = s]
        /\ parked' = [parked EXCEPT ![n] = NoSession]
        /\ UNCHANGED <<jobs, shells, sess, num>>
    BY <1>2, <1>3 DEF AttachUnpark, TakeParked, Goto
  <2>2. parked' = parked /\ cur' = cur
    BY <1>1, <1>2, <1>3, <2>1 DEF JobInv, TypeOK
  <2>3. \A v \in Threads :
           /\ pc'[v] \in Window <=> pc[v] \in Window
           /\ pc'[v] = "ending" <=> pc[v] = "ending"
           /\ pc'[v] \notin {"hangup", "hangupLook", "hangupDetach"}
    BY <1>1, <1>2, <2>1 DEF JobInv, TypeOK, Window
  <2>4. QED
    BY <2>1, <2>2, <2>3, QuietStep
<1>4. CASE s # NoSession
  <2>1. /\ s \in Sessions /\ Owns(s, n) /\ sess[s].job = n
        /\ shells[n] = NoSession
        /\ \A v \in Threads : cur[v] # s
        /\ \A v \in Threads : cur[v] # NoSession => sess[cur[v]].job # n
    BY <1>2, <1>4, ParkedOwns
  <2>2. /\ parked' = [parked EXCEPT ![n] = NoSession]
        /\ jobs' = [jobs EXCEPT ![n].detached = FALSE]
        /\ shells' = [shells EXCEPT ![n] = s]
        /\ cur' = [cur EXCEPT ![t] = s]
        /\ pc' = [pc EXCEPT ![t] = "bind"]
        /\ UNCHANGED <<sess, num>>
    BY <1>4 DEF AttachUnpark, TakeParked, Goto
  <2>3. \A m \in JobNum :
          /\ jobs'[m].used = jobs[m].used
          /\ m # n => jobs'[m] = jobs[m]
          /\ parked'[m] = IF m = n THEN NoSession ELSE parked[m]
          /\ shells'[m] = IF m = n THEN s ELSE shells[m]
    BY <1>2, <2>2 DEF JobInv, TypeOK, Slot
  <2>4. \A v \in Threads : cur'[v] = IF v = t THEN s ELSE cur[v]
    BY <1>1, <2>2 DEF JobInv, TypeOK
  <2>5. \A v \in Threads :
          /\ pc'[v] \in Window <=> pc[v] \in Window
          /\ pc'[v] = "ending" <=> pc[v] = "ending"
          /\ pc'[v] \notin {"hangup", "hangupLook", "hangupDetach"}
    BY <1>1, <1>2, <2>2 DEF JobInv, TypeOK, Window
  <2>6. \A r \in Sessions : Live(r)' <=> Live(r)
    BY <1>1, <1>2, <2>1, <2>3, <2>4, JobsAssumption DEF Live
  <2>7. /\ \A v \in Threads, m \in JobNum : Holds(v, m)' <=> Holds(v, m)
        /\ \A r \in Sessions, m \in JobNum : Owns(r, m)' <=> Owns(r, m)
    BY <2>2, <2>5, <2>6 DEF Holds, Owns
  <2>8. SoleHolder' /\ SlotsHeld'
    BY <2>3, <2>7 DEF JobInv, SoleHolder, SlotsHeld
  <2>9. ServedOnce'
    <3>1. \A m \in JobNum : parked[m] = s => m = n
      BY <1>2, <2>1 DEF JobInv, ServedOnce
    <3>2. QED
      BY <2>1, <2>3, <2>4, <3>1, JobsAssumption DEF JobInv, ServedOnce
  <2>10. ASSUME NEW v \in Threads, v # t, cur'[v] # NoSession
         PROVE  /\ cur'[v] = cur[v] /\ cur[v] # NoSession
                /\ shells'[sess[cur[v]].job] = shells[sess[cur[v]].job]
    <3>1. cur'[v] = cur[v] /\ cur[v] # NoSession
      BY <2>4, <2>10
    <3>2. sess[cur[v]].job \in JobNum /\ sess[cur[v]].job # n
      BY <2>1, <3>1, RunningOwns
    <3>3. QED
      BY <2>3, <3>1, <3>2
  <2>11. Registered'
    <3>1. ASSUME NEW v \in Threads, cur'[v] # NoSession, pc'[v] # "ending"
          PROVE  shells'[sess'[cur'[v]].job] = cur'[v]
      <4>1. CASE v = t
        BY <1>2, <2>1, <2>2, <2>3, <2>4, <4>1
      <4>2. CASE v # t
        BY <2>2, <2>5, <2>10, <3>1, <4>2 DEF JobInv, Registered
      <4>3. QED
        BY <4>1, <4>2
    <3>2. ASSUME NEW m \in JobNum, shells'[m] # NoSession
          PROVE  Owns(shells[m], m)'
      <4>1. CASE m = n
        BY <1>2, <2>1, <2>3, <2>7, <4>1
      <4>2. CASE m # n
        <5>1. shells'[m] = shells[m] /\ shells[m] \in Sessions
              /\ Owns(shells[m], m)
          BY <2>3, <3>2, <4>2 DEF JobInv, TypeOK, Registered
        <5>2. QED
          BY <2>7, <5>1
      <4>3. QED
        BY <4>1, <4>2
    <3>3. ASSUME NEW m \in JobNum, parked'[m] # NoSession
          PROVE  /\ Owns(parked[m], m)' /\ shells'[m] = NoSession
                 /\ jobs'[m].detached
      <4>1. m # n /\ parked'[m] = parked[m]
        BY <2>3, <3>3
      <4>2. QED
        BY <2>3, <2>7, <3>3, <4>1, ParkedOwns
    <3>4. QED
      BY <3>1, <3>2, <3>3 DEF Registered
  <2>12. ASSUME NEW v \in Threads, pc'[v] = "ending"
         PROVE  shells'[sess'[cur'[v]].job] = NoSession
    <3>1. pc[v] = "ending" /\ v # t /\ cur'[v] # NoSession
      BY <1>2, <2>5, <2>12 DEF TypeOK
    <3>2. QED
      BY <2>2, <2>10, <3>1 DEF JobInv
  <2>13. QED
    BY <2>5, <2>8, <2>9, <2>11, <2>12 DEF JobInv
<1>5. QED
  BY <1>3, <1>4

-----------------------------------------------------------------------------
(* The invariant, action by action.                                        *)

LEMMA CommandKeeps ==
  ASSUME JobInv, TypeOK', "hangup" \notin Ops, NEW t \in Threads, Command(t)
  PROVE  JobInv'
<1>1. ASSUME pc[t] = "run",
             Quit(t) \/ Bye(t) \/ DetachCommand(t)
               \/ \E n \in JobNum : AttachCommand(t, n)
      PROVE  JobInv'
  <2>1. /\ cur[t] \in Sessions /\ sess[cur[t]] \in Shell
        /\ sess[cur[t]].job \in JobNum
    BY <1>1, SessionTyped DEF Busy, Serving, JobInv
  <2>2. \A s \in Sessions : sess'[s].job = sess[s].job
    <3>1. CASE Quit(t)
      BY <2>1, <3>1 DEF Quit, JobInv, TypeOK, Shell
    <3>2. CASE Bye(t)
      BY <2>1, <3>2 DEF Bye, JobInv, TypeOK, Shell
    <3>3. CASE DetachCommand(t)
      BY <2>1, <3>3 DEF DetachCommand, JobInv, TypeOK, Shell
    <3>4. ASSUME NEW n \in JobNum, AttachCommand(t, n)
          PROVE  \A s \in Sessions : sess'[s].job = sess[s].job
      BY <2>1, <3>4 DEF AttachCommand, JobInv, TypeOK, Shell
    <3>5. QED
      BY <1>1, <3>1, <3>2, <3>3, <3>4
  <2>3. \A n \in JobNum : /\ jobs'[n].used = jobs[n].used
                          /\ jobs'[n].detached = jobs[n].detached
    <3>1. CASE Bye(t)
      BY <2>1, <3>1 DEF Bye, SyncJob, JobInv, TypeOK, Slot
    <3>2. CASE ~Bye(t)
      BY <1>1, <3>2 DEF Quit, DetachCommand, AttachCommand, table
    <3>3. QED
      BY <3>1, <3>2
  <2>4. UNCHANGED <<shells, parked, cur, num, pc>>
    BY <1>1 DEF Quit, Bye, DetachCommand, AttachCommand, table
  <2>5. QED
    BY <2>2, <2>3, <2>4, QuietStep DEF JobInv
<1>2. ASSUME SetLogins(t) \/ \E a \in Accounts : LoginCheck(t, a)
                                                 \/ DeleteCheck(t, a)
      PROVE  JobInv'
  <2>1. UNCHANGED <<table, sess, cur, num>>
    BY <1>2 DEF SetLogins, LoginCheck, DeleteCheck
  <2>2. \A v \in Threads :
          /\ pc'[v] \in Window <=> pc[v] \in Window
          /\ pc'[v] = "ending" <=> pc[v] = "ending"
          /\ pc'[v] \notin {"hangup", "hangupLook", "hangupDetach"}
    BY <1>2
    DEF SetLogins, LoginCheck, DeleteCheck, LoggedIn, AtPrompt, Goto, Window,
        JobInv, TypeOK
  <2>3. QED
    BY <2>1, <2>2, QuietStep DEF table
<1>3. ASSUME SubmitAttach(t)
      PROVE  JobInv'
  <2>1. PICK n \in JobNum : AttachAs(t, n,
          [NewJob EXCEPT !.detached = TRUE, !.who = Account(t),
                         !.owner = Account(t)], "submitted")
    BY <1>3 DEF SubmitAttach
  <2>2. pc[t] = "run"
    BY <1>3 DEF SubmitAttach, LoggedIn, AtPrompt
  <2>3. [NewJob EXCEPT !.detached = TRUE, !.who = Account(t),
                       !.owner = Account(t)] \in Slot
    BY <2>2, SessionTyped, BatchSlotTyped DEF Busy, Serving, JobInv
  <2>4. [NewJob EXCEPT !.detached = TRUE, !.who = Account(t),
                       !.owner = Account(t)].used
    BY DEF NewJob, FreeSlot
  <2>5. UNCHANGED <<shells, parked, cur, sess>>
    BY <1>3 DEF SubmitAttach
  <2>6. "submitted" \in Window /\ pc[t] \notin Window
    BY <2>2 DEF Window
  <2>7. QED
    BY <2>1, <2>2, <2>3, <2>4, <2>5, <2>6, AttachStep
<1>4. ASSUME NEW u \in Units, PKAttach(t, u)
      PROVE  JobInv'
  <2>1. PICK n \in JobNum : AttachAs(t, n, NewJob, "pkAttached")
    BY <1>4 DEF PKAttach
  <2>2. pc[t] = "run" /\ UNCHANGED <<shells, parked, cur, sess>>
    BY <1>4 DEF PKAttach, LoggedIn, AtPrompt
  <2>3. NewJob \in Slot /\ NewJob.used
    BY FreeSlotTyped DEF NewJob, FreeSlot
  <2>4. "pkAttached" \in Window /\ pc[t] \notin Window
    BY <2>2 DEF Window
  <2>5. QED
    BY <2>1, <2>2, <2>3, <2>4, AttachStep
<1>5. Quit(t) \/ Bye(t) \/ DetachCommand(t)
        \/ (\E n \in JobNum : AttachCommand(t, n)) => pc[t] = "run"
  BY DEF Quit, Bye, DetachCommand, AttachCommand, LoggedIn, AtPrompt
<1>6. QED
  BY <1>1, <1>2, <1>3, <1>4, <1>5 DEF Command, HangupFind

LEMMA ContinueKeeps ==
  ASSUME JobInv, TypeOK', NEW t \in Threads, Continue(t)
  PROVE  JobInv'
<1>1. ASSUME LoginCommit(t)
      PROVE  JobInv'
  <2>1. /\ cur[t] \in Sessions /\ sess[cur[t]] \in Shell
        /\ sess[cur[t]].job \in JobNum
    BY <1>1, SessionTyped DEF LoginCommit, Busy, Serving, JobInv
  <2>2. \A s \in Sessions : sess'[s].job = sess[s].job
    BY <1>1, <2>1 DEF LoginCommit, JobInv, TypeOK, Shell
  <2>3. \A n \in JobNum : /\ jobs'[n].used = jobs[n].used
                          /\ jobs'[n].detached = jobs[n].detached
    BY <1>1, <2>1 DEF LoginCommit, JobInv, TypeOK, Slot
  <2>4. \A v \in Threads :
          /\ pc'[v] \in Window <=> pc[v] \in Window
          /\ pc'[v] = "ending" <=> pc[v] = "ending"
          /\ pc'[v] \notin {"hangup", "hangupLook", "hangupDetach"}
    BY <1>1 DEF LoginCommit, Goto, Window, JobInv, TypeOK
  <2>5. UNCHANGED <<shells, parked, cur, num>>
    BY <1>1 DEF LoginCommit
  <2>6. QED
    BY <2>2, <2>3, <2>4, <2>5, QuietStep
<1>2. ASSUME DeleteCommit(t)
      PROVE  JobInv'
  <2>1. UNCHANGED <<table, sess, cur, num>>
    BY <1>2 DEF DeleteCommit
  <2>2. \A v \in Threads :
          /\ pc'[v] \in Window <=> pc[v] \in Window
          /\ pc'[v] = "ending" <=> pc[v] = "ending"
          /\ pc'[v] \notin {"hangup", "hangupLook", "hangupDetach"}
    BY <1>2 DEF DeleteCommit, Goto, Window, JobInv, TypeOK
  <2>3. QED
    BY <2>1, <2>2, QuietStep DEF table
<1>3. ASSUME ReplaceJob(t)
      PROVE  JobInv'
  <2>1. pc[t] \in Window
    BY <1>3 DEF ReplaceJob, Window
  <2>2. /\ num[t] \in JobNum /\ parked[num[t]] = NoSession
        /\ jobs[num[t]].used
    BY <2>1, WindowHolds
  <2>3. \A n \in JobNum :
          /\ jobs'[n].used = jobs[n].used
          /\ parked[n] # NoSession => jobs'[n].detached = jobs[n].detached
    <3>1. jobs' = [jobs EXCEPT ![num[t]] =
            [NewJob EXCEPT !.unit = req[t].unit, !.owner = Account(t),
                           !.ownerJob = sess[cur[t]].job]]
      BY <1>3 DEF ReplaceJob
    <3>2. [NewJob EXCEPT !.unit = req[t].unit, !.owner = Account(t),
                         !.ownerJob = sess[cur[t]].job].used = TRUE
      BY DEF NewJob, FreeSlot
    <3>3. jobs[num[t]].used = TRUE
      BY <2>2, SlotDetachedTyped DEF JobInv, TypeOK
    <3>4. QED
      BY <2>2, <3>1, <3>2, <3>3 DEF JobInv, TypeOK
  <2>4. \A v \in Threads :
          /\ pc'[v] \in Window <=> pc[v] \in Window
          /\ pc'[v] = "ending" <=> pc[v] = "ending"
          /\ pc'[v] \notin {"hangup", "hangupLook", "hangupDetach"}
    BY <1>3 DEF ReplaceJob, Goto, Window, JobInv, TypeOK
  <2>5. UNCHANGED <<shells, parked, sess, cur, num>>
    BY <1>3 DEF ReplaceJob
  <2>6. QED
    BY <2>3, <2>4, <2>5, QuietStep
<1>4. ASSUME NEW w \in Workers, SubmitStart(t, w) \/ PKStart(t, w)
      PROVE  JobInv'
  <2>1. /\ w \in Threads /\ pc[t] \in Window \cap Busy /\ pc[w] = "idle"
        /\ pc' = [pc EXCEPT ![t] = "run", ![w] = "run"]
        /\ UNCHANGED parked
    BY <1>4
    DEF Threads, SubmitStart, PKStart, Window, Busy, Serving
  <2>2. cur[w] = NoSession
    BY <2>1 DEF JobInv, TypeOK, Serving
  <2>3. PICK s \in Sessions, x \in SomeAccount : StartShell(t, w, s, x)
    <3>1. sess[cur[t]].acct \in SomeAccount /\ NoAccount \in SomeAccount
      BY <2>1, SessionTyped DEF Account, JobInv, SomeAccount
    <3>2. QED
      BY <1>4, <3>1 DEF SubmitStart, PKStart
  <2>4. QED
    BY <2>1, <2>2, <2>3, StartStep
<1>5. ~HangupUnpark(t) /\ ~HangupLook(t) /\ ~HangupDetach(t)
  BY DEF HangupUnpark, HangupLook, HangupDetach, JobInv
<1>6. QED
  BY <1>1, <1>2, <1>3, <1>4, <1>5, ParkStep, UnregisterStep, DetachStep
  DEF Continue

LEMMA LineKeeps ==
  ASSUME JobInv, TypeOK', NEW l \in Lines, Connect(l) \/ LineStep(l)
  PROVE  JobInv'
<1>0. l \in Threads
  BY DEF Threads
<1>1. ASSUME Connect(l) \/ Reattach(l)
      PROVE  JobInv'
  <2>1. PICK n \in JobNum : AttachAs(l, n, NewJob, "attached")
    BY <1>1 DEF Connect, Reattach
  <2>2. UNCHANGED <<shells, parked, cur, sess>> /\ pc[l] \in {"idle", "left"}
    BY <1>1 DEF Connect, Reattach
  <2>3. NewJob \in Slot /\ NewJob.used
    BY FreeSlotTyped DEF NewJob, FreeSlot
  <2>4. "attached" \in Window /\ pc[l] \notin Window /\ pc[l] # "ending"
    BY <2>2 DEF Window
  <2>5. QED
    BY <1>0, <2>1, <2>2, <2>3, <2>4, AttachStep
<1>2. ASSUME StartSession(l)
      PROVE  JobInv'
  <2>1. PICK s \in Sessions : StartShell(l, l, s, NoAccount)
    BY <1>2 DEF StartSession
  <2>2. /\ pc[l] \in Window /\ NoAccount \in SomeAccount
        /\ pc' = [pc EXCEPT ![l] = "run", ![l] = "run"] /\ UNCHANGED parked
    BY <1>2 DEF StartSession, Goto, Window, SomeAccount
  <2>3. cur[l] = NoSession
    BY <1>0, <1>2 DEF StartSession, JobInv, TypeOK, Serving
  <2>4. QED
    BY <1>0, <2>1, <2>2, <2>3, StartStep
<1>3. ASSUME Drop(l)
      PROVE  JobInv'
  <2>1. UNCHANGED <<table, sess, cur, num>>
    BY <1>3 DEF Drop
  <2>2. \A v \in Threads :
          /\ pc'[v] \in Window <=> pc[v] \in Window
          /\ pc'[v] = "ending" <=> pc[v] = "ending"
          /\ pc'[v] \notin {"hangup", "hangupLook", "hangupDetach"}
    BY <1>0, <1>3 DEF Drop, Goto, Window, JobInv, TypeOK
  <2>3. QED
    BY <2>1, <2>2, QuietStep DEF table
<1>4. ASSUME AttachBind(l)
      PROVE  JobInv'
  <2>1. cur[l] \in Sessions /\ sess[cur[l]] \in Shell
    BY <1>0, <1>4, SessionTyped DEF AttachBind, Busy, JobInv
  <2>2. \A s \in Sessions : sess'[s].job = sess[s].job
    BY <1>4, <2>1 DEF AttachBind, JobInv, TypeOK, Shell
  <2>3. \A v \in Threads :
          /\ pc'[v] \in Window <=> pc[v] \in Window
          /\ pc'[v] = "ending" <=> pc[v] = "ending"
          /\ pc'[v] \notin {"hangup", "hangupLook", "hangupDetach"}
    BY <1>0, <1>4 DEF AttachBind, Goto, Window, JobInv, TypeOK
  <2>4. UNCHANGED <<table, cur, num>>
    BY <1>4 DEF AttachBind
  <2>5. QED
    BY <2>2, <2>3, <2>4, QuietStep DEF table
<1>5. QED
  BY <1>1, <1>2, <1>3, <1>4, UnparkStep DEF LineStep

LEMMA WorkerKeeps ==
  ASSUME JobInv, TypeOK', NEW w \in Workers, WorkerDone(w)
  PROVE  JobInv'
<1>1. UNCHANGED <<table, sess, cur, num>>
  BY DEF WorkerDone
<1>2. \A v \in Threads :
        /\ pc'[v] \in Window <=> pc[v] \in Window
        /\ pc'[v] = "ending" <=> pc[v] = "ending"
        /\ pc'[v] \notin {"hangup", "hangupLook", "hangupDetach"}
  BY DEF WorkerDone, Goto, Window, Threads, JobInv, TypeOK
<1>3. QED
  BY <1>1, <1>2, QuietStep DEF table

LEMMA JobStep ==
  ASSUME "hangup" \notin Ops
  PROVE  JobInv /\ [Next]_vars => JobInv'
<1> SUFFICES ASSUME JobInv, [Next]_vars PROVE JobInv'
  OBVIOUS
<1>1. TypeOK'
  BY StepTyped DEF JobInv
<1>2. CASE UNCHANGED vars
  <2>1. UNCHANGED <<jobs, shells, parked, sess, pc, cur, num>>
    BY <1>2 DEF vars
  <2>2. \A v \in Threads :
          pc'[v] \notin {"hangup", "hangupLook", "hangupDetach"}
    BY <2>1 DEF JobInv
  <2>3. QED
    BY <1>1, <2>1, <2>2, QuietStep
<1>3. QED
  BY <1>1, <1>2, CommandKeeps, ContinueKeeps, LineKeeps, WorkerKeeps DEF Next

LEMMA JobInit == Init => JobInv
<1> SUFFICES ASSUME Init PROVE JobInv
  OBVIOUS
<1>1. /\ \A t \in Threads : pc[t] = "idle" /\ cur[t] = NoSession
      /\ \A n \in JobNum : /\ parked[n] = NoSession /\ shells[n] = NoSession
                           /\ ~jobs[n].used
  BY DEF Init, FreeSlot
<1>2. /\ \A t \in Threads, n \in JobNum : ~Holds(t, n)
      /\ \A s \in Sessions : ~Live(s)
  BY <1>1, JobsAssumption DEF Holds, Live, Window
<1>3. \A s \in Sessions, n \in JobNum : ~Owns(s, n)
  BY <1>2 DEF Owns
<1>4. QED
  BY <1>1, <1>2, <1>3, InitTyped, JobsAssumption
  DEF JobInv, SoleHolder, SlotsHeld, ServedOnce, Registered

(* As long as nobody hangs a job up, Attach, Detach, DETACH, ATTACH,      *)
(* SUBMIT and PK children keep the whole job table in order.              *)
THEOREM JobsKept ==
  ASSUME "hangup" \notin Ops
  PROVE  Spec => []JobInv
<1>1. Init => JobInv
  BY JobInit
<1>2. JobInv /\ [Next]_vars => JobInv'
  BY JobStep
<1>3. QED
  BY <1>1, <1>2, PTL DEF Spec

(* No job number is ever given to two terminals. *)
THEOREM NumbersNotShared ==
  ASSUME "hangup" \notin Ops
  PROVE  Spec => []SoleHolder
<1>1. JobInv => SoleHolder
  BY DEF JobInv
<1>2. QED
  BY <1>1, JobsKept, PTL

(* No slot of the job table leaks, and no live session is without one. *)
THEOREM NoSlotLeaks ==
  ASSUME "hangup" \notin Ops
  PROVE  Spec => []SlotsHeld
<1>1. JobInv => SlotsHeld
  BY DEF JobInv
<1>2. QED
  BY <1>1, JobsKept, PTL

(* The registries always lead to the session that owns the number. *)
THEOREM RegistriesAgree ==
  ASSUME "hangup" \notin Ops
  PROVE  Spec => []Registered
<1>1. JobInv => Registered
  BY DEF JobInv
<1>2. QED
  BY <1>1, JobsKept, PTL

-----------------------------------------------------------------------------
(* What a step does to who holds the numbers and to what the table says of *)
(* the sessions.                                                           *)

(* The slot of a live session names the account it is logged in to. *)
Marked == \A s \in Sessions : Live(s) => jobs[sess[s].job].who = sess[s].acct

SameHolders ==
  /\ \A v \in Threads, m \in JobNum : Holds(v, m)' <=> Holds(v, m)
  /\ \A r \in Sessions, m \in JobNum : Owns(r, m)' <=> Owns(r, m)
Granted(t, n) ==
  /\ LowestFree(n) /\ pc[t] \notin Window
  /\ \A v \in Threads, m \in JobNum : Holds(v, m)' <=> Holds(v, m) \/ (v = t /\ m = n)
  /\ \A r \in Sessions, m \in JobNum : Owns(r, m)' <=> Owns(r, m)
Bound(t, n, s) ==
  /\ Holds(t, n) /\ ~Live(s)
  /\ \A v \in Threads, m \in JobNum : Holds(v, m)' <=> Holds(v, m) /\ v # t
  /\ \A r \in Sessions, m \in JobNum : Owns(r, m)' <=> Owns(r, m) \/ (r = s /\ m = n)
Returned(n, s) ==
  /\ Owns(s, n)
  /\ \A v \in Threads, m \in JobNum : Holds(v, m)' <=> Holds(v, m)
  /\ \A r \in Sessions, m \in JobNum : Owns(r, m)' <=> Owns(r, m) /\ r # s

Moved == \/ SameHolders
         \/ \E t \in Threads, n \in JobNum : Granted(t, n)
         \/ \E t \in Threads, n \in JobNum, s \in Sessions : Bound(t, n, s)
         \/ \E n \in JobNum, s \in Sessions : Returned(n, s)

(* What Marked says of one session stays true if nothing it reads changes. *)
LEMMA MarkedRest ==
  ASSUME Marked, NEW s,
         \A r \in Sessions : Live(r)' /\ r # s =>
           /\ Live(r) /\ sess'[r].job = sess[r].job /\ sess'[r].acct = sess[r].acct
           /\ jobs'[sess[r].job].who = jobs[sess[r].job].who,
         s \in Sessions /\ Live(s)' => jobs'[sess'[s].job].who = sess'[s].acct
  PROVE  Marked'
<1> SUFFICES ASSUME NEW r \in Sessions, Live(r)'
             PROVE  jobs'[sess'[r].job].who = sess'[r].acct
  BY DEF Marked
<1>1. CASE r = s
  BY <1>1
<1>2. CASE r # s
  BY <1>2 DEF Marked
<1>3. QED
  BY <1>1, <1>2

LEMMA JobTyped ==
  ASSUME JobInv, NEW r \in Sessions
  PROVE  sess[r].job \in JobNum
BY ShellFieldsTyped DEF JobInv, TypeOK

(* Steps that move no session and no number. *)
LEMMA QuietMoves ==
  ASSUME JobInv, Marked, UNCHANGED <<parked, cur, num>>,
         \A v \in Threads : pc'[v] \in Window <=> pc[v] \in Window,
         \A s \in Sessions : sess'[s].job = sess[s].job
  PROVE  /\ Moved /\ \A s \in Sessions : Live(s)' <=> Live(s)
         /\ (\A s \in Sessions : Live(s) => /\ sess'[s].acct = sess[s].acct
                                            /\ jobs'[sess[s].job].who = jobs[sess[s].job].who)
              => Marked'
<1>1. \A v \in Threads, n \in JobNum : Holds(v, n)' <=> Holds(v, n)
  BY DEF Holds
<1>2. \A s \in Sessions : Live(s)' <=> Live(s)
  BY DEF Live
<1>3. \A s \in Sessions, n \in JobNum : Owns(s, n)' <=> Owns(s, n)
  BY <1>2 DEF Owns
<1>4. Moved
  BY <1>1, <1>3 DEF Moved, SameHolders
<1>5. QED
  BY <1>2, <1>4 DEF Marked

(* Attach. *)
LEMMA AttachMoves ==
  ASSUME JobInv, Marked, NEW t \in Threads, NEW n \in JobNum, NEW r, NEW place \in Window,
         pc[t] \notin Window, AttachAs(t, n, r, place), UNCHANGED <<parked, cur, sess>>
  PROVE  Moved /\ Marked'
<1>1. /\ \A v \in Threads : ~Holds(v, n)
      /\ \A s \in Sessions : ~Owns(s, n)
      /\ LowestFree(n)
  BY FreeUnheld DEF AttachAs, LowestFree
<1>2. /\ jobs' = [jobs EXCEPT ![n] = r]
      /\ num' = [num EXCEPT ![t] = n]
      /\ pc' = [pc EXCEPT ![t] = place]
  BY DEF AttachAs, Goto
<1>3. \A v \in Threads, m \in JobNum :
        Holds(v, m)' <=> Holds(v, m) \/ (v = t /\ m = n)
  BY <1>2 DEF Holds, JobInv, TypeOK
<1>4. \A s \in Sessions : Live(s)' <=> Live(s)
  BY DEF Live
<1>5. \A s \in Sessions, m \in JobNum : Owns(s, m)' <=> Owns(s, m)
  BY <1>4 DEF Owns
<1>6. Moved
  BY <1>1, <1>3, <1>5 DEF Moved, Granted
<1>7. ASSUME NEW s \in Sessions, Live(s)
      PROVE  jobs'[sess[s].job] = jobs[sess[s].job]
  <2>1. sess[s].job \in JobNum /\ sess[s].job # n
    BY <1>1, <1>7, JobTyped DEF Owns
  <2>2. QED
    BY <1>2, <2>1 DEF JobInv, TypeOK
<1>8. Marked'
  BY <1>4, <1>7 DEF Marked
<1>9. QED
  BY <1>6, <1>8

(* newSession. *)
LEMMA StartMoves ==
  ASSUME JobInv, Marked, NEW t \in Threads, pc[t] \in Window,
         NEW w \in Threads, w = t \/ pc[w] = "idle", cur[w] = NoSession,
         NEW s \in Sessions, NEW x \in SomeAccount, StartShell(t, w, s, x),
         pc' = [pc EXCEPT ![t] = "run", ![w] = "run"], UNCHANGED parked
  PROVE  Moved /\ Marked'
<1>1. PICK n : n = num[t]
  OBVIOUS
<1>2. /\ n \in JobNum /\ Holds(t, n) /\ jobs[n].used
      /\ \A r \in Sessions : ~Owns(r, n)
  BY <1>1, WindowHolds
<1>3. /\ cur' = [cur EXCEPT ![w] = s]
      /\ num' = [num EXCEPT ![t] = 0]
      /\ sess' = [sess EXCEPT ![s] =
           [NewShell(n) EXCEPT !.acct = x, !.console = (w = Console)]]
      /\ jobs' = SyncJob(n, x)
      /\ ~Live(s)
  BY <1>1 DEF StartShell, Fresh, Live
<1>4. \A v \in Threads : cur'[v] = IF v = w THEN s ELSE cur[v]
  BY <1>3 DEF JobInv, TypeOK
<1>5. \A r \in Sessions : Live(r)' <=> Live(r) \/ r = s
  BY <1>4, JobsAssumption DEF Live
<1>6. /\ \A r \in Sessions : r # s => sess'[r] = sess[r]
      /\ sess'[s].job = n /\ sess'[s].acct = x
  BY <1>3 DEF JobInv, TypeOK, NewShell
<1>7. \A r \in Sessions, m \in JobNum :
        Owns(r, m)' <=> Owns(r, m) \/ (r = s /\ m = n)
  BY <1>3, <1>5, <1>6 DEF Owns
<1>8. \A v \in Threads : pc'[v] \in Window <=> pc[v] \in Window /\ v # t
  BY DEF JobInv, TypeOK, Window
<1>9. \A v \in Threads, m \in JobNum : Holds(v, m)' <=> Holds(v, m) /\ v # t
  BY <1>3, <1>8 DEF Holds, JobInv, TypeOK
<1>10. Moved
  BY <1>2, <1>3, <1>7, <1>9 DEF Moved, Bound
<1>11. jobs'[n].who = x /\ \A m \in JobNum : m # n => jobs'[m] = jobs[m]
  BY <1>2, <1>3 DEF JobInv, TypeOK, SyncJob, Slot
<1>12. ASSUME NEW r \in Sessions, Live(r)', r # s
       PROVE  /\ Live(r) /\ sess'[r] = sess[r]
              /\ jobs'[sess[r].job] = jobs[sess[r].job]
  <2>1. Live(r) /\ sess'[r] = sess[r]
    BY <1>5, <1>6, <1>12
  <2>2. sess[r].job \in JobNum /\ sess[r].job # n
    BY <1>2, <2>1, JobTyped DEF Owns
  <2>3. QED
    BY <1>11, <2>1, <2>2
<1>13. Marked'
  BY <1>6, <1>11, <1>12, MarkedRest
<1>14. QED
  BY <1>10, <1>13

(* Run's clean-up: into the parked registry, *)
LEMMA ParkMoves ==
  ASSUME JobInv, Marked, NEW t \in Threads, ParkShell(t)
  PROVE  Moved /\ Marked'
<1>1. PICK s, n : s = cur[t] /\ n = sess[cur[t]].job
  OBVIOUS
<1>2. /\ s \in Sessions /\ n \in JobNum /\ pc[t] = "run"
      /\ parked[n] = NoSession
  <2>1. pc[t] = "run" /\ cur[t] # NoSession
    BY DEF ParkShell, JobInv, TypeOK, Serving
  <2>2. QED
    BY <1>1, <2>1, RunningOwns
<1>3. /\ parked' = [parked EXCEPT ![n] = s]
      /\ cur' = [cur EXCEPT ![t] = NoSession]
      /\ pc' = [pc EXCEPT ![t] = "left"]
      /\ jobs' = [jobs EXCEPT ![n].detached = jobs[n].used]
      /\ sess' = sess /\ num' = num
  BY <1>1 DEF ParkShell, Goto
<1>4. /\ \A v \in Threads : cur'[v] = IF v = t THEN NoSession ELSE cur[v]
      /\ \A m \in JobNum : parked'[m] = IF m = n THEN s ELSE parked[m]
      /\ \A m \in JobNum : jobs'[m].who = jobs[m].who
      /\ \A v \in Threads : pc'[v] \in Window <=> pc[v] \in Window
  BY <1>2, <1>3 DEF JobInv, TypeOK, Slot, Window
<1>5. \A r \in Sessions : Live(r)' <=> Live(r)
  BY <1>1, <1>2, <1>4, JobsAssumption DEF Live
<1>6. /\ \A v \in Threads, m \in JobNum : Holds(v, m)' <=> Holds(v, m)
      /\ \A r \in Sessions, m \in JobNum : Owns(r, m)' <=> Owns(r, m)
  BY <1>3, <1>4, <1>5 DEF Holds, Owns
<1>7. Marked'
  BY <1>3, <1>4, <1>5, JobTyped DEF Marked
<1>8. QED
  BY <1>6, <1>7 DEF Moved, SameHolders

(* or out of the table. *)
LEMMA DetachMoves ==
  ASSUME JobInv, Marked, NEW t \in Threads, Detach(t)
  PROVE  Moved /\ Marked'
<1>1. PICK s, n : s = cur[t] /\ n = sess[cur[t]].job
  OBVIOUS
<1>2. /\ s \in Sessions /\ s # NoSession /\ n \in JobNum /\ Owns(s, n) /\ pc[t] = "ending"
      /\ \A m \in JobNum : parked[m] # s
  <2>1. pc[t] = "ending" /\ cur[t] # NoSession
    BY DEF Detach, JobInv, TypeOK
  <2>2. QED
    BY <1>1, <2>1, RunningOwns
<1>3. /\ jobs' = [jobs EXCEPT ![n] = FreeSlot]
      /\ sess' = [sess EXCEPT ![s] = NewShell(1)]
      /\ cur' = [cur EXCEPT ![t] = NoSession]
      /\ pc' = [pc EXCEPT ![t] = "ended"]
      /\ UNCHANGED <<parked, num>>
  BY <1>1 DEF Detach, Goto
<1>4. \A v \in Threads : /\ cur'[v] = IF v = t THEN NoSession ELSE cur[v]
                         /\ v # t => cur[v] # s
  BY <1>1, <1>2, <1>3, RunningApart DEF JobInv, TypeOK
<1>5. \A r \in Sessions : Live(r)' <=> Live(r) /\ r # s
  BY <1>1, <1>2, <1>3, <1>4, JobsAssumption DEF Live
<1>6. \A r \in Sessions : r # s => sess'[r] = sess[r]
  BY <1>2, <1>3 DEF JobInv, TypeOK
<1>7. \A r \in Sessions, m \in JobNum : Owns(r, m)' <=> Owns(r, m) /\ r # s
  BY <1>5, <1>6 DEF Owns
<1>8. \A v \in Threads : pc'[v] \in Window <=> pc[v] \in Window
  BY <1>2, <1>3 DEF JobInv, TypeOK, Window
<1>9. \A v \in Threads, m \in JobNum : Holds(v, m)' <=> Holds(v, m)
  BY <1>3, <1>8 DEF Holds
<1>10. Moved
  BY <1>2, <1>7, <1>9 DEF Moved, Returned
<1>11. ASSUME NEW r \in Sessions, Live(r)', r # s
       PROVE  /\ Live(r) /\ sess'[r] = sess[r]
              /\ jobs'[sess[r].job] = jobs[sess[r].job]
  <2>1. Live(r) /\ sess'[r] = sess[r] /\ sess[r].job \in JobNum
    BY <1>5, <1>6, <1>11, JobTyped
  <2>2. Owns(r, sess[r].job)
    BY <2>1 DEF Owns
  <2>3. sess[r].job # n
    BY <1>2, <1>11, <2>2 DEF JobInv, SoleHolder
  <2>4. QED
    BY <1>3, <2>1, <2>3 DEF JobInv, TypeOK
<1>12. ~Live(s)'
  BY <1>2, <1>5
<1>13. Marked'
  BY <1>11, <1>12, MarkedRest
<1>14. QED
  BY <1>10, <1>13

(* ATTACH. *)
LEMMA UnparkMoves ==
  ASSUME JobInv, Marked, NEW t \in Threads, AttachUnpark(t)
  PROVE  Moved /\ Marked'
<1>1. PICK n, s : n = req[t].job /\ s = parked[n]
  OBVIOUS
<1>2. n \in JobNum /\ pc[t] = "ended" /\ cur[t] = NoSession
  <2>1. req[t] \in Locals
    BY DEF JobInv, TypeOK
  <2>2. pc[t] = "ended" /\ req[t].job # 0
    BY DEF AttachUnpark
  <2>3. n \in JobNum
    BY <1>1, <2>1, <2>2, LocalsTyped, JobsAssumption DEF JobNum
  <2>4. cur[t] = NoSession
    BY <2>2 DEF JobInv, TypeOK, Serving
  <2>5. QED
    BY <2>2, <2>3, <2>4
<1>3. /\ parked' = [parked EXCEPT ![n] = NoSession] /\ cur' = [cur EXCEPT ![t] = s]
      /\ pc' \in {[pc EXCEPT ![t] = "left"], [pc EXCEPT ![t] = "bind"]}
      /\ jobs' = jobs \/ jobs' = [jobs EXCEPT ![n].detached = FALSE]
      /\ UNCHANGED <<sess, num>>
  BY <1>1 DEF AttachUnpark, TakeParked, Goto
<1>4. /\ \A v \in Threads : cur'[v] = IF v = t THEN s ELSE cur[v]
      /\ \A m \in JobNum : parked'[m] = IF m = n THEN NoSession ELSE parked[m]
  BY <1>2, <1>3 DEF JobInv, TypeOK
<1>5. \A m \in JobNum : jobs'[m].who = jobs[m].who
  BY <1>2, <1>3 DEF JobInv, TypeOK, Slot
<1>6. \A v \in Threads : pc'[v] \in Window <=> pc[v] \in Window
  <2>1. CASE pc' = [pc EXCEPT ![t] = "left"]
    BY <1>2, <2>1 DEF JobInv, TypeOK, Window
  <2>2. CASE pc' = [pc EXCEPT ![t] = "bind"]
    BY <1>2, <2>2 DEF JobInv, TypeOK, Window
  <2>3. QED
    BY <1>3, <2>1, <2>2
<1>7. \A r \in Sessions : Live(r)' <=> Live(r)
  BY <1>1, <1>2, <1>4, JobsAssumption DEF Live
<1>8. /\ \A v \in Threads, m \in JobNum : Holds(v, m)' <=> Holds(v, m)
      /\ \A r \in Sessions, m \in JobNum : Owns(r, m)' <=> Owns(r, m)
  BY <1>3, <1>6, <1>7 DEF Holds, Owns
<1>9. Marked'
  BY <1>3, <1>5, <1>7, JobTyped DEF Marked
<1>10. QED
  BY <1>8, <1>9 DEF Moved, SameHolders

(* Two live sessions have different slots, and they are in use. *)
LEMMA OtherSlots ==
  ASSUME JobInv, NEW t \in Threads, cur[t] # NoSession
  PROVE  /\ jobs[sess[cur[t]].job].used
         /\ \A r \in Sessions : Live(r) /\ r # cur[t] =>
              sess[r].job \in JobNum /\ sess[r].job # sess[cur[t]].job
<1>1. /\ cur[t] \in Sessions /\ sess[cur[t]].job \in JobNum
      /\ Owns(cur[t], sess[cur[t]].job)
  BY RunningOwns
<1>2. jobs[sess[cur[t]].job].used
  BY <1>1 DEF JobInv, SlotsHeld
<1>3. ASSUME NEW r \in Sessions, Live(r), r # cur[t]
      PROVE  sess[r].job \in JobNum /\ sess[r].job # sess[cur[t]].job
  <2>1. sess[r].job \in JobNum /\ Owns(r, sess[r].job)
    BY <1>3, JobTyped DEF Owns
  <2>2. QED
    BY <1>1, <1>3, <2>1 DEF JobInv, SoleHolder
<1>4. QED
  BY <1>2, <1>3

(* Login and BYE write the account into the session and into its slot. *)
LEMMA SignMoves ==
  ASSUME JobInv, Marked, NEW t \in Threads, cur[t] # NoSession,
         LoginCommit(t) \/ (Bye(t) /\ pc[t] = "run")
  PROVE  Moved /\ Marked'
<1>1. /\ cur[t] \in Sessions /\ sess[cur[t]] \in Shell
      /\ sess[cur[t]].job \in JobNum
  BY RunningOwns DEF JobInv, TypeOK
<1>2. /\ jobs[sess[cur[t]].job].used
      /\ \A r \in Sessions : Live(r) /\ r # cur[t] =>
           sess[r].job \in JobNum /\ sess[r].job # sess[cur[t]].job
  BY OtherSlots
<1>3. /\ UNCHANGED <<parked, cur, num>>
      /\ \A v \in Threads : pc'[v] \in Window <=> pc[v] \in Window
  BY DEF LoginCommit, Bye, Goto, Window, JobInv, TypeOK
<1>4. PICK a : sess' = [sess EXCEPT ![cur[t]].acct = a]
               /\ jobs'[sess[cur[t]].job].who = a
               /\ \A m \in JobNum : m # sess[cur[t]].job => jobs'[m] = jobs[m]
  <2>0. PICK n : n = sess[cur[t]].job
    OBVIOUS
  <2>1. n \in JobNum /\ jobs[n] \in Slot /\ jobs = [m \in JobNum |-> jobs[m]]
    BY <1>1, <2>0 DEF JobInv, TypeOK
  <2>2. CASE LoginCommit(t)
    <3>1. PICK b : b = req[t].acct
      OBVIOUS
    <3>2. /\ sess' = [sess EXCEPT ![cur[t]].acct = b]
          /\ jobs' = [jobs EXCEPT ![n] = [@ EXCEPT !.owner = b, !.who = b]]
      BY <1>2, <2>0, <2>2, <3>1 DEF LoginCommit
    <3>3. jobs'[n].who = b /\ \A m \in JobNum : m # n => jobs'[m] = jobs[m]
      BY <2>1, <3>2 DEF Slot
    <3>4. QED
      BY <2>0, <3>2, <3>3
  <2>3. CASE Bye(t)
    <3>1. /\ sess' = [sess EXCEPT ![cur[t]].acct = NoAccount]
          /\ jobs' = [jobs EXCEPT ![n].who = NoAccount]
      BY <1>2, <2>0, <2>3 DEF Bye, SyncJob
    <3>2. jobs'[n].who = NoAccount /\ \A m \in JobNum : m # n => jobs'[m] = jobs[m]
      BY <2>1, <3>1 DEF Slot
    <3>3. QED
      BY <2>0, <3>1, <3>2
  <2>4. QED
    BY <2>2, <2>3
<1>5. /\ \A s \in Sessions : sess'[s].job = sess[s].job
      /\ sess'[cur[t]].acct = a
      /\ \A s \in Sessions : s # cur[t] => sess'[s] = sess[s]
  BY <1>1, <1>4 DEF JobInv, TypeOK, Shell
<1>6. Moved /\ \A s \in Sessions : Live(s)' <=> Live(s)
  BY <1>3, <1>5, QuietMoves
<1>7. ASSUME NEW r \in Sessions, Live(r)', r # cur[t]
      PROVE  /\ Live(r) /\ sess'[r] = sess[r]
             /\ jobs'[sess[r].job] = jobs[sess[r].job]
  BY <1>2, <1>4, <1>5, <1>6, <1>7
<1>8. jobs'[sess'[cur[t]].job].who = sess'[cur[t]].acct
  BY <1>1, <1>4, <1>5
<1>9. Marked'
  BY <1>7, <1>8, MarkedRest
<1>10. QED
  BY <1>6, <1>9

(* Steps that leave the table and the sessions' numbers and accounts. *)
LEMMA IdleMoves ==
  ASSUME JobInv, Marked, UNCHANGED <<jobs, parked, cur, num>>,
         \A v \in Threads : pc'[v] \in Window <=> pc[v] \in Window,
         \A s \in Sessions : /\ sess'[s].job = sess[s].job
                             /\ sess'[s].acct = sess[s].acct
  PROVE  Moved /\ Marked'
BY QuietMoves

LEMMA CommandMoves ==
  ASSUME JobInv, Marked, "hangup" \notin Ops, NEW t \in Threads, Command(t)
  PROVE  Moved /\ Marked'
<1>1. ASSUME pc[t] = "run",
             Quit(t) \/ DetachCommand(t) \/ \E n \in JobNum : AttachCommand(t, n)
      PROVE  Moved /\ Marked'
  <2>1. cur[t] \in Sessions /\ sess[cur[t]] \in Shell
    BY <1>1, SessionTyped DEF Busy, Serving, JobInv
  <2>2. \A s \in Sessions : /\ sess'[s].job = sess[s].job
                            /\ sess'[s].acct = sess[s].acct
    <3>1. CASE Quit(t)
      BY <2>1, <3>1 DEF Quit, JobInv, TypeOK, Shell
    <3>2. CASE DetachCommand(t)
      BY <2>1, <3>2 DEF DetachCommand, JobInv, TypeOK, Shell
    <3>3. ASSUME NEW n \in JobNum, AttachCommand(t, n)
          PROVE  \A s \in Sessions : /\ sess'[s].job = sess[s].job
                                     /\ sess'[s].acct = sess[s].acct
      BY <2>1, <3>3 DEF AttachCommand, JobInv, TypeOK, Shell
    <3>4. QED
      BY <1>1, <3>1, <3>2, <3>3
  <2>3. UNCHANGED <<jobs, parked, cur, num, pc>>
    BY <1>1 DEF Quit, DetachCommand, AttachCommand, table
  <2>4. QED
    BY <2>2, <2>3, IdleMoves
<1>2. ASSUME SetLogins(t) \/ \E a \in Accounts : LoginCheck(t, a)
                                                 \/ DeleteCheck(t, a)
      PROVE  Moved /\ Marked'
  <2>1. UNCHANGED <<table, sess, cur, num>>
    BY <1>2 DEF SetLogins, LoginCheck, DeleteCheck
  <2>2. \A v \in Threads : pc'[v] \in Window <=> pc[v] \in Window
    BY <1>2
    DEF SetLogins, LoginCheck, DeleteCheck, LoggedIn, AtPrompt, Goto, Window,
        JobInv, TypeOK
  <2>3. QED
    BY <2>1, <2>2, IdleMoves DEF table
<1>3. ASSUME SubmitAttach(t)
      PROVE  Moved /\ Marked'
  <2>1. PICK n \in JobNum : AttachAs(t, n,
          [NewJob EXCEPT !.detached = TRUE, !.who = Account(t),
                         !.owner = Account(t)], "submitted")
    BY <1>3 DEF SubmitAttach
  <2>2. pc[t] = "run" /\ UNCHANGED <<parked, cur, sess>>
    BY <1>3 DEF SubmitAttach, LoggedIn, AtPrompt
  <2>3. "submitted" \in Window /\ pc[t] \notin Window
    BY <2>2 DEF Window
  <2>4. QED
    BY <2>1, <2>2, <2>3, AttachMoves
<1>4. ASSUME NEW u \in Units, PKAttach(t, u)
      PROVE  Moved /\ Marked'
  <2>1. PICK n \in JobNum : AttachAs(t, n, NewJob, "pkAttached")
    BY <1>4 DEF PKAttach
  <2>2. pc[t] = "run" /\ UNCHANGED <<parked, cur, sess>>
    BY <1>4 DEF PKAttach, LoggedIn, AtPrompt
  <2>3. "pkAttached" \in Window /\ pc[t] \notin Window
    BY <2>2 DEF Window
  <2>4. QED
    BY <2>1, <2>2, <2>3, AttachMoves
<1>5. ASSUME Bye(t)
      PROVE  Moved /\ Marked'
  <2>1. pc[t] = "run" /\ cur[t] # NoSession
    BY <1>5 DEF Bye, LoggedIn, AtPrompt, JobInv, TypeOK, Serving
  <2>2. QED
    BY <1>5, <2>1, SignMoves
<1>6. Quit(t) \/ DetachCommand(t)
        \/ (\E n \in JobNum : AttachCommand(t, n)) => pc[t] = "run"
  BY DEF Quit, DetachCommand, AttachCommand, LoggedIn, AtPrompt
<1>7. QED
  BY <1>1, <1>2, <1>3, <1>4, <1>5, <1>6 DEF Command, HangupFind

LEMMA ContinueMoves ==
  ASSUME JobInv, Marked, NEW t \in Threads, Continue(t)
  PROVE  Moved /\ Marked'
<1>1. ASSUME LoginCommit(t)
      PROVE  Moved /\ Marked'
  <2>1. cur[t] # NoSession
    BY <1>1 DEF LoginCommit, JobInv, TypeOK, Serving
  <2>2. QED
    BY <1>1, <2>1, SignMoves
<1>2. ASSUME DeleteCommit(t)
      PROVE  Moved /\ Marked'
  <2>1. UNCHANGED <<table, sess, cur, num>>
    BY <1>2 DEF DeleteCommit
  <2>2. \A v \in Threads : pc'[v] \in Window <=> pc[v] \in Window
    BY <1>2 DEF DeleteCommit, Goto, Window, JobInv, TypeOK
  <2>3. QED
    BY <2>1, <2>2, IdleMoves DEF table
<1>3. ASSUME ReplaceJob(t)
      PROVE  Moved /\ Marked'
  <2>1. pc[t] \in Window
    BY <1>3 DEF ReplaceJob, Window
  <2>2. num[t] \in JobNum /\ \A s \in Sessions : ~Owns(s, num[t])
    BY <2>1, WindowHolds
  <2>3. ASSUME NEW s \in Sessions, Live(s)
        PROVE  jobs'[sess[s].job] = jobs[sess[s].job]
    <3>1. sess[s].job \in JobNum /\ sess[s].job # num[t]
      BY <2>2, <2>3, JobTyped DEF Owns
    <3>2. QED
      BY <1>3, <2>2, <3>1 DEF ReplaceJob, JobInv, TypeOK
  <2>4. \A v \in Threads : pc'[v] \in Window <=> pc[v] \in Window
    BY <1>3 DEF ReplaceJob, Goto, Window, JobInv, TypeOK
  <2>5. UNCHANGED <<parked, sess, cur, num>>
    BY <1>3 DEF ReplaceJob
  <2>6. QED
    BY <2>3, <2>4, <2>5, QuietMoves
<1>4. ASSUME NEW w \in Workers, SubmitStart(t, w) \/ PKStart(t, w)
      PROVE  Moved /\ Marked'
  <2>1. /\ w \in Threads /\ pc[t] \in Window \cap Busy /\ pc[w] = "idle"
        /\ pc' = [pc EXCEPT ![t] = "run", ![w] = "run"]
        /\ UNCHANGED parked
    BY <1>4
    DEF Threads, SubmitStart, PKStart, Window, Busy, Serving
  <2>2. cur[w] = NoSession
    BY <2>1 DEF JobInv, TypeOK, Serving
  <2>3. PICK s \in Sessions, x \in SomeAccount : StartShell(t, w, s, x)
    <3>1. sess[cur[t]].acct \in SomeAccount /\ NoAccount \in SomeAccount
      BY <2>1, SessionTyped DEF Account, JobInv, SomeAccount
    <3>2. QED
      BY <1>4, <3>1 DEF SubmitStart, PKStart
  <2>4. QED
    BY <2>1, <2>2, <2>3, StartMoves
<1>5. ASSUME UnregisterShell(t)
      PROVE  Moved /\ Marked'
  <2>1. UNCHANGED <<jobs, parked, sess, cur, num>>
    BY <1>5 DEF UnregisterShell
  <2>2. \A v \in Threads : pc'[v] \in Window <=> pc[v] \in Window
    BY <1>5 DEF UnregisterShell, Goto, Window, JobInv, TypeOK
  <2>3. QED
    BY <2>1, <2>2, IdleMoves
<1>6. ~HangupUnpark(t) /\ ~HangupLook(t) /\ ~HangupDetach(t)
  BY DEF HangupUnpark, HangupLook, HangupDetach, JobInv
<1>7. QED
  BY <1>1, <1>2, <1>3, <1>4, <1>5, <1>6, ParkMoves, DetachMoves DEF Continue

LEMMA LineMoves ==
  ASSUME JobInv, Marked, NEW l \in Lines, Connect(l) \/ LineStep(l)
  PROVE  Moved /\ Marked'
<1>0. l \in Threads
  BY DEF Threads
<1>1. ASSUME Connect(l) \/ Reattach(l)
      PROVE  Moved /\ Marked'
  <2>1. PICK n \in JobNum : AttachAs(l, n, NewJob, "attached")
    BY <1>1 DEF Connect, Reattach
  <2>2. UNCHANGED <<parked, cur, sess>> /\ pc[l] \in {"idle", "left"}
    BY <1>1 DEF Connect, Reattach
  <2>3. "attached" \in Window /\ pc[l] \notin Window
    BY <2>2 DEF Window
  <2>4. QED
    BY <1>0, <2>1, <2>2, <2>3, AttachMoves
<1>2. ASSUME StartSession(l)
      PROVE  Moved /\ Marked'
  <2>1. PICK s \in Sessions : StartShell(l, l, s, NoAccount)
    BY <1>2 DEF StartSession
  <2>2. /\ pc[l] \in Window /\ NoAccount \in SomeAccount
        /\ pc' = [pc EXCEPT ![l] = "run", ![l] = "run"] /\ UNCHANGED parked
    BY <1>2 DEF StartSession, Goto, Window, SomeAccount
  <2>3. cur[l] = NoSession
    BY <1>0, <1>2 DEF StartSession, JobInv, TypeOK, Serving
  <2>4. QED
    BY <1>0, <2>1, <2>2, <2>3, StartMoves
<1>3. ASSUME Drop(l)
      PROVE  Moved /\ Marked'
  <2>1. UNCHANGED <<table, sess, cur, num>>
    BY <1>3 DEF Drop
  <2>2. \A v \in Threads : pc'[v] \in Window <=> pc[v] \in Window
    BY <1>0, <1>3 DEF Drop, Goto, Window, JobInv, TypeOK
  <2>3. QED
    BY <2>1, <2>2, IdleMoves DEF table
<1>4. ASSUME AttachBind(l)
      PROVE  Moved /\ Marked'
  <2>1. cur[l] \in Sessions /\ sess[cur[l]] \in Shell
    BY <1>0, <1>4, SessionTyped DEF AttachBind, Busy, JobInv
  <2>2. \A s \in Sessions : /\ sess'[s].job = sess[s].job
                            /\ sess'[s].acct = sess[s].acct
    BY <1>4, <2>1 DEF AttachBind, JobInv, TypeOK, Shell
  <2>3. \A v \in Threads : pc'[v] \in Window <=> pc[v] \in Window
    BY <1>0, <1>4 DEF AttachBind, Goto, Window, JobInv, TypeOK
  <2>4. UNCHANGED <<table, cur, num>>
    BY <1>4 DEF AttachBind
  <2>5. QED
    BY <2>2, <2>3, <2>4, IdleMoves DEF table
<1>5. QED
  BY <1>0, <1>1, <1>2, <1>3, <1>4, UnparkMoves DEF LineStep

LEMMA WorkerMoves ==
  ASSUME JobInv, Marked, NEW w \in Workers, WorkerDone(w)
  PROVE  Moved /\ Marked'
<1>1. UNCHANGED <<table, sess, cur, num>>
  BY DEF WorkerDone
<1>2. \A v \in Threads : pc'[v] \in Window <=> pc[v] \in Window
  BY DEF WorkerDone, Goto, Window, Threads, JobInv, TypeOK
<1>3. QED
  BY <1>1, <1>2, IdleMoves DEF table

LEMMA StepMoves ==
  ASSUME JobInv, Marked, "hangup" \notin Ops, [Next]_vars
  PROVE  Moved /\ Marked'
<1>1. CASE UNCHANGED vars
  <2>1. UNCHANGED <<jobs, parked, sess, pc, cur, num>>
    BY <1>1 DEF vars
  <2>2. QED
    BY <2>1, IdleMoves
<1>2. QED
  BY <1>1, CommandMoves, ContinueMoves, LineMoves, WorkerMoves DEF Next

LEMMA JobsMarked ==
  ASSUME "hangup" \notin Ops
  PROVE  Spec => [](JobInv /\ Marked)
<1>1. Init => JobInv /\ Marked
  <2>1. Init => \A s \in Sessions : ~Live(s)
    BY JobsAssumption DEF Init, Live
  <2>2. QED
    BY <2>1, JobInit DEF Marked
<1>2. JobInv /\ Marked /\ [Next]_vars => (JobInv /\ Marked)'
  BY JobStep, StepMoves
<1>3. QED
  BY <1>1, <1>2, PTL DEF Spec

(* jobsForPPN misses no session that is logged in to the account.  The     *)
(* slot is what it goes by: it names the account from Login to BYE, while  *)
(* the session moves from a terminal to the parked registry and back, and  *)
(* until Detach clears the slot of a session that is in no registry.       *)
THEOREM LoggedInSeen ==
  ASSUME "hangup" \notin Ops
  PROVE  Spec => []SeesLoggedIn
<1>1. ASSUME JobInv, Marked PROVE SeesLoggedIn
  <2>1. SUFFICES ASSUME NEW a \in Accounts, NEW s \in Sessions,
                        Live(s), sess[s].acct = a
                 PROVE  sess[s].job \in JobsForPPN(a)
    BY DEF SeesLoggedIn, LoggedInJobs
  <2>2. sess[s].job \in JobNum /\ jobs[sess[s].job].who = a
    BY <1>1, <2>1, JobTyped DEF Marked
  <2>3. jobs[sess[s].job].used
    BY <1>1, <2>1, <2>2 DEF JobInv, SlotsHeld, Owns
  <2>4. QED
    BY <2>2, <2>3 DEF JobsForPPN
<1>2. QED
  BY <1>1, JobsMarked, PTL

-----------------------------------------------------------------------------
(* The job table implements the abstract one.                              *)

(* Who Holder names: the one thread or the one session that has n. *)
HolderNamed ==
  \A n \in JobNum :
    /\ \A t \in Threads : Holds(t, n) => Holder(n) = t
    /\ \A s \in Sessions : Owns(s, n) => Holder(n) = s
    /\ (\A t \in Threads : ~Holds(t, n)) /\ (\A s \in Sessions : ~Owns(s, n))
         => Holder(n) = NoSession

LEMMA HolderIs == SoleHolder => HolderNamed
<1> SUFFICES ASSUME SoleHolder, NEW n \in JobNum
             PROVE  /\ \A t \in Threads : Holds(t, n) => Holder(n) = t
                    /\ \A s \in Sessions : Owns(s, n) => Holder(n) = s
                    /\ (\A t \in Threads : ~Holds(t, n))
                         /\ (\A s \in Sessions : ~Owns(s, n))
                         => Holder(n) = NoSession
  BY DEF HolderNamed
<1>1. ASSUME NEW t \in Threads, Holds(t, n) PROVE Holder(n) = t
  BY <1>1 DEF Holder, SoleHolder
<1>2. ASSUME NEW s \in Sessions, Owns(s, n) PROVE Holder(n) = s
  BY <1>2 DEF Holder, SoleHolder
<1>3. QED
  BY <1>1, <1>2 DEF Holder

LEMMA HolderIsNext == SoleHolder' => HolderNamed'
BY HolderIs, PTL

(* The same holders before and after: the same name before and after. *)
LEMMA HolderSame ==
  ASSUME HolderNamed, HolderNamed', NEW n \in JobNum,
         \A v \in Threads : Holds(v, n)' <=> Holds(v, n),
         \A r \in Sessions : Owns(r, n)' <=> Owns(r, n)
  PROVE  Holder(n)' = Holder(n)
<1>1. ASSUME NEW t \in Threads, Holds(t, n) PROVE Holder(n)' = Holder(n)
  BY <1>1 DEF HolderNamed
<1>2. ASSUME NEW s \in Sessions, Owns(s, n) PROVE Holder(n)' = Holder(n)
  BY <1>2 DEF HolderNamed
<1>3. ASSUME \A t \in Threads : ~Holds(t, n), \A s \in Sessions : ~Owns(s, n)
      PROVE  Holder(n)' = Holder(n)
  BY <1>3 DEF HolderNamed
<1>4. QED
  BY <1>1, <1>2, <1>3

(* One number changes hands. *)
LEMMA HolderMoves ==
  ASSUME NEW n \in JobNum, NEW h, Holder(n)' = h,
         \A m \in JobNum : m # n => Holder(m)' = Holder(m)
  PROVE  HolderOf' = [HolderOf EXCEPT ![n] = h]
BY DEF HolderOf

LEMMA GrantedStep ==
  ASSUME JobInv, HolderNamed, HolderNamed',
         NEW t \in Threads, NEW n \in JobNum, Granted(t, n)
  PROVE  Table!Next
<1>1. /\ \A v \in Threads : ~Holds(v, n)
      /\ \A s \in Sessions : ~Owns(s, n)
  BY FreeUnheld DEF Granted, LowestFree
<1>2. Holder(n) = NoSession
  BY <1>1 DEF HolderNamed
<1>3. ASSUME NEW m \in 1..(n - 1) PROVE m \in JobNum /\ Holder(m) # NoSession
  <2>1. m \in JobNum /\ jobs[m].used
    BY <1>3, JobsAssumption DEF Granted, LowestFree, JobNum
  <2>2. QED
    BY <2>1, JobsAssumption DEF JobInv, SlotsHeld, HolderNamed, Threads
<1>4. ASSUME NEW m \in JobNum PROVE Holder(m) # t
  <2>1. ~Holds(t, m)
    BY DEF Granted, Holds
  <2>2. QED
    BY <2>1, JobsAssumption DEF HolderNamed, Threads
<1>5. Holder(n)' = t
  BY DEF Granted, HolderNamed
<1>6. ASSUME NEW m \in JobNum, m # n PROVE Holder(m)' = Holder(m)
  BY <1>6, HolderSame DEF Granted
<1>7. HolderOf' = [HolderOf EXCEPT ![n] = t]
  BY <1>5, <1>6, HolderMoves
<1>8. Table!Grant(t, n)
  BY <1>2, <1>3, <1>4, <1>7
  DEF Table!Grant, Table!Free, Table!Numbers, HolderOf, JobNum
<1>9. QED
  BY <1>8 DEF Table!Next, Table!Numbers, JobNum

LEMMA BoundStep ==
  ASSUME JobInv, HolderNamed, HolderNamed', NEW t \in Threads,
         NEW n \in JobNum, NEW s \in Sessions, Bound(t, n, s)
  PROVE  Table!Next
<1>1. Holder(n) = t
  BY DEF Bound, HolderNamed
<1>2. ASSUME NEW m \in JobNum PROVE Holder(m) # s
  <2>1. ~Owns(s, m)
    BY DEF Bound, Owns
  <2>2. QED
    BY <2>1, JobsAssumption DEF HolderNamed, Threads
<1>3. Holder(n)' = s
  BY DEF Bound, HolderNamed
<1>4. ASSUME NEW m \in JobNum, m # n PROVE Holder(m)' = Holder(m)
  <2>1. ~Holds(t, m)
    BY <1>4 DEF Bound, Holds
  <2>2. /\ \A v \in Threads : Holds(v, m)' <=> Holds(v, m)
        /\ \A r \in Sessions : Owns(r, m)' <=> Owns(r, m)
    BY <1>4, <2>1 DEF Bound
  <2>3. QED
    BY <2>2, HolderSame
<1>5. HolderOf' = [HolderOf EXCEPT ![n] = s]
  BY <1>3, <1>4, HolderMoves
<1>6. Table!Bind(n, s)
  BY <1>1, <1>2, <1>5 DEF Table!Bind, Table!Numbers, HolderOf, JobNum
<1>7. QED
  BY <1>6 DEF Table!Next, Table!Numbers, JobNum

LEMMA ReturnedStep ==
  ASSUME JobInv, HolderNamed, HolderNamed',
         NEW n \in JobNum, NEW s \in Sessions, Returned(n, s)
  PROVE  Table!Next
<1>1. Holder(n) = s
  BY DEF Returned, HolderNamed
<1>2. /\ \A v \in Threads : ~Holds(v, n)'
      /\ \A r \in Sessions : ~Owns(r, n)'
  BY DEF Returned, JobInv, SoleHolder
<1>3. Holder(n)' = NoSession
  BY <1>2 DEF HolderNamed
<1>4. ASSUME NEW m \in JobNum, m # n PROVE Holder(m)' = Holder(m)
  <2>1. ~Owns(s, m)
    BY <1>4 DEF Returned, Owns
  <2>2. /\ \A v \in Threads : Holds(v, m)' <=> Holds(v, m)
        /\ \A r \in Sessions : Owns(r, m)' <=> Owns(r, m)
    BY <2>1 DEF Returned
  <2>3. QED
    BY <2>2, HolderSame
<1>5. HolderOf' = [HolderOf EXCEPT ![n] = NoSession]
  BY <1>3, <1>4, HolderMoves
<1>6. Table!Return(n)
  BY <1>1, <1>5 DEF Table!Return, HolderOf
<1>7. QED
  BY <1>6 DEF Table!Next, Table!Numbers, JobNum

LEMMA TableStep ==
  ASSUME JobInv, JobInv', Moved
  PROVE  [Table!Next]_HolderOf
<1>1. HolderNamed /\ HolderNamed'
  BY HolderIs, HolderIsNext DEF JobInv
<1>2. CASE SameHolders
  <2>1. \A n \in JobNum : Holder(n)' = Holder(n)
    BY <1>1, <1>2, HolderSame DEF SameHolders
  <2>2. QED
    BY <2>1 DEF HolderOf
<1>3. QED
  BY <1>1, <1>2, GrantedStep, BoundStep, ReturnedStep DEF Moved

LEMMA TableInit == Init => Table!Init
<1> SUFFICES ASSUME Init PROVE Table!Init
  OBVIOUS
<1>1. JobInv /\ HolderNamed
  BY JobInit, HolderIs DEF JobInv
<1>2. \A n \in JobNum : ~jobs[n].used
  BY DEF Init, FreeSlot
<1>3. \A n \in JobNum : Holder(n) = NoSession
  BY <1>1, <1>2 DEF JobInv, SlotsHeld, HolderNamed
<1>4. QED
  BY <1>3 DEF Table!Init, Table!Numbers, HolderOf, JobNum

(* The job table with its two registries, the sessions and the goroutines  *)
(* implements the abstract table: whatever HELLO, BYE, DETACH, ATTACH,     *)
(* SUBMIT and PK children do, a number is granted lowest first, bound once *)
(* and returned once.                                                      *)
THEOREM JobsImplementTable ==
  ASSUME "hangup" \notin Ops
  PROVE  Spec => TableSpec
<1>1. Init => Table!Init
  BY TableInit
<1>2. (JobInv /\ Marked) /\ (JobInv /\ Marked)' /\ [Next]_vars
        => [Table!Next]_HolderOf
  BY StepMoves, TableStep
<1>3. QED
  BY <1>1, <1>2, JobsMarked, PTL DEF Spec, TableSpec, Table!Spec
=============================================================================
