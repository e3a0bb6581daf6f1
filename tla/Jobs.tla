-------------------------------- MODULE Jobs --------------------------------
(***************************************************************************)
(* The job table and the sessions that live in it: system.go Attach and    *)
(* Detach, the shells and parked registries of jobs.go, the loop of        *)
(* runOnTerm that carries a terminal line from one session to the next,    *)
(* Shell.Run with its deferred clean-up, and the keyboard commands that    *)
(* start, end, move or count jobs: HELLO, BYE, DETACH, ATTACH, SUBMIT,     *)
(* HANGUP, DELETE/ACCOUNT, OPEN "PKn:" and SYS -14/-15.                    *)
(*                                                                         *)
(* Every terminal line, batch job and pseudo-keyboard child is a goroutine *)
(* (a thread below).  sys.mu is held for one critical section at a time,   *)
(* so an operation that takes it twice is two actions here, and anything   *)
(* may happen between them.                                                *)
(***************************************************************************)
EXTENDS Integers, FiniteSets

CONSTANTS
  Lines,      \* terminal lines: console, Telnet connections, serial lines
  Workers,    \* goroutines started for SUBMIT jobs and PK children
  Sessions,   \* *Shell values, a bound on those in use at once
  Accounts,   \* accounts [p,pn]
  Privileged, \* those with privilege, [1,*]
  Library,    \* [1,2] and [1,9], which cannot be deleted
  JobQuota,   \* logged-in job quota of each account, 0 for no limit
  Units,      \* pseudo-keyboard units
  MaxUsers,   \* Config.MaxUsers
  Console,    \* the line that is the local console
  Ops,        \* the keyboard commands in use
  NoSession, NoAccount, NoUnit

ASSUME JobsAssumption ==
  /\ MaxUsers \in Nat \ {0}
  /\ Lines \cap Workers = {}
  /\ NoSession \notin Sessions /\ Sessions \cap (Lines \cup Workers) = {}
  /\ NoSession \notin Lines \cup Workers
  /\ NoAccount \notin Accounts
  /\ NoUnit \notin Units
  /\ JobQuota \in [Accounts -> Nat]

Threads == Lines \cup Workers
JobNum == 1..MaxUsers

(* The places where a thread can stand between two critical sections. *)
Window == {"attached", "submitted", "pkAttached", "pkPublished"}
Serving == {"run", "login", "hangup", "hangupLook", "hangupDetach", "delete",
            "submitted", "pkAttached", "pkPublished"}
PC == Window \cup Serving \cup {"idle", "ending", "ended", "left", "bind"}

VARIABLES
  jobs,     \* sys.jobs, a slot for each job number
  shells,   \* sys.shells
  parked,   \* sys.parked
  pkInUse,  \* sys.pkInUse
  accounts, \* accounts in the account file
  noLogins, \* sys.noLogins
  sess,     \* the fields of each Shell
  pc,       \* where each thread stands
  cur,      \* the session a thread is running
  num,      \* the job number a thread has attached but given no session yet
  req       \* the other locals of a thread

table == <<jobs, shells, parked>>
sys   == <<pkInUse, accounts, noLogins>>
vars  == <<jobs, shells, parked, pkInUse, accounts, noLogins,
           sess, pc, cur, num, req>>

Slot == [used : BOOLEAN, detached : BOOLEAN,
         who : Accounts \cup {NoAccount}, owner : Accounts \cup {NoAccount},
         ownerJob : 0..MaxUsers, unit : Units \cup {NoUnit}]
FreeSlot == [used |-> FALSE, detached |-> FALSE, who |-> NoAccount,
             owner |-> NoAccount, ownerJob |-> 0, unit |-> NoUnit]
NewJob == [FreeSlot EXCEPT !.used = TRUE]

Shell == [job : JobNum, kb : JobNum, acct : Accounts \cup {NoAccount},
          running : BOOLEAN, parked : BOOLEAN, attachTo : 0..MaxUsers,
          console : BOOLEAN]
NewShell(n) == [job |-> n, kb |-> n, acct |-> NoAccount, running |-> TRUE,
                parked |-> FALSE, attachTo |-> 0, console |-> FALSE]

Locals == [job : 0..MaxUsers, kb : JobNum, acct : Accounts \cup {NoAccount},
           unit : Units \cup {NoUnit}]
NoLocals == [job |-> 0, kb |-> 1, acct |-> NoAccount, unit |-> NoUnit]

TypeOK ==
  /\ jobs \in [JobNum -> Slot]
  /\ shells \in [JobNum -> Sessions \cup {NoSession}]
  /\ parked \in [JobNum -> Sessions \cup {NoSession}]
  /\ pkInUse \subseteq Units
  /\ accounts \subseteq Accounts
  /\ noLogins \in BOOLEAN
  /\ sess \in [Sessions -> Shell]
  /\ pc \in [Threads -> PC]
  /\ cur \in [Threads -> Sessions \cup {NoSession}]
  /\ num \in [Threads -> 0..MaxUsers]
  /\ req \in [Threads -> Locals]
  /\ \A t \in Threads :
       /\ pc[t] \in Window => num[t] # 0
       /\ cur[t] # NoSession <=> pc[t] \in Serving \cup {"ending", "bind"}
       /\ pc[t] \in {"hangup", "hangupLook", "hangupDetach"} => req[t].job # 0

Init ==
  /\ jobs = [n \in JobNum |-> FreeSlot]
  /\ shells = [n \in JobNum |-> NoSession]
  /\ parked = [n \in JobNum |-> NoSession]
  /\ pkInUse = {}
  /\ accounts = Accounts
  /\ noLogins = FALSE
  /\ sess = [s \in Sessions |-> NewShell(1)]
  /\ pc = [t \in Threads |-> "idle"]
  /\ cur = [t \in Threads |-> NoSession]
  /\ num = [t \in Threads |-> 0]
  /\ req = [t \in Threads |-> NoLocals]

-----------------------------------------------------------------------------
(* Helpers. *)

Goto(t, place) == pc' = [pc EXCEPT ![t] = place]

(* Mutants, here and below: a job that is Det taken for free; any free slot *)
(* instead of the lowest.                                                 *)
DetIsFree(n) ==
  /\ n \in JobNum
  /\ jobs[n].used => jobs[n].detached
  /\ \A m \in 1..(n - 1) : jobs[m].used
AnyFree(n) == n \in JobNum /\ ~jobs[n].used

(* The slot Attach gives out: the lowest job number that is free. *)
LowestFree(n) ==
  /\ n \in JobNum
  /\ ~jobs[n].used
  /\ \A m \in 1..(n - 1) : jobs[m].used

TableFull == \A n \in JobNum : jobs[n].used

(* A new Shell: no goroutine and no registry holds it. *)
Fresh(s) ==
  /\ \A t \in Threads : cur[t] # s
  /\ \A n \in JobNum : shells[n] # s /\ parked[n] # s

(* The session at its prompt: the thread runs it and it has not stopped. *)
AtPrompt(t) == pc[t] = "run" /\ sess[cur[t]].running
Account(t) == sess[cur[t]].acct
LoggedIn(t) == AtPrompt(t) /\ Account(t) # NoAccount
Priv(t) == Account(t) \in Privileged

(* Mutant: the parked sessions and the owner of the slot forgotten. *)
ActiveJobsForPPN(a) ==
  {n \in JobNum : shells[n] # NoSession /\ sess[shells[n]].acct = a}

(* jobsForPPN: the jobs that count as logged in to account a. *)
JobsForPPN(a) ==
  {n \in JobNum :
     \/ jobs[n].used /\ a \in {jobs[n].who, jobs[n].owner}
     \/ shells[n] # NoSession /\ sess[shells[n]].acct = a
     \/ parked[n] # NoSession /\ sess[parked[n]].acct = a}

(* The bound on goroutines: SUBMIT and OPEN "PK:" start one, so they are   *)
(* only taken while an idle one is left for each start under way.         *)
SpareWorker ==
  Cardinality({t \in Threads : pc[t] \in Window \ {"attached"}})
    < Cardinality({w \in Workers : pc[w] = "idle"})

(* newSession registers the shell under its job number and syncJob marks  *)
(* the slot, whoever it belongs to by now.                                *)
SyncJob(n, a) ==
  IF jobs[n].used THEN [jobs EXCEPT ![n].who = a] ELSE jobs

-----------------------------------------------------------------------------
(* Lines: a connection is attached, given a session, and later another.    *)

AttachAs(t, n, slot, place) ==
  /\ LowestFree(n)
  /\ jobs' = [jobs EXCEPT ![n] = slot]
  /\ num' = [num EXCEPT ![t] = n]
  /\ Goto(t, place)

StartShell(t, w, s, a) ==
  /\ Fresh(s)
  /\ sess' = [sess EXCEPT ![s] =
       [NewShell(num[t]) EXCEPT !.acct = a, !.console = (w = Console)]]
  /\ shells' = [shells EXCEPT ![num[t]] = s]
  /\ jobs' = SyncJob(num[t], a)
  /\ cur' = [cur EXCEPT ![w] = s]
  /\ num' = [num EXCEPT ![t] = 0]

(* handleTelnet, serveSerial, the console: Attach, or refuse when full. *)
Connect(l) ==
  /\ pc[l] = "idle"
  /\ \E n \in JobNum : AttachAs(l, n, NewJob, "attached")
  /\ UNCHANGED <<shells, parked, sys, sess, cur, req>>

StartSession(l) ==
  /\ pc[l] = "attached"
  /\ \E s \in Sessions : StartShell(l, l, s, NoAccount)
  /\ Goto(l, "run")
  /\ UNCHANGED <<parked, sys, req>>

(* End of file at any prompt, BYE before HELLO, or BYE/EXIT. *)
Quit(t) ==
  /\ AtPrompt(t)
  /\ sess' = [sess EXCEPT ![cur[t]].running = FALSE]
  /\ UNCHANGED <<table, sys, pc, cur, num, req>>

(* Mutant: the parked session left among the running ones. *)
ParkAndKeep(t) ==
  /\ pc[t] = "run"
  /\ ~sess[cur[t]].running /\ sess[cur[t]].parked
  /\ LET n == sess[cur[t]].job IN
       /\ jobs' = [jobs EXCEPT ![n].detached = jobs[n].used]
       /\ parked' = [parked EXCEPT ![n] = cur[t]]
  /\ cur' = [cur EXCEPT ![t] = NoSession]
  /\ Goto(t, "left")
  /\ UNCHANGED <<shells, sys, sess, num, req>>

(* Run's deferred clean-up, the parked branch. *)
ParkShell(t) ==
  /\ pc[t] = "run"
  /\ ~sess[cur[t]].running /\ sess[cur[t]].parked
  /\ LET n == sess[cur[t]].job IN
       /\ jobs' = [jobs EXCEPT ![n].detached = jobs[n].used]
       /\ parked' = [parked EXCEPT ![n] = cur[t]]
       /\ shells' = [shells EXCEPT ![n] = NoSession]
  /\ cur' = [cur EXCEPT ![t] = NoSession]
  /\ Goto(t, "left")
  /\ UNCHANGED <<sys, sess, num, req>>

(* Mutant: no clean-up for a session that leaves by ATTACH. *)
UnregisterUnlessAttach(t) ==
  /\ pc[t] = "run"
  /\ ~sess[cur[t]].running /\ ~sess[cur[t]].parked /\ sess[cur[t]].attachTo = 0
  /\ shells' = [shells EXCEPT ![sess[cur[t]].job] = NoSession]
  /\ Goto(t, "ending")
  /\ UNCHANGED <<jobs, parked, sys, sess, cur, num, req>>

(* The other branch: CloseAllFiles, unregisterShell, and then Detach. *)
UnregisterShell(t) ==
  /\ pc[t] = "run"
  /\ ~sess[cur[t]].running /\ ~sess[cur[t]].parked
  /\ LET n == sess[cur[t]].job IN
       shells' = [shells EXCEPT ![n] = IF @ = cur[t] THEN NoSession ELSE @]
  /\ Goto(t, "ending")
  /\ UNCHANGED <<jobs, parked, sys, sess, cur, num, req>>

Detach(t) ==
  /\ pc[t] = "ending"
  /\ LET s == sess[cur[t]] IN
       /\ jobs' = [jobs EXCEPT ![s.job] = FreeSlot]
       /\ req' = [req EXCEPT ![t] =
            [@ EXCEPT !.job = s.attachTo, !.kb = s.kb, !.acct = s.acct]]
  /\ sess' = [sess EXCEPT ![cur[t]] = NewShell(1)]    \* garbage from here on
  /\ cur' = [cur EXCEPT ![t] = NoSession]
  /\ Goto(t, "ended")
  /\ UNCHANGED <<shells, parked, sys, num>>

(* runOnTerm after Run: a line whose session parked, or whose ATTACH found *)
(* nothing, gets another job, or is dropped when the table is full.        *)
Reattach(l) ==
  /\ pc[l] = "left"
  /\ \E n \in JobNum : AttachAs(l, n, NewJob, "attached")
  /\ UNCHANGED <<shells, parked, sys, sess, cur, req>>

(* Mutant: a line whose session parked waits for a slot. *)
DropNever(l) ==
  /\ pc[l] = "ended" /\ req[l].job = 0
  /\ Goto(l, "idle")
  /\ req' = [req EXCEPT ![l] = NoLocals]
  /\ UNCHANGED <<table, sys, sess, cur, num>>

Drop(l) ==
  /\ \/ pc[l] = "left" /\ TableFull
     \/ pc[l] = "ended" /\ req[l].job = 0
  /\ Goto(l, "idle")
  /\ req' = [req EXCEPT ![l] = NoLocals]
  /\ UNCHANGED <<table, sys, sess, cur, num>>

(* Mutant: the session stays in the parked registry. *)
CopyParked(n, s) ==
  /\ parked[n] = s
  /\ IF s = NoSession
     THEN UNCHANGED table
     ELSE /\ jobs' = [jobs EXCEPT ![n].detached = FALSE]
          /\ shells' = [shells EXCEPT ![n] = s]
          /\ UNCHANGED parked

(* unpark: the session leaves the parked registry under one lock. *)
TakeParked(n, s) ==
  /\ parked[n] = s
  /\ parked' = [parked EXCEPT ![n] = NoSession]
  /\ IF s = NoSession
     THEN UNCHANGED <<jobs, shells>>
     ELSE /\ jobs' = [jobs EXCEPT ![n].detached = FALSE]
          /\ shells' = [shells EXCEPT ![n] = s]

(* Mutant: the result of unpark not looked at. *)
AttachBlindly(l) ==
  /\ pc[l] = "ended" /\ req[l].job # 0
  /\ \E s \in Sessions \cup {NoSession} :
       /\ TakeParked(req[l].job, s)
       /\ cur' = [cur EXCEPT ![l] = s]
       /\ Goto(l, "bind")
  /\ UNCHANGED <<sys, sess, num, req>>

AttachUnpark(l) ==
  /\ pc[l] = "ended" /\ req[l].job # 0
  /\ \E s \in Sessions \cup {NoSession} :
       /\ TakeParked(req[l].job, s)
       /\ cur' = [cur EXCEPT ![l] = s]
       /\ Goto(l, IF s = NoSession THEN "left" ELSE "bind")
  /\ UNCHANGED <<sys, sess, num, req>>

(* The parked session takes over this terminal and the KB of the session  *)
(* that typed ATTACH.  Attached at the console it becomes the console's;  *)
(* one parked there and attached elsewhere keeps the mark.                *)
AttachBind(l) ==
  /\ pc[l] = "bind"
  /\ sess' = [sess EXCEPT ![cur[l]] =
       [@ EXCEPT !.kb = req[l].kb, !.running = TRUE, !.parked = FALSE,
                 !.console = sess[cur[l]].console \/ l = Console]]
  /\ req' = [req EXCEPT ![l] = NoLocals]
  /\ Goto(l, "run")
  /\ UNCHANGED <<table, sys, cur, num>>

(* A batch job or PK child: its goroutine ends with Run, and a PK child    *)
(* gives its unit back.                                                    *)
WorkerDone(w) ==
  /\ pc[w] \in {"ended", "left"}
  /\ pkInUse' = pkInUse \ {req[w].unit}
  /\ req' = [req EXCEPT ![w] = NoLocals]
  /\ Goto(w, "idle")
  /\ UNCHANGED <<table, accounts, noLogins, sess, cur, num>>

-----------------------------------------------------------------------------
(* Keyboard commands.                                                      *)

(* Login: the password, SYS -14 and the job quota are looked at first ...  *)
LoginCheck(t, a) ==
  /\ "hello" \in Ops
  /\ AtPrompt(t) /\ Account(t) = NoAccount
  /\ a \in accounts
  /\ noLogins => sess[cur[t]].console
  /\ JobQuota[a] > 0 => Cardinality(JobsForPPN(a)) < JobQuota[a]
  /\ req' = [req EXCEPT ![t].acct = a]
  /\ Goto(t, "login")
  /\ UNCHANGED <<table, sys, sess, cur, num>>

(* ... and the session is given the account afterwards. *)
LoginCommit(t) ==
  /\ pc[t] = "login"
  /\ LET n == sess[cur[t]].job
         a == req[t].acct IN
       /\ sess' = [sess EXCEPT ![cur[t]].acct = a]
       /\ jobs' = IF jobs[n].used
                  THEN [jobs EXCEPT ![n] = [@ EXCEPT !.owner = a, !.who = a]]
                  ELSE jobs
  /\ req' = [req EXCEPT ![t].acct = NoAccount]
  /\ Goto(t, "run")
  /\ UNCHANGED <<shells, parked, sys, cur, num>>

Bye(t) ==
  /\ "bye" \in Ops
  /\ LoggedIn(t)
  /\ sess' = [sess EXCEPT ![cur[t]].acct = NoAccount]
  /\ jobs' = SyncJob(sess[cur[t]].job, NoAccount)
  /\ UNCHANGED <<shells, parked, sys, pc, cur, num, req>>

DetachCommand(t) ==
  /\ "detach" \in Ops
  /\ LoggedIn(t)
  /\ sess' = [sess EXCEPT ![cur[t]] =
       [@ EXCEPT !.parked = TRUE, !.running = FALSE]]
  /\ UNCHANGED <<table, sys, pc, cur, num, req>>

(* Whether the slot of job n lets the account a attach to it. *)
MayAttach(n, a) ==
  \/ a \in Privileged
  \/ jobs[n].owner = NoAccount
  \/ a \in {jobs[n].owner, jobs[n].who}

AttachCommand(t, n) ==
  /\ "attach" \in Ops
  /\ LoggedIn(t)
  /\ jobs[n].used /\ jobs[n].detached
  /\ MayAttach(n, Account(t))
  /\ sess' = [sess EXCEPT ![cur[t]] =
       [@ EXCEPT !.attachTo = n, !.running = FALSE]]
  /\ UNCHANGED <<table, sys, pc, cur, num, req>>

(* SUBMIT: Attach, the marks on the new slot, then a session that is      *)
(* already logged in and a goroutine to run it.  The marks follow Attach  *)
(* outside the lock; they are folded into it here.                        *)
SubmitAttach(t) ==
  /\ "submit" \in Ops
  /\ LoggedIn(t) /\ SpareWorker
  /\ \E n \in JobNum :
       AttachAs(t, n, [NewJob EXCEPT !.detached = TRUE, !.who = Account(t),
                                     !.owner = Account(t)], "submitted")
  /\ UNCHANGED <<shells, parked, sys, sess, cur, req>>

SubmitStart(t, w) ==
  /\ pc[t] = "submitted" /\ pc[w] = "idle"
  /\ \E s \in Sessions : StartShell(t, w, s, sess[cur[t]].acct)
  /\ pc' = [pc EXCEPT ![t] = "run", ![w] = "run"]
  /\ UNCHANGED <<parked, sys, req>>

(* OPEN "PKu:": allocPK, Attach, replaceJob, newSession.  A full table     *)
(* gives the unit back, which leaves nothing changed.                     *)
PKAttach(t, u) ==
  /\ "pk" \in Ops
  /\ LoggedIn(t) /\ SpareWorker
  /\ u \notin pkInUse
  /\ pkInUse' = pkInUse \cup {u}
  /\ \E n \in JobNum : AttachAs(t, n, NewJob, "pkAttached")
  /\ req' = [req EXCEPT ![t].unit = u]
  /\ UNCHANGED <<shells, parked, accounts, noLogins, sess, cur>>

(* Mutant: the slot replaced by one that is not marked used. *)
ReplaceByFree(t) ==
  /\ pc[t] = "pkAttached"
  /\ jobs' = [jobs EXCEPT ![num[t]] =
       [FreeSlot EXCEPT !.unit = req[t].unit, !.owner = Account(t),
                        !.ownerJob = sess[cur[t]].job]]
  /\ Goto(t, "pkPublished")
  /\ UNCHANGED <<shells, parked, sys, sess, cur, num, req>>

ReplaceJob(t) ==
  /\ pc[t] = "pkAttached"
  /\ jobs' = [jobs EXCEPT ![num[t]] =
       [NewJob EXCEPT !.unit = req[t].unit, !.owner = Account(t),
                      !.ownerJob = sess[cur[t]].job]]
  /\ Goto(t, "pkPublished")
  /\ UNCHANGED <<shells, parked, sys, sess, cur, num, req>>

PKStart(t, w) ==
  /\ pc[t] = "pkPublished" /\ pc[w] = "idle"
  /\ \E s \in Sessions : StartShell(t, w, s, NoAccount)
  /\ pc' = [pc EXCEPT ![t] = "run", ![w] = "run"]
  /\ req' = [req EXCEPT ![t].unit = NoUnit,
                        ![w] = [NoLocals EXCEPT !.unit = req[t].unit]]
  /\ UNCHANGED <<parked, sys>>

(* HANGUP n: cmdHangup and FindJob, then HangupJob's three lookups.  SYS -1 *)
(* hangs up the session's own job and needs no privilege.                 *)
HangupFind(t, n) ==
  /\ "hangup" \in Ops
  /\ LoggedIn(t)
  /\ jobs[n].used
  /\ \/ Priv(t)
     \/ sess[cur[t]].job \in {n, jobs[n].ownerJob}
  /\ req' = [req EXCEPT ![t].job = n]
  /\ Goto(t, "hangup")
  /\ UNCHANGED <<table, sys, sess, cur, num>>

(* A parked session is taken off the registry, into shells, and its job   *)
(* removed; otherwise the running session is looked for.                  *)
HangupUnpark(t) ==
  /\ pc[t] = "hangup"
  /\ \E s \in Sessions \cup {NoSession} :
       /\ TakeParked(req[t].job, s)
       /\ Goto(t, IF s = NoSession THEN "hangupLook" ELSE "hangupDetach")
  /\ UNCHANGED <<sys, sess, cur, num, req>>

HangupLook(t) ==
  /\ pc[t] = "hangupLook"
  /\ LET n == req[t].job
         s == shells[n] IN
       \/ /\ jobs[n].unit # NoUnit         \* the link is marked dead
          /\ Goto(t, "run")
          /\ req' = [req EXCEPT ![t].job = 0]
          /\ UNCHANGED sess
       \/ /\ jobs[n].unit = NoUnit /\ s = NoSession
          /\ Goto(t, "hangupDetach")
          /\ UNCHANGED <<sess, req>>
       \/ /\ jobs[n].unit = NoUnit /\ s # NoSession
          /\ sess' = [sess EXCEPT ![s].running = FALSE]
          /\ Goto(t, "run")
          /\ req' = [req EXCEPT ![t].job = 0]
  /\ UNCHANGED <<table, sys, cur, num>>

HangupDetach(t) ==
  /\ pc[t] = "hangupDetach"
  /\ jobs' = [jobs EXCEPT ![req[t].job] = FreeSlot]
  /\ req' = [req EXCEPT ![t].job = 0]
  /\ Goto(t, "run")
  /\ UNCHANGED <<shells, parked, sys, sess, cur, num>>

(* DELETE/ACCOUNT: the account must not be in use; then it is removed. *)
DeleteCheck(t, a) ==
  /\ "delete" \in Ops
  /\ LoggedIn(t) /\ Priv(t)
  /\ a \in accounts \ Library
  /\ a # Account(t)
  /\ JobsForPPN(a) = {}
  /\ req' = [req EXCEPT ![t].acct = a]
  /\ Goto(t, "delete")
  /\ UNCHANGED <<table, sys, sess, cur, num>>

DeleteCommit(t) ==
  /\ pc[t] = "delete"
  /\ accounts' = accounts \ {req[t].acct}
  /\ req' = [req EXCEPT ![t].acct = NoAccount]
  /\ Goto(t, "run")
  /\ UNCHANGED <<table, pkInUse, noLogins, sess, cur, num>>

(* SYS -14 disables logins and SYS -15 enables them. *)
SetLogins(t) ==
  /\ "logins" \in Ops
  /\ LoggedIn(t) /\ Priv(t)
  /\ noLogins' = ~noLogins
  /\ UNCHANGED <<table, pkInUse, accounts, sess, pc, cur, num, req>>

-----------------------------------------------------------------------------
Command(t) ==
  \/ \E a \in Accounts : LoginCheck(t, a) \/ DeleteCheck(t, a)
  \/ \E n \in JobNum : AttachCommand(t, n) \/ HangupFind(t, n)
  \/ \E u \in Units : PKAttach(t, u)
  \/ Quit(t) \/ Bye(t) \/ DetachCommand(t) \/ SubmitAttach(t) \/ SetLogins(t)

Continue(t) ==
  \/ LoginCommit(t) \/ DeleteCommit(t)
  \/ HangupUnpark(t) \/ HangupLook(t) \/ HangupDetach(t)
  \/ ReplaceJob(t)
  \/ \E w \in Workers : SubmitStart(t, w) \/ PKStart(t, w)
  \/ ParkShell(t) \/ UnregisterShell(t) \/ Detach(t)

LineStep(l) ==
  \/ StartSession(l) \/ Reattach(l) \/ Drop(l)
  \/ AttachUnpark(l) \/ AttachBind(l)

Next ==
  \/ \E t \in Threads : Command(t) \/ Continue(t)
  \/ \E l \in Lines : Connect(l) \/ LineStep(l)
  \/ \E w \in Workers : WorkerDone(w)

Spec == Init /\ [][Next]_vars

-----------------------------------------------------------------------------
(* Properties.                                                             *)

(* A thread holds a job number from Attach until the session exists; a    *)
(* session is live while a thread runs it or the parked registry keeps it. *)
Holds(t, n) == pc[t] \in Window /\ num[t] = n
Live(s) == \/ \E t \in Threads : cur[t] = s
           \/ \E n \in JobNum : parked[n] = s
Owns(s, n) == Live(s) /\ sess[s].job = n

(* No job number is given to two terminals: a number belongs to at most   *)
(* one attaching thread or live session, across DETACH, ATTACH, SUBMIT    *)
(* and PK children (Attach, Detach and runOnTerm work on bare numbers).   *)
SoleHolder == \A n \in JobNum :
  /\ \A t, u \in Threads : Holds(t, n) /\ Holds(u, n) => t = u
  /\ \A s, r \in Sessions : Owns(s, n) /\ Owns(r, n) => s = r
  /\ \A t \in Threads, s \in Sessions : ~(Holds(t, n) /\ Owns(s, n))

(* A slot of the job table is used exactly while somebody holds its       *)
(* number: no slot leaks when a line is dropped, a session parks or a PK   *)
(* child ends, and no live session is missing from the table.             *)
SlotsHeld == \A n \in JobNum :
  jobs[n].used <=> \/ \E t \in Threads : Holds(t, n)
                   \/ \E s \in Sessions : Owns(s, n)

(* A session is run by one goroutine or is parked once, never both, even  *)
(* when two ATTACHes and a HANGUP race for it (unpark is the arbiter).    *)
ServedOnce == \A s \in Sessions :
  /\ \A t, u \in Threads : cur[t] = s /\ cur[u] = s => t = u
  /\ \A n, m \in JobNum : parked[n] = s /\ parked[m] = s => n = m
  /\ \A t \in Threads, n \in JobNum : ~(cur[t] = s /\ parked[n] = s)

(* The registries agree with the sessions: a session that is running can  *)
(* be found under its job number by FORCE, HANGUP and the quota count; a   *)
(* parked one is found there and only there, and its slot says Det.       *)
Registered ==
  /\ \A t \in Threads : cur[t] # NoSession /\ pc[t] # "ending" =>
       shells[sess[cur[t]].job] = cur[t]
  /\ \A n \in JobNum :
       /\ shells[n] # NoSession => Owns(shells[n], n)
       /\ parked[n] # NoSession =>
            /\ Owns(parked[n], n)
            /\ shells[n] = NoSession
            /\ jobs[n].detached

(* The four together are inductive as long as nobody uses HANGUP: a session *)
(* between unregisterShell and Detach is in neither registry, so nobody    *)
(* else can reach it there and its number is returned once, by the         *)
(* goroutine that ran it.                                                  *)
JobInv ==
  /\ TypeOK /\ SoleHolder /\ SlotsHeld /\ ServedOnce /\ Registered
  /\ \A t \in Threads :
       /\ pc[t] \notin {"hangup", "hangupLook", "hangupDetach"}
       /\ pc[t] = "ending" => shells[sess[cur[t]].job] = NoSession

(* The jobs that really are logged in to account a. *)
LoggedInJobs(a) == {sess[s].job : s \in {r \in Sessions :
                                          Live(r) /\ sess[r].acct = a}}

(* jobsForPPN misses no session: whoever is logged in, running, parked,    *)
(* on a batch job, between two terminals or just being cleaned up, is      *)
(* counted by the quota check and keeps the account from being deleted.   *)
SeesLoggedIn == \A a \in Accounts : LoggedInJobs(a) \subseteq JobsForPPN(a)

(* README.md:104: a line that is answered gets a job of its own: the      *)
(* lowest free number, held by that line alone until it is returned.  The *)
(* job table is the abstract table of module JobTable.                    *)
Holder(n) ==
  IF \E t \in Threads : Holds(t, n) THEN CHOOSE t \in Threads : Holds(t, n)
  ELSE IF \E s \in Sessions : Owns(s, n) THEN CHOOSE s \in Sessions : Owns(s, n)
  ELSE NoSession
HolderOf == [n \in JobNum |-> Holder(n)]
Table == INSTANCE JobTable WITH
           Nobody <- NoSession, Openers <- Threads, holder <- HolderOf
TableSpec == Table!Spec

-----------------------------------------------------------------------------
(* Fairness: the Go scheduler runs every goroutine that is not waiting for *)
(* input, and waits on sys.mu are bounded.                                 *)
Fairness ==
  /\ \A t \in Threads : WF_vars(Continue(t))
  /\ \A l \in Lines : WF_vars(LineStep(l))
  /\ \A w \in Workers : WF_vars(WorkerDone(w))
FairSpec == Spec /\ Fairness

(* A line that leaves a session by DETACH or ATTACH is not left hanging:  *)
(* it runs a session again, or is dropped because the table is full.      *)
LineServed == \A l \in Lines :
  pc[l] \in {"ended", "left"} ~> \/ pc[l] = "idle"
                                 \/ cur[l] # NoSession /\ pc[l] = "run"

(* A session whose user has left it is parked or out of the table for     *)
(* good in the end: no slot stays half removed.                           *)
EndsClean == \A s \in Sessions :
  (\E t \in Threads : cur[t] = s /\ pc[t] = "run" /\ ~sess[s].running)
    ~> ~\E t \in Threads : cur[t] = s /\ ~sess[s].running
=============================================================================
