# A verification project for the RSTS/E V7.2 lookalike

The program is a timesharing system in one Go process: terminal lines, batch
jobs and pseudo-keyboards are goroutines that share a `System` (job table,
session registries, keyboard assignments, disk, queues) under one mutex,
`sys.mu`, which is taken for one short critical section at a time.  What is
hard about it is hardly ever inside a critical section.  It is what happens
between two of them: a bare job number or channel that is used long after the
lock that produced it was released.  What outlives the process, the disk's
indexes, the packs, the queue and the accounts, is in files that are written as a
whole and can be lost in the middle of a write.  The rest of the program is two
languages: BASIC, compiled for a virtual machine whose programs stop, continue,
chain and are interrupted, and Pascal, with a parser, a checker, an evaluator and a
P-code machine.  The modules here model those protocols and machines, check them
with TLC on small systems and prove the main properties with TLAPS.

## 1. The system

| Component | State | Operations | Talks to |
|---|---|---|---|
| Job table (`system.go`) | `jobs`, `SysStats`, `pkInUse`, `noLogins` | `Attach`, `Detach`, `FindJob`, `allocPK`, `freePK` | everybody, by job number |
| Sessions (`shell.go`, `jobs.go`) | one `Shell` per session, the `shells` and `parked` registries, the locals of `runOnTerm` | `newSession`, `Run` and its deferred clean-up, HELLO, BYE, DETACH, ATTACH, SUBMIT, HANGUP, FORCE, BROADCAST, SHUTUP | the table, the registries, the line |
| Keyboard assignment (`system.go`, `chardev.go`, `telnet.go`) | `kbOwner`, the taken flag of a line, the `done` and `parked` channels of an assignment | OPEN and CLOSE of `KBn:`, `takeKB`, `dropKB`, `releaseKBForJob`, `waitIfAssigned` | sessions of two jobs |
| Files (`filesystem.go`, `v7lang.go`, `plus.go`) | the file index, exclusive claims, open counts, record locks, the channel table of each job | OPEN, CLOSE, GET, PUT, UNLOCK, KILL, NAME AS | jobs, through claims and locks |
| Packs (`packs.go`) | mounted packs and their folders | INIT, MOUNT, DISMOUNT | files |
| Pseudo-keyboards (`pk.go`) | one `pkLink` per unit: two buffers, a wake channel, flags | OPEN `PKn:`, GET, PUT, CLOSE | the owner's program and the child session |
| Spooler (`queue.go`, `please.go`) | the queue, its file, the operator requests | PRINT, QUEUE, DEQUEUE, the drain | files, terminals |
| Accounts (`accounts.go`, `sys.go`) | the account file, quotas, temporary privilege | create, delete, password, quota checks | sessions, files |
| BASIC at Ready (`interp.go`, `plus.go`, `v7lang.go`) | the program, what STOP paused, the ON ERROR and ^C traps, variables, DATA, channels | RUN, CONT, CHAIN, immediate statements, edits | the VM, files, terminals |
| BASIC compiler and VM (`token.go`, `parser.go`, `pcode*.go`) | code; operand stack and frames (GOSUB, FOR, functions) | compile, one opcode at a time; also COMPILE to a file | the machine state of BASIC at Ready |
| BASIC library (`mat.go`, `using.go`, `strarith.go`) | none | MAT, PRINT USING, string arithmetic | |
| Pascal (`pascal*.go`) | the tree, the checker's scopes, the evaluator's environments, P-code and its stack | compile, run | files, terminals |
| EDIT, RENUM, CCL, CUSPs, RTS/RSX (`edit.go`, `renum.go`, `ccl.go`, `cusp.go`, `rts.go`) | the editor's buffer, the program text, the run-time system of a job | the commands | sessions |
| Transport (`telnet.go`, `serial*.go`, `rawterm.go`) | the IAC parser, line editing, ^C and the forced read | read, write, interrupt | sessions |
| Magtape and character devices (`magtape.go`, `chardev.go`, `chario.go`) | tape position, device files | GET, PUT, MAGTAPE | programs |
| Start-up (`config.go`, `init.go`, `seeds.go`, `samples.go`, `hardware.go`) | none after start-up | | |

### What is hard in it

* **Bare numbers.** `Attach` returns a job number.  The table slot, two
  registries, a goroutine's local variable, the session's own field and the
  owner field of other slots all refer to a job by it, and each is written in a
  critical section of its own.
* **Hand-over.** DETACH and ATTACH move a session between goroutines: the
  goroutine of a line runs session after session, and a parked session has no
  goroutine.  `unpark` decides a race between two ATTACHes and a HANGUP.
* **Check and act.** The job quota, DELETE/ACCOUNT, ATTACH's owner check, file
  claims and disk quotas each look in one critical section and act in another.
* **Waiting on each other.** A keyboard that another job has taken, a record
  lock, an exclusive claim and a pseudo-keyboard buffer are things that one
  job waits for and another must give back, whatever way it ends.
* **Persistence.** Files, their attributes, the queue and the account file are
  saved in separate writes.
* **Language against code.** What the compiler emits must do what the statements
  say, through jumps out of loops, errors in the middle of a line, modifiers and
  functions; Pascal has two executions, which must agree.
* **A session between programs.** STOP, an edit, a line typed at Ready, CHAIN and
  ^C come in any order, and each must leave a machine that CONT or RUN can use.

`PROJECT.json` lists each hazard at its line.

## 2. Modules

| Module | What it is |
|---|---|
| `JobTable` | abstract specification: a table of numbers, each free or with one holder; the lowest free one is given out |
| `Jobs` | `system.go`, `jobs.go` and the keyboard commands that start, end, move or count jobs |
| `MCJobs` | small systems for TLC |
| `JobsProofs` | the theorems about `Jobs` |
| `KBAssign` | `takeKB` to `releaseKBForJob` of `system.go`, with the turn of `shell.go` and OPEN and CLOSE of `KBn:` |
| `MCKBAssign` | three keyboards for TLC |
| `KBAssignProofs` | the theorems about `KBAssign` |
| `Reservations` | abstract specification: what the interlocks of files and records promise to a careful program |
| `FileLocks` | `claimFile` to `unlockRecord` of `filesystem.go`, with the OPEN, GET, PUT, UNLOCK and CLOSE that call them |
| `MCFileLocks` | two jobs, two channels and one file for TLC |
| `FileLocksProofs` | the theorems about `FileLocks` |
| `BasicVM` | the VM of `pcode_vm.go`, opcode by opcode, and the commands that start, stop, continue and replace a program |
| `BasicCode` | the compiler of `pcode_compile.go`, from statements to images |
| `BasicLang` | abstract specification: what a program means, statement by statement, with no code in it |
| `BasicWords`, `BasicParse` | the words of a line and the parser of `parser.go`, from words to statements |
| `BasicText` | the text of a program: the lines that are typed (`interp.go`) and RENUM (`renum.go`) |
| `BasicPrograms` | families of programs for TLC, as they are typed and as they are meant |
| `MCBasic` | the properties that relate text, code and meaning |
| `BasicVMProofs` | the theorems about `BasicVM` |
| `PascalData` | types, values and storage of Pascal, shared by its two executions |
| `PascalParse` | the parser of `pascal_parse.go`, from tokens to the tree |
| `PascalCheck` | the scopes and types of `pascal_check.go` |
| `PascalCode` | the compiler of `pascal_pcompile.go`, from the checked tree to P-code |
| `PascalVM` | the machine of `pascal_pvm.go`, instruction by instruction |
| `Activations` | abstract specification: what the machine promises of procedures: calls, static links, procedures passed as parameters, WITH |
| `ActivationsProofs` | the theorems about `Activations` |
| `PascalEval` | the evaluator of `pascal_eval.go`, which walks the tree |
| `MCPascal` | a family of programs as text for TLC, and the properties that relate the five |
| `Selection` | a selection loop of the code: what it keeps of a sequence (`Without`) |
| `SelectionProofs` | lemmas about `Without` and the sequence operators of the community modules |
| `PKLink` | one pseudo-keyboard of `pk.go`: the controller's program, the job's session and those who disturb them |
| `MCPKLink` | what is sent through a small link |
| `PKLinkProofs` | the theorems about `PKLink` |
| `Disk` | files, protection codes, indexes and packs of `filesystem.go` and `packs.go` |
| `Spooler` | the print queue of `queue.go` |
| `AccountDB` | the accounts of `accounts.go` and their file |
| `PrintQueue` | abstract specification: what QUE promises |
| `Storage` | `Disk`, `Spooler` and `AccountDB` in one process that crashes and is started again |
| `StorageProofs` | the theorems about `Storage` |
| `MCStorage` | two jobs, three folders and two packs for TLC |

### Jobs

One *thread* for every goroutine: a line (console, Telnet, serial) or a worker
(a SUBMIT job or PK child).  `pc[t]` says between which two critical sections
the thread stands, `cur[t]` which session it runs, `num[t]` which number it has
attached but not yet given a session, and `req[t]` holds its other locals.

| Variable | In the code |
|---|---|
| `jobs[n]` | `sys.jobs[n-1]`: `Used`, `Detached`, `Who`, `OwnerPPN`, `OwnerJob`, `PKLink` (the unit) |
| `shells`, `parked` | `sys.shells`, `sys.parked` |
| `pkInUse`, `accounts`, `noLogins` | `sys.pkInUse`, the account file, `sys.noLogins` |
| `sess[s]` | the `Shell`: job number, KB number, account, `Running`, `parked`, `attachTo`, `console` (kept from the line it was started on, or gained by an ATTACH on the console) |

An operation that takes `sys.mu` twice is two actions.  `Login` is
`LoginCheck` (password, SYS -14, quota) and `LoginCommit`; `HangupJob` is
`HangupUnpark`, `HangupLook` and `HangupDetach`; DELETE/ACCOUNT is
`DeleteCheck` and `DeleteCommit`; the deferred clean-up of `Run` is `ParkShell`,
or `UnregisterShell` and `Detach`; the loop of `runOnTerm` is `Reattach`,
`AttachUnpark`, `AttachBind` and `Drop`; SUBMIT is `SubmitAttach` and
`SubmitStart`; OPEN `PKn:` is `PKAttach`, `ReplaceJob` and `PKStart`.

The only fold is in SUBMIT, which marks the slot `Detached` in the statements
after `Attach`: the number is not yet known to anyone there.  Passwords, KB
names, statistics, banners and the program a session runs are data no property
tells apart.  `SpareWorker` bounds the goroutines in flight by the `Workers` of
the instance; `Sessions` bounds the `Shell` values in use at once.

The abstract `JobTable` maps `holder[n]` to the thread that has attached `n`
or to the live session whose number it is.  The run `jobs_table` checks that
every step of `Jobs` is a step of `JobTable` or leaves the table alone: a
number that is given out was free and the lowest, only its holder's hand-over
moves it, and it becomes free only when nobody is left who uses it.

### KBAssign

A session keeps one keyboard here (ATTACH is in `Jobs`), whose number is also
its job number.  `kbOwner` is `sys.kbOwner`; `asg[a]` is a `kbAssign`, its
channels `done` and `parked` as two flags; `stolen` is the taken flag of the
terminal of a session, and `file[s]` the one channel of the program it runs.

The turn is `WaitIfAssigned`, `ReadLine` or `ReadForced`, `WaitIfAssigned` again
(the line is dropped), then `Hello`, `RunProgram`, `Bye` or `OtherLine`.
`waitKBReleased` is two actions, because it looks the table up once more
(`WaitKBReleased`) before it blocks on the channel (`Wake`).  OPEN is `Open`
(`shellOnKB`, one critical section), `TakeKB` (the next) and `Steal`, then
`Await` or `Timeout`, which race.  CLOSE is `CloseFile`, `Unsteal` and
`Release`; the end of a job is `ReleaseKBForJob` with one `UnstealOne` for each
line, `DeleteShell`, a second release in `Detach`, and `DeleteJob`.

Left out: the RSX turn, which never looks for an assignment; HANGUP and DETACH,
whose effect on a session is in `Jobs`; the characters read; a program's other
channels.  `FreshSession` and `FreshAssignment` stand for Go's allocator: a value
is new when nothing refers to it.

### FileLocks

`files[j][c]` is the `chanFile` of channel `c` in the machine of job `j`;
`locks`, `fileExcl` and `fileJobs` are the tables of the `Disk`.  A job that
logs in finds no channels, because CLOSE of all files ran when the last user of
the number logged out; so one job number stands for all its users.

A program that opens a file is at `claim` between `openDiskFile`, which has
already set the channel, and `applyOpenMode`; one that accesses a record is at
`lock` between giving back the old record and getting the new one, where MODE 8
waits (`Interrupt` is ^C) and other modes fail.  CLOSE is `CloseUnlock` and
`CloseChanFile`, two critical sections; `CloseAllFiles` repeats them for every
channel, at CLOSE without a channel number, at the end of the program and of
the session.

`Careless` jobs run programs that open one file on two channels, or OPEN on a
channel in use.  The tables are kept by job number, so such a program loses
claims and locks of its own; what is promised of the others, the careful jobs,
must hold whatever the careless ones do.

`Reservations` is the abstract specification above it: who has claimed which file and
who has interlocked which record, as the channels say (`ClaimsOf`, `RecordsOf`), without
the tables.  A careful job's claim or record keeps the others out; a careless job
may be told less than it has (`Lose`), and nothing else of it is promised.  That the tables
behind are kept by job number, in critical sections of their own, does not show.

Left out: what is in a file, whether it exists and who may open it; an OPEN
that fails before the channel is set; the modes other than 8 and 16; KILL and
NAME AS, which ask for no claim.  `MaxClaims` bounds how often a careless job
overwrites a channel with a device, which leaves a claim in the table each time.

### BASIC

Every program runs as compiled code: RUN compiles the program in memory, and a
line typed at Ready is compiled too.  `BasicVM` is a state machine for one job;
its VM is the record `vm` (`pvm`: `pc`, `stack`, `gosub`, `fors`, `fns`, `calls`,
`print`), the rest is the `Machine`:

| Variable | In the code |
|---|---|
| `program`, `edited` | `m.Program`, `m.editSeq # m.pauseSeq` |
| `paused`, `stopped` | `m.paused`, `m.Stopped` |
| `err` | `onErrorLine`, `errNum`, `resumeLine`, `inHandler` |
| `line`, `read`, `vars`, `out` | `CurrentLine`, the DATA list and its pointer, the variables, what was printed since the last command |
| `intr`, `trapCtrlC` | the ^C recorded, and whether SYS asked for the trap |
| `chain`, `startLine` | `chainTo` with `chainLine`, `startLine` |
| `mode`, `result`, `wait`, `ops` | which call of `vm.run` this is, how it returned, SLEEP or INPUT, the instruction count |

Each opcode is an action (`Executing(op)` is the head of the loop of `vm.run`,
with its ^C test and its limit), and so is each way in and out: `RunProgram`,
`ExecImmediate`, `Cont`, `TakeChain`, `EndRun`, `EndContinue`, `EndImmediate`.
`Raise` is `trap` with what `vm.run` does of it.  ^C is recorded by another
goroutine (`TypeCtrlC`, at any time) and looked at in three places
(`HandleInterrupt`, `InputInterrupted`, `SleepInterrupted`); from a line it is a
character and ends the read (`ReadCtrlC`).

A program begins as text.  `BasicText` is `m.Program`, for each line number the words
of the line: `StoreLine` changes one line and `Renumber` all of them.  `BasicParse` is the
recursive descent of `parser.go`, one operator for each of its functions; a parse
carries the words left, what was read, the places of the line numbers
(`lineRefOffsets`) and whether there was an error.  `BasicPrograms` types each program
line by line, with a line that is refused, one that is deleted and one that is
replaced, and has every other one renumbered; what a program is meant to say is written
down beside it, so that nothing of the parser is taken for granted.

`BasicCode` works on statements and a sequence of instructions in place of bytes;
the offset 0 that a patch never set would overwrite is `NoHole`.  `BasicLang` is
no translation of the code.  It gives statements a meaning without operand stack,
jumps, or FOR frames: a loop is known by the place of its head in the text, a
modifier is a rule that rewrites the statement.  Two things it takes over from
the code because they are visible to a program and no document says otherwise:
the line of an error is the line entered last at its beginning, so that after a
RETURN into the middle of a line ERL is the line left, and RESUME NEXT goes to
the line after it.

Left out: the lexer (a word stands for its characters, so that a number after RESTORE
inside of a string or a comment, which RENUM does change, does not come up), strings,
arrays, channels, MAT, MAP, COMMON, FIELD, SCALE, files of compiled code and multi-line functions in `BasicLang`.  The family of programs
avoids what has no meaning in the text: a jump into the body of a loop that is
not being run, an error inside a function, and a NEXT that names a loop around an
open FOR ... WHILE.

### Pascal

A program is run from its P-code, whether it is in memory or was compiled.
`evalPascal` runs the same tree without P-code; nothing calls it any more, and it
serves here as the meaning of a program, written apart from the machine and from the
compiler.  `PascalVM` starts from the text:
`RunPascal` parses it, checks it, compiles it and loads the image, or refuses it;
after that each kind of instruction is an action, until `status` says how the
program ended.

| Variable | In the code |
|---|---|
| `p`, `image` | the text that is run, and the `pasImage` made of it |
| `stack`, `addrs` | the values and the addresses of `pVM` |
| `calls`, `ip` | the `pRet`s, and the next instruction |
| `scope` | nothing: a history variable, the block of each procedure and of each frame |
| `m` | the memory: cells (a `pVal` in storage), frames with their static links, WITH records, the heap, files, what was written and typed |
| `status` | not begun, refused, running, or the error, `halt` or ^C that ended it |

A pointer of Go is the number of a cell, so that what refers to an element of an
array goes on referring to the old cell when the array is assigned, as in the
code.  `PascalCheck` returns the tree with a type and a symbol on each expression,
the form that both `PascalCode` and `PascalEval` start from.  The evaluator is
recursive on the tree and has no step of its own: what it makes of a program is one
value, `Meaning`, and the machine is held against it.  A ^C is seen between any two
instructions, a superset of the code, which looks every 64.

The machine knows of a block only how deep it is: an instruction has a level and an
offset, and `addrVar` walks the static links until the level fits.  `scope` records
which block every frame is really of, and `Activations` says with it what must hold:
a frame hangs on a frame of the block its procedure is declared in, code runs in a frame of its own block,
a procedure that is passed on is called where it was named, and the WITHs a caller
has open stay open.  `PascalVM` implements it (`ActivationSpec`): `Call` is a call
instruction by name, `CallRef` one of a parameter, `Refer` is `ProcRef`, `Load` is
`RunPascal`; what the instructions compute does not show.

Left out: REAL, strings, field widths, the characters of a token (a text is its
tokens), files by channel number, RANDOM and the CUSPs' externals; error texts.
`MaxInt` and `SetSpan` stand for `pascalMaxInt` and `pascalSetSpan`.

### Pseudo-keyboards

`toJob`, `toCtrl`, `dead`, `kicked` and `wake` are the fields of `pkLink`; `ctrl` is
the program that opened the unit, `job` the session it forked, each with its place
between two critical sections and its locals.  A step is one critical section of the
link's mutex.  The job sleeps on the condition (`asleep`) or, under WAIT, on the wake
channel (`timed`), the controller on the channel with a timer of 50 ms (`lineWait`,
`byteWait`); the channel has room for one token and both sides take it.  `readEdit` is
`StartRead`, `ReadKey` with its `Echo`, and `EndLine`, `ReadForced`, `ReadDead` or
`ReadSleeps`; what the session does of the result is `Back`.  HANGUP, FORCE, SHUTUP and
a ^C at the controller's own terminal (`HangupJob`, `ForceLine`, `Kick`, `TypeCtrlC`) come
at any time.

`keys` and `output` are history: what a side has been sent and has not been given
yet.  A byte that is handed over out of turn leaves a debt nothing pays.  Left out:
the text of the line under edit (its length counts), the turn of a session beyond its
reads, and how the program uses what it was given.

### Storage

`exists` is the files the host has, `index[d]` the protection codes `.rsts-index.json`
of a folder has on record (0 for none), `packs` and `packsFile` the table of packs and
`packs.json`, `accounts` and `accountsFile` the accounts and `accounts.json`, `queue`
the whole of `queue.json`, `spool` the request the spooler has taken out and not yet
printed.

WriteText, Delete and Rename check first, change the host's file then and the index
last: `task[j]` is where a job is in one of them.  `WriteText`, `SetProt`,
`SetFileAlloc`, `Delete`, `Rename` and `Copy` are the checks, `HostStep` the system call
(it fails when the file has gone meanwhile), `LockIndex` the lock, the load and the
truncation of the index, and `SaveIndex` the rest of the write and the unlock.  `Copy`
reads first and then is a `WriteText` (`ReadOp`).  Between `LockIndex` and `SaveIndex` the
folder is in `torn`: `protOf` takes no lock and reads an index without entries.  The
packs, the queue and the accounts are saved inside of one critical section, so their
operations are one action each, and only a crash sees the middle of a save.

`Crash` ends the process between any two steps, or in the middle of a save: an index in
`torn` is empty afterwards, and so is any of the three other files whose operations
the behaviour uses.  `Edit` is the manager with `accounts.json` in an editor.
`Restart` loads what it finds, as `OpenDisk` and `Load` do.  `Storage` composes the three
with DELETE/ACCOUNT, which touches accounts and the disk (`CmdDeleteAccount`,
`RemoveAccount`).

The abstract `PrintQueue` knows requests by serial number: listed once at most, in
order, never after QUE/DE, and each one in the end while the system stays up.

Left out: the text, size and dates of files (a file takes one block), a failing
`WriteFile` in a save (the accounts, packs and queue in memory are then ahead of their
files until the next save), the names of accounts, which CREATE/ACCOUNT keeps unique
like the numbers, the privilege in the file, which `normalizePrivilegeLocked` puts
right, the search of the public structure, user folders and their creation, /AP, the log of printed pages,
PLEASE, the operator's log; `Locate` and `CheckAccess` are one read of the disk with
the operation's first step; a folder whose index is being written is not
removed by DELETE/ACCOUNT.

## 3. Runs

| Run | System | What it shows |
|---|---|---|
| `jobs_table` | two lines, one goroutine for SUBMIT jobs and PK children, two jobs, three sessions, one account, one unit | `TypeOK`, `SoleHolder`, `SlotsHeld`, `Registered`, `SeesLoggedIn`, and the refinement `TableSpec` |
| `jobs_hangup` | two privileged lines, two jobs, HANGUP, SYS -14 and -15 | `ServedOnce` |
| `jobs_live` | two lines, two accounts with a job quota for one, DELETE/ACCOUNT, fairness | `LineServed`, `EndsClean` |
| `v_hangup_job` | two lines and a goroutine, three jobs, HANGUP | violates `SoleHolder` |
| `kb_take` | three keyboards, one on a Telnet line, three sessions, one privileged account | `TypeOK`, `StepsAside`, `NoLostRelease`, `OwnedByLive` |
| `files_locks` | two jobs, one of them careless, two channels, one file, two records | `TypeOK`, `RecordHeld`, `RecordFreed`, `ExclusiveKept`, `ClaimsFreed`, and the refinement `ReservationSpec`; nothing deadlocks |
| `basic_code` | 4620 programs as they are typed, every other one renumbered, each run once | `CodeMeans`: `BasicVM` on what `BasicParse` and `BasicCode` make of a program does what `BasicLang` says of its meaning; `RenumKeeps`: after RENUM it still does |
| `basic_ready` | four programs and five lines typed at Ready, every command, two ^Cs | `TypeOK`, `ContinuesSameProgram`, `HandlerKnowsLine`, and with fairness `CtrlCEnds`; nothing deadlocks |
| `v_cont` | the same, no ^C | violates `ContAfterStop` |
| `pascal_code` | 1470 programs as text and 15 that break a rule | `TypeOK`, `Sound`, `FaultsRefused`, `ParsedIsMeant`, `PCodeMeans`, and the refinement `ActivationSpec` |
| `pk_link` | a link with two characters, CR, LF and ^C, two bytes in and three out | `InOrder`, `SleepsForCause`, `EofIsFinal`, and with fairness `ControllerLeaves`, `HangupEnds` |
| `storage` | two jobs, one privileged, three folders, two packs, four requests, two crashes | `TypeOK`, `BootsAsLeft`, `OthersKept`, and the refinement `QueueSpec` with its fairness; nothing deadlocks |

**Bounds.** Two jobs are enough to fill the table while both lines compete for
a slot, and a third party (the batch job or PK child) can hold one of them; two
lines are needed to race ATTACH with ATTACH or HANGUP.  One more session than
jobs is in use at any time, because a session that is being cleaned up still
exists when its number has been returned; with fewer, `StartSession` would be
blocked by the bound and not by the code.  Lines, like sessions, are
interchangeable and are declared symmetric, except in the run with liveness.  No
instance has a line for the console (`Console` is `NoLine`): who may log in while
log-ins are off differs there, and no property is about it.

For a keyboard, three sessions let a caller come to a line whose former session
somebody still has on a channel.  The third keyboard lets a program overwrite a
channel that has a keyboard with another one, after which no CLOSE gives the
first back; that is when the release at the end of a job matters.

Two jobs, one careful and one careless, are every kind of pair a table kept by
job number can confuse; a careless job needs two channels to have a file open
twice, and a careful job two records to move from one to the other while the
careless job wants the first.  The run compares states by the view `LiveState` of
`MCFileLocks`, which leaves out the channel and the record a program was last busy with
when it is not busy: no guard, no action and no property reads them there.  Files are independent of each other in the
tables, and the theorems hold for any number of them.

A program of `basic_code` has a loop of one of seven kinds, two statements in its body
(one of 33 and one of five), one of two lines after it and one of three
error handlers (the second line with the first handler only); between them they use every kind of loop, branch, modifier and
jump with each other and with errors raised by `\`, `FNA`, `FNB`, READ, RETURN and
NEXT.  `MaxOps` stands for the limit of 10^7 instructions (`pcodeMaxOps`); at 150 the programs that end
do end and those that loop for good are cut short, where what they printed
must be the beginning of what they mean (`Fuel` steps of `BasicLang`, three for an
instruction).  In `basic_ready` every program stops, waits or chains, so that
40 instructions are enough; two ^Cs (`MaxTyped`) are one for the program and one
for its handler.

The bodies of `pascal_code` are every pair of 35 statements, and each of them inside
of seven others (loops, CASE, IF, and GOTO out of a FOR and a WITH), with a declaration
part that has every kind of type and six procedures: VAR parameters, recursion, a
conformant array, a procedural parameter, a procedure inside of a procedure, FORWARD.
`DEEP` passes the procedure inside of it to `EACH` with a WITH open: `EACH` calls it from a frame that
is as deep as that of `DEEP` but of another block, so that the level alone would find the wrong one.
`MaxInt` is 2000 so that a product of the pool leaves the range.  The text is written
with the fewest parentheses from a tree that is the test's own, so that
`ParsedIsMeant` depends on precedence.

A link of `pk_link` needs two bytes towards the job, so that a ^C is in the middle or
behind another byte, and three towards the controller, a CR LF and one before it; the job
prints lines of one character, and single characters come from its echo;
`LineMax` = 1 makes the limit of the line come up.  The behaviours of `storage` use one
of six sets of operations and files: those that meet in an index (WRITE, PROT,
ALLOC, DELETE), RENAME across folders, COPY with a quota, packs, the queue, and
accounts.  They keep apart what has no variable in common, and two crashes let
the second one find what the first left.  Four requests are two that wait, one that is
being printed and one deleted.

**Deadlock** is checked for files (two programs that wait for each other's record can
always be interrupted), for `basic_ready` and for `storage`.  `basic_code` and
`pascal_code` stop when the program has ended, `pk_link` when both sides have gone, and
in `kb_take` a third OPEN waits for an assignment the instance does not have.  It is not checked in the runs of
`Jobs`: when every job is detached and the lines were dropped, nobody can log in
to ATTACH, and the system rests.

**Fairness** (`FairSpec`): the Go scheduler runs every goroutine that is not
waiting for input, and nobody keeps `sys.mu`, so the steps a thread takes by
itself (`Continue`, `LineStep`, `WorkerDone`) are weakly fair.  Nothing is
assumed about users: no fairness on `Command` or `Connect`.  For BASIC `Work`, what
the job's goroutine does by itself, is weakly fair; nothing is assumed about
commands, answers to INPUT or ^C.  For a pseudo-keyboard the waits of the controller
(`CtrlWorks`: each has a timer) and the session's own steps (`JobWorks`) are weakly fair,
and nothing is assumed of the two programs: the liveness properties except a session
whose program goes on.  The spooler (`Drain`, `ListNext`) is a goroutine with a ticker
that waits for `sys.mu` only.

**What the violations say.**  `v_hangup_job`: `HangupJob` looks for a parked
session and for a running one in two critical sections and, finding neither,
frees the number; between `Attach` and `newSession` a number in use looks just
like that.  `v_cont`: `runImage`
clears `m.Stopped` whatever it runs, so a line typed at Ready after STOP, PRINT X
for example, makes `Continue` refuse although `m.paused` is still there.

**Seen while modelling**, and kept in the modules as the code has it, without a run of
its own.  Two privileged jobs that open each other's keyboard and go back to Ready both
wait for a channel that only the other one can close.  OPEN with MODE 16 asks for the
claim when the channel is set, and a refusal leaves the channel open: with ON ERROR
GOTO the program uses a file another job has exclusively.  The Pascal checker looks
for threats to the variable of a FOR before it has looked at the body, when the calls
in it have no symbol: `FOR I := 1 TO J DO READLN(I)` is accepted, which README.md:575
of the repository excludes.  The machine of P-code takes a number out of range into a
subrange: `doReadVals` replaces `lv.typ` by the type without the range before it has
`rangeAssign` look at it (pascal_pvm.go:1116), where README.md:573 promises run-time
range checks and `doRead` of the evaluator makes them.  READ(I, V[I]) stores into the
element of the old I, because the addresses of all the variables are found before the
first is read (pascal_pcompile.go:659).  With either statement in the family
`PCodeMeans` is violated, so the family reads into a subrange only what fits it, and
indexes only by what it does not read.  RENUM changes the number in CHAIN "NEXT" LINE 100 when the
CHAIN is in a branch of IF, which README.md:365 says it keeps, and the number after a
RESTORE that is in a string or a comment.  What is left of a line after a complete
statement is ignored without an error; `IF 4\X=2 THEN` is refused, because the
backslash is taken for the end of a statement.  RENAME into another folder saves the index of the old
folder in the new one; `OthersKept` excepts that step by name.

## 4. Theorems

`JobsProofs`, for any number of lines, workers, sessions, accounts, units and
jobs, from `JobsAssumption` alone (disjoint sets, a positive table size, null
values outside the sets they stand beside):

* `TypeCorrect`: `Spec => []TypeOK`, with every command in use.
* `SessionsServedOnce`: `Spec => []ServedOnce`, with every command in use; the run
  `jobs_hangup` is its small instance.  With the types, `ServedOnce` is
  inductive alone: each step that gives a session to a thread or to the parked
  registry takes it from where it was, and HANGUP only takes.
* `JobsKept`: `Spec => []JobInv` when HANGUP is not in use, and from it
  `NumbersNotShared` (`SoleHolder`), `NoSlotLeaks` (`SlotsHeld`) and
  `RegistriesAgree` (`Registered`).
* `LoggedInSeen`: `Spec => []SeesLoggedIn` when HANGUP is not in use.
* `JobsImplementTable`: `Spec => TableSpec` when HANGUP is not in use, the
  refinement of `JobTable` with `holder <- HolderOf`.

None of the four invariants in `JobInv` is inductive alone when numbers are at stake.  That a number is returned only once
(`SoleHolder`, `SlotsHeld`) needs to know that the session returning it owns it
and that nobody else reaches it through a registry (`Registered`); that
`unpark` hands a session to one goroutine (`ServedOnce`) needs to know that a
parked session is in no goroutine, which is again part of `ServedOnce` and of
`Registered`; and a session between `unregisterShell` and `Detach` must be in
neither registry, the last conjunct of `JobInv`.  The proof has a lemma for each
group of actions that moves numbers (`AttachStep`, `StartStep`, `ParkStep`,
`UnregisterStep`, `DetachStep`, `UnparkStep`) on top of `RunningOwns` and
`ParkedOwns`, which say how a thread or a parked session that keeps its session
keeps its number; `CommandKeeps`, `ContinueKeeps`, `LineKeeps` and
`WorkerKeeps` put them together and `JobStep` is the inductive step.

Beside it go what a step does to the holders and what the slots say of their
sessions.  `Moved` says that a step leaves the holders alone or is one of three
moves: `Granted`, `Bound` or `Returned`.  `Marked` says that the slot of a live session names
the account it is logged in to.  A lemma for each group of actions (`QuietMoves`,
`AttachMoves`, `StartMoves`, `ParkMoves`, `DetachMoves`, `UnparkMoves`, `SignMoves`)
proves `Moved` and keeps `Marked`; `SignMoves`, for Login and BYE, needs
`SoleHolder`, because they write into a slot by its number.  `SeesLoggedIn` follows from `Marked`
and `SlotsHeld`: the slot is used and names the account, even when the session is
in no registry.  For the refinement, `HolderIs` says that under
`SoleHolder` the CHOOSE of `Holder` names the one holder there is, before a step and
after it; `Granted` is then `Grant` of the abstract table, `Bound` is `Bind`,
`Returned` is `Return` and any other step stutters.

The assumption that HANGUP is not in use is needed: `v_hangup_job` is the
counterexample without it.

`KBAssignProofs`, for any number of keyboards, sessions and assignments, from
`KBAssumption` alone: `TypeCorrect`, `HandedOver` (`StepsAside`), `EveryWaitEnds`
(`NoLostRelease`) and `NothingLeftTaken` (`OwnedByLive`).  The inductive invariant
adds that an assignment stands at the keyboard of the session it was made of
(`Named`, so that one removal removes it), that none in the table has been
released (`NotReleased`) and none that is being released is in the table
(`OutOfTable`), that a single release leads back into the turn (`Returning`),
and that an owner counts as gone from its clean-up on (`OwnedByOpen`).

`FileLocksProofs`, for any number of jobs, channels, files and records and any
set of careless jobs, from `FileAssumption` alone: `TypeCorrect`, `RecordsHeld`
(`RecordHeld`), `RecordsFreed` (`RecordFreed`), `ExclusiveClaims`
(`ExclusiveKept`) and `ClaimsGivenBack` (`ClaimsFreed`).  The inductive invariant
adds what a channel has at each place of the program (`Tidy`), that a careful
program has a file on one channel (`OneChannel`), that the count of a careless
job is never too small (`Counted`, without which it could be seen as having
closed a file that it has open), and that an exclusive claim and its channel
imply each other (`ExclusiveSet`, `ExclusiveOwned`).

`FilesImplementReservations`: `Spec => ReservationSpec`.  A lemma for each kind of
step (`OpenShows`, `ClaimShows`, `GiveBackShows`, `LockShows`, `CloseShows`) says what becomes of
the two sets.  A careful job has one channel on a file (`OnlyChannel`), so that what
the channel gives back is all it had of the file (`NoneClaimed`, `NoneHeld`).  The guards of the code look at
the tables and those of `Reservations` at the channels of others: `OthersClaim` and `OthersHold`
bridge them with the inductive invariant, in the one direction that holds for careless jobs as well.

`BasicVMProofs`, for any programs, lines, inputs and bounds, from `BasicAssumption`
(disjoint names, bounds in Nat) and `ImageAssumption`: the code of a program starts
with its first line's number, a line's offset is where its number is set, no
other number is set, and a line typed at Ready sets none.  TLC checks the second
assumption of every image the compiler makes in the runs.  Theorems: `TypeCorrect`,
`SameProgram` (`ContinuesSameProgram`), `HandlerLineKnown` (`HandlerKnowsLine`).  The
inductive invariant adds that a running program's VM has the image of the program
in memory and an immediate line's has the image of a line (`RunsProgram`,
`RunsTyped`), that what is paused and not edited is of the program in memory
(`CanContinue`), and that a handler's line is known as soon as `line` is: after the
first instruction `line` is a line of the image, and before it there is no error
trap to enter (`ErrOK`, `Entered`).  An opcode is one of three kinds (it touches the
frames only, it may raise, it moves `line`), with a lemma for each kind.

`PKLinkProofs`, for any printing characters, any set of lines to send and to print and
any bounds, from `LinkAssumption` alone: `LinkTypes` (`TypeOK`), `LinkInOrder` (`InOrder`),
`LinkSleepsForCause` (`SleepsForCause`) and `LinkEofIsFinal` (`EofIsFinal`).  `LinkInv`, their
conjunction, is inductive as it stands, because the history variables say what each buffer
owes its reader.  The work is in the buffers: a poll takes the first ^C out of the middle of
one and counts it as pressed, while a read takes the first byte, and `InOrder` is about what is left when all ^C are
taken out, so every step on `toJob` is a fact about `Without`.

`SelectionProofs` has those facts.  `Without` is a recursive function, so that each of
them is an induction, which is made as a contradiction: `Least` picks the shortest
sequence of a set of counterexamples, and the one before it is not one.  From `WithoutAppend` come
`WithoutConcat`, `WithoutHead`, `WithoutLen` and `WithoutRemove` (taking one element of the set out of the
middle changes nothing), `WithoutNone` and `WithoutUnique` (where one element is in the set, `Without` is
`RemoveAt`), and `FlattenIsSeq` for FlattenSeq.

`StorageProofs`, for any number of jobs, folders, names, packs, accounts, requests and
crashes, from `DiskAssumption`, `AccountAssumption` and `StorageAssumption`:

* `StorageInvariant`: `Spec => []StorageInv`, and from it `StorageTypes` (`TypeOK`), `StorageBoots`
  (`BootsAsLeft`) and `StorageKeepsOthers` (`OthersKept`).  `StorageInv` adds to the types that the mutex of
  the disk is held by the one job that is saving, and the folder it saves in is the one
  that is truncated (`DiskInv`); that what it is about to write is its change applied to the
  index as it is (`Fresh`), which is why no save undoes what another job recorded
  meanwhile; that no two packs have one ID, in memory or in `packs.json` (`PacksInv`); and that
  while the system is up, both files are what is in memory (`PacksInv`, `AccountsInv`).
* `QueueInvariant` and `QueueRefines`: `Spec => PQ!Init /\ [][PQ!Next]_(PQ!queueVars)`, the print queue
  without its fairness.  `QueueInv` says that IDs and serial numbers of the requests that wait
  grow and stay below the next ones.  DELETE by ID then takes out at most one request, and
  it is the one the abstract queue knows by its serial number.

What is assumed of the constants: the sets and null values are disjoint, the packs have the
payroll pack with an ID of its own and the structural accounts are among the stock ones; each behaviour uses files there are.

`ActivationsProofs`, for any procedures, nested in any way, and calls of any depth, with no
assumption: `Activation` (the inductive invariant), `TypeCorrect`, `ChainedToScope` (`StaticChain`), `RunsInOwnBlock`
(`OwnBlock`), `PassedInScope` (`RefsInScope`), `WalksToBlock` (`BlocksReached`), `CallersWithsKept`
(`WithsNested`), and of the steps `ScopesKept` (`ScopeKept`: around a procedure that
is called are the frames that were around the place that named it).  They are theorems about the abstract
specification; TLC checks that the machine implements it on the programs of
`pascal_code`, and so they hold of the machine as far as that run goes.

The walk along the links (`Reach`) is a recursive function on frames.  `WalksAgree` and
`WalkExists` show that it has one value, `ReachStep` is its equation, and
`ReachBlock` says where it ends: the least frame at which the claim fails (`Least`) cannot
be, because its link leads to a lesser one.  `ReachBlock` needs `Chained`, which
says of every frame, the ones no longer in use included, that its link goes back to a
frame of the block above; a walk may pass through any of them.  `RefsInScope` and `OwnBlock` are inductive
with it: a call by name takes the frame that the walk finds from a frame of the caller's own
block, which is `VisibleFrame`, and a call of a parameter takes the one in `refs`.
`ReachThrough` and `ReachExtended` (new frames change no walk) give `ScopesKept`.

Only model-checked: `CodeMeans`, `RenumKeeps` and `TypeOK`, `Sound`, `FaultsRefused`, `ParsedIsMeant`, `PCodeMeans` and
`ActivationSpec` of Pascal, because the compilers, the parsers, the meanings and the storage of Pascal's values
are RECURSIVE operators on trees; and liveness (fairness
is out of the prover's reach), which includes the fairness of `QueueSpec`.

## 5. Plan

In the order of importance; each step is a module, its run and its theorems.

1. `Jobs` (done).  Left: AutoLogin and Guest, SHUTUP.
2. `KBAssign` (done).  Left: that a session waits no longer than its taker's
   OPEN (liveness), and the RSX turn.
3. `FileLocks` under `Reservations` (done).  Left: KILL and NAME AS, MODE 64 (tentative files), that a wait for a
   record ends (liveness).
4. `BasicVM`, `BasicCode`, `BasicLang`, `BasicParse`, `BasicText` (done).  Left: multi-line functions and
   INPUT in `BasicLang`, COMMON, and a proof that the operand stack has what an
   instruction takes for well-formed images.
5. `PascalParse`, `PascalCheck`, `PascalCode`, `PascalVM` under `Activations`, `PascalEval` (done).  Left:
   REAL and strings, the lexer, RANDOM.
6. `PKLink` (done).  Left: an abstract pair of byte queues above it.
7. `Disk`, `Spooler`, `AccountDB`, `Storage` (done).  Left: PLEASE.
8. Not begun: magtape, EDIT, the Telnet parser, string
   arithmetic, name matching of CCL; BROADCAST and SHUTUP over a snapshot of sessions.

Runs are one per module with all of its invariants, one more where liveness
forbids symmetry; the violations are kept to the ones that show a defect.

## 6. Not modelled

The lexers: the modules begin with words (BASIC) and tokens (Pascal).  Strings, arrays, PRINT USING, MAT, MAP and record I/O of BASIC: they change
values the control does not depend on.  EDIT, CCL, the CUSPs, magtape and the
Telnet parser: sequential code with one user each, next in the plan.
Formatting, banners, SYSTAT columns and error texts; host terminal and serial
drivers (system calls); start-up and configuration files; constant tables of
devices, seeds and samples.  `PROJECT.json` lists each component with its state.
