-------------------------------- MODULE Spooler --------------------------------
(* QUE and QUMRUN (queue.go).  queue.json is read and written as a whole under  *)
(* sys.mu, so each request is one action; drainOne takes the first request out  *)
(* under the mutex and prints it after the unlock.                              *)
EXTENDS Naturals, Sequences, SequencesExt, Selection

CONSTANTS Users,         \* who is logged in, each with one job
          Operators,     \* those with privilege
          Printables,    \* base names of files
          MaxRequests    \* bound: requests in a behaviour

VARIABLES queue,    \* queue.json: [next, jobs]
          spool,    \* what drainOne has taken out and not printed yet
          lp0,      \* the requests printed on LP0
          sent      \* the number of requests made (history)
spoolVars == <<queue, spool, lp0, sent>>

EmptyQueue == [next |-> 1, jobs |-> <<>>]
SpoolInit == queue = EmptyQueue /\ spool = <<>> /\ lp0 = <<>> /\ sent = 0

(* QUE file, and CLOSE of a channel on LP:.  n, the serial number of the        *)
(* request, is not in the code: its id is used again when queue.json is lost.   *)
EnqueuePrint(u, file) ==
  /\ sent < MaxRequests
  /\ sent' = sent + 1
  /\ queue' = [next |-> queue.next + 1,
               jobs |-> Append(queue.jobs, [id |-> queue.next, who |-> u, file |-> file, n |-> sent'])]
  /\ UNCHANGED <<spool, lp0>>

(* QUE/DE id. *)
Deletes(u, id, e) == e.id = id /\ (u \in Operators \/ e.who = u)
DeleteQueue(u, id) ==
  /\ queue' = [queue EXCEPT !.jobs = Without(@, {e \in ToSet(@) : Deletes(u, id, e)})]
  /\ UNCHANGED <<spool, lp0, sent>>

(* Mutant: the queue is not saved without the request. *)
DrainUnsaved ==
  /\ spool = <<>> /\ queue.jobs # <<>>
  /\ spool' = <<Head(queue.jobs)>>
  /\ UNCHANGED <<queue, lp0, sent>>
DrainOne ==
  /\ spool = <<>> /\ queue.jobs # <<>>
  /\ spool' = <<Head(queue.jobs)>>
  /\ queue' = [queue EXCEPT !.jobs = Tail(@)]
  /\ UNCHANGED <<lp0, sent>>
PrintJob ==
  /\ spool # <<>>
  /\ lp0' = lp0 \o spool
  /\ spool' = <<>>
  /\ UNCHANGED <<queue, sent>>

SpoolCrash(tornQueue) ==
  /\ queue' = IF tornQueue THEN EmptyQueue ELSE queue
  /\ spool' = <<>>
  /\ UNCHANGED <<lp0, sent>>
================================================================================
