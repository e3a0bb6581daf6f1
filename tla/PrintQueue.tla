------------------------------ MODULE PrintQueue ------------------------------
(* What QUE promises of the line printer (README.md:393, 549), whatever the  *)
(* files it is kept in: requests are listed once at most and in the order in *)
(* which they were made, one that QUE/DE reports deleted is never listed,    *)
(* and while the system stays up each of them gets its turn.  A crash may    *)
(* lose the requests, and never repeats one.                                 *)
EXTENDS Naturals, Sequences, SequencesExt, Selection

CONSTANT MaxRequests

VARIABLES waiting,   \* the requests not yet begun, oldest first
          listing,   \* the request being listed, as a sequence of at most one
          listed,    \* what the printer has listed
          made,      \* the number of requests made
          running    \* the system is up
queueVars == <<waiting, listing, listed, made, running>>

Init == waiting = <<>> /\ listing = <<>> /\ listed = <<>> /\ made = 0 /\ running = TRUE

Request == /\ running = TRUE /\ made < MaxRequests
           /\ made' = made + 1
           /\ waiting' = Append(waiting, made')
           /\ UNCHANGED <<listing, listed, running>>
Withdraw == /\ running = TRUE
            /\ \E n \in ToSet(waiting) : waiting' = Without(waiting, {n})
            /\ UNCHANGED <<listing, listed, made, running>>
Serve == /\ running = TRUE /\ listing = <<>> /\ waiting # <<>>
         /\ listing' = <<Head(waiting)>> /\ waiting' = Tail(waiting)
         /\ UNCHANGED <<listed, made, running>>
List == /\ running = TRUE /\ listing # <<>>
        /\ listed' = listed \o listing /\ listing' = <<>>
        /\ UNCHANGED <<waiting, made, running>>
Crash == /\ running = TRUE /\ running' = FALSE
         /\ listing' = <<>> /\ waiting' \in {waiting, <<>>}
         /\ UNCHANGED <<listed, made>>
Restart == running = FALSE /\ running' = TRUE /\ UNCHANGED <<waiting, listing, listed, made>>

Next == Request \/ Withdraw \/ Serve \/ List \/ Crash \/ Restart
Spec == Init /\ [][Next]_queueVars /\ WF_queueVars(Serve) /\ WF_queueVars(List)
===============================================================================
