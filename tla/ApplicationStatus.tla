-------------------------- MODULE ApplicationStatus --------------------------
(***************************************************************************)
(* What the applications service promises of an application: its status    *)
(* moves along the transition table of pkg/applications/state.go and rests *)
(* in a terminal status, up to the first update that was lost.             *)
(***************************************************************************)
CONSTANTS
    Apps, None,
    Asked  \* statuses clients ask for; a row is created with any of them

VARIABLES
    status,  \* status of each row, None before it is created
    lost     \* applications a handler has written that changed under it

Statuses == {"new", "dismissed", "applying", "submitted", "screening", "interview",
             "offer", "accepted", "rejected", "withdrawn"}

\* The allowed next statuses; a status without a pair is terminal.
Transitions ==
    {<<"new", "dismissed">>, <<"new", "applying">>, <<"applying", "submitted">>,
     <<"submitted", "screening">>, <<"screening", "interview">>, <<"interview", "offer">>,
     <<"offer", "accepted">>}
    \cup ({"applying", "submitted", "screening", "interview", "offer"}
          \X {"rejected", "withdrawn"})

Init == status = [a \in Apps |-> None] /\ lost = {}

Create(a) ==
    /\ status[a] = None
    /\ \E s \in Statuses \cup Asked : status' = [status EXCEPT ![a] = s]
    /\ UNCHANGED lost

Move(a) ==
    /\ \E s \in Statuses : <<status[a], s>> \in Transitions /\ status' = [status EXCEPT ![a] = s]
    /\ UNCHANGED lost

\* Somebody's update is written over; from here on nothing is promised.
Lose(a) ==
    /\ status[a] # None
    /\ \E s \in Statuses \cup Asked : status' = [status EXCEPT ![a] = s]
    /\ lost' = lost \cup {a}

Next == \E a \in Apps : Create(a) \/ Move(a) \/ Lose(a)

Spec == Init /\ [][Next]_<<status, lost>>
=============================================================================
