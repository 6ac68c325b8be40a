-------------------------------- MODULE Belt --------------------------------
(***************************************************************************)
(* What the conveyor promises to whoever looks at the board and touches    *)
(* nothing: a card goes along the arrows of the belt, comes back only from *)
(* the review, and does not move again once it stopped.                    *)
(***************************************************************************)
CONSTANT Cards

VARIABLES
    stage,    \* the column of each card
    stopped   \* the cards the machine has given up on

bvars == <<stage, stopped>>

\* Four arrows forward, and the reviewer's return.
ARROWS ==
    {<<"open", "in_progress">>, <<"in_progress", "review">>,
     <<"review", "testing">>, <<"testing", "ready_to_merge">>,
     <<"review", "in_progress">>}

Init ==
    /\ stage \in [Cards -> {"open", "backlog"}]
    /\ stopped = [c \in Cards |-> FALSE]

Carry(c) ==
    /\ ~stopped[c]
    /\ \E to \in {arrow[2] : arrow \in ARROWS} :
         /\ <<stage[c], to>> \in ARROWS
         /\ stage' = [stage EXCEPT ![c] = to]
    /\ UNCHANGED stopped

Stop(c) ==
    /\ ~stopped[c]
    /\ stage[c] # "backlog"
    /\ stopped' = [stopped EXCEPT ![c] = TRUE]
    /\ UNCHANGED stage

Next == \E c \in Cards : Carry(c) \/ Stop(c)

Spec == Init /\ [][Next]_bvars
=============================================================================
