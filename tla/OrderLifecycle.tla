--------------------------- MODULE OrderLifecycle ---------------------------
(***************************************************************************)
(* What an order promises to whoever follows it from outside: its status   *)
(* moves only along the graph of model.py, the saw works on it only while  *)
(* it is in process, and nothing is finished with a piece left uncut.      *)
(***************************************************************************)
CONSTANT Pieces

VARIABLES status, uncut

vars == <<status, uncut>>

Init == status = "confirmed" /\ uncut = Pieces

\* A change of status that no piece takes part in.
Step(from, to) == status = from /\ status' = to /\ UNCHANGED uncut

Pay == Step("confirmed", "queued")
Take == Step("queued", "in_process")
SendBack == Step("in_process", "queued")
HandOver == Step("finished", "dispatched")
Cancel == Step("confirmed", "cancelled") \/ Step("queued", "cancelled")

Saw ==
    /\ status = "in_process"
    /\ uncut' \in SUBSET Pieces
    /\ UNCHANGED status

Finish == uncut = {} /\ Step("in_process", "finished")

Next == Pay \/ Take \/ SendBack \/ Saw \/ Finish \/ HandOver \/ Cancel

Spec == Init /\ [][Next]_vars

=============================================================================
