------------------------------ MODULE Delivery ------------------------------
(***************************************************************************)
(* What a send operation promises its caller: the user sees the parts of   *)
(* what was asked for in their order and each at most once, a success      *)
(* means that all of them were seen and names them all, and a failure      *)
(* says nothing of how many there were.                                    *)
(***************************************************************************)
EXTENDS Naturals, Sequences

CONSTANT
    Plans    \* what may be asked for: sequences of parts

VARIABLES
    plan,     \* the parts asked for
    seen,     \* the parts the user has seen
    outcome,  \* none, pending, ok or failed
    told      \* what a success names: the parts, and those that are texts

vars == <<plan, seen, outcome, told>>

Positions(p) == [i \in DOMAIN p |-> i]
Texts(p) == {i \in DOMAIN p : p[i].kind = "text"}
NothingTold == [parts |-> <<>>, texts |-> {}]

Init ==
    /\ plan = <<>>
    /\ seen = <<>>
    /\ outcome = "none"
    /\ told = NothingTold

\* What is asked for may be refused at once.
Ask ==
    /\ outcome = "none"
    /\ plan' \in Plans
    /\ outcome' \in {"pending", "failed"}
    /\ UNCHANGED <<seen, told>>

\* The next part is shown; whether it was may remain unknown to the sender.
Show ==
    /\ outcome = "pending"
    /\ Len(seen) < Len(plan)
    /\ seen' = Append(seen, plan[Len(seen) + 1])
    /\ outcome' \in {"pending", "failed"}
    /\ UNCHANGED <<plan, told>>

\* The last part may be shown in the step that succeeds.
Succeed ==
    /\ outcome = "pending"
    /\ Len(plan) <= Len(seen) + 1
    /\ seen' = plan
    /\ outcome' = "ok"
    /\ told' = [parts |-> Positions(plan), texts |-> Texts(plan)]
    /\ UNCHANGED plan

Fail ==
    /\ outcome = "pending"
    /\ outcome' = "failed"
    /\ UNCHANGED <<plan, seen, told>>

Next == Ask \/ Show \/ Succeed \/ Fail

Spec == Init /\ [][Next]_vars
=============================================================================
