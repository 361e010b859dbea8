--------------------------- MODULE CallbackQueue ---------------------------
(***************************************************************************)
(* What SingleThreadedSchedulerClient promises to CMainSignals: callbacks  *)
(* "are required to be run serially", in the order they were added, and    *)
(* every one of them is run.  Callbacks are numbered in that order.        *)
(***************************************************************************)
EXTENDS Naturals, Sequences

VARIABLES
    added,    \* the number of callbacks added so far
    pending,  \* those that wait
    active,   \* those that are being run
    done      \* those that have been run, in the order they ended

cqVars == <<added, pending, active, done>>

Init == added = 0 /\ pending = <<>> /\ active = {} /\ done = <<>>

Add ==
    /\ added' = added + 1
    /\ pending' = Append(pending, added')
    /\ UNCHANGED <<active, done>>

Begin ==
    /\ active = {} /\ pending # <<>>
    /\ active' = {Head(pending)}
    /\ pending' = Tail(pending)
    /\ UNCHANGED <<added, done>>

End ==
    /\ \E c \in active : active' = active \ {c} /\ done' = Append(done, c)
    /\ UNCHANGED <<added, pending>>

Next == Add \/ Begin \/ End

Spec == Init /\ [][Next]_cqVars

\* Every callback is begun once its turn has come, and returns.
FairSpec == Spec /\ WF_cqVars(Begin) /\ WF_cqVars(End)
=============================================================================
