-------------------------- MODULE ActionLifecycle ---------------------------
(***************************************************************************)
(* What the action protocol promises to a user of the admin console, for   *)
(* the actions of one installation: an action is requested, processed at   *)
(* most once, and given one verdict, after it was processed.  Nothing is   *)
(* promised to happen: an action may be lost on the way.                   *)
(***************************************************************************)
EXTENDS Naturals

CONSTANT Actions

VARIABLES status,  \* what the console shows: "new", "requested" or a verdict
          runs     \* how often the action was processed

vars == <<status, runs>>

Verdict == {"OK", "FAILED"}

Init ==
    /\ status = [a \in Actions |-> "new"]
    /\ runs = [a \in Actions |-> 0]

Request(a) ==
    /\ status[a] = "new"
    /\ status' = [status EXCEPT ![a] = "requested"]
    /\ UNCHANGED runs

Process(a) ==
    /\ status[a] = "requested"
    /\ runs[a] = 0
    /\ runs' = [runs EXCEPT ![a] = 1]
    /\ UNCHANGED status

Processed == {a \in Actions : status[a] = "requested" /\ runs[a] = 1}

\* One heartbeat may bring the verdicts of several actions.
Conclude ==
    /\ \E S \in SUBSET Processed : \E v \in [S -> Verdict] :
          status' = [a \in Actions |-> IF a \in S THEN v[a] ELSE status[a]]
    /\ UNCHANGED runs

Next ==
    \/ \E a \in Actions : Request(a) \/ Process(a)
    \/ Conclude

Spec == Init /\ [][Next]_vars

=============================================================================
