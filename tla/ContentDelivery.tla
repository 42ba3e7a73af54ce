--------------------------- MODULE ContentDelivery ---------------------------
(***************************************************************************)
(* What the content retriever promises the player: the tables both of them *)
(* read, by deployments.  A deployment is loaded once.  What is ready, that *)
(* is loaded, not failed and without resources to come, stays ready, as    *)
(* long as no round of the timing handler was raced by the handlers it     *)
(* looks after.                                                            *)
(*                                                                         *)
(* ContentRetrieval implements this, and PlayerScheduling takes its steps  *)
(* for those of the other process.                                         *)
(***************************************************************************)
CONSTANT Deployments

VARIABLES loaded,   \* deployments with a FILENAME
          pending,  \* deployments with rows in PENDING
          failed,   \* loaded deployments with FAILED_RESOURCE = 'Y'
          raced     \* a round of the timing handler came too late

vars == <<loaded, pending, failed, raced>>

Ready == (loaded \ failed) \ pending

Init ==
    /\ loaded = {} /\ pending = {} /\ failed = {}
    /\ raced = FALSE

\* The descriptor is there.  Some of the resources may have to be fetched, and
\* the deployment may have been given up while its descriptor was on the way.
Load(d) ==
    /\ d \notin loaded
    /\ loaded' = loaded \cup {d}
    /\ pending' \in {pending, pending \cup {d}}
    /\ failed' \in {failed, failed \cup {d}}

\* The last of its resources is there, also when it was given up before.
LastResource(d) ==
    /\ d \in pending
    /\ pending' = pending \ {d}
    /\ UNCHANGED <<loaded, failed>>

\* One round gives up on the deployments D, and drops rows of some that were
\* given up, then or before.
GiveUp(D) ==
    /\ failed' = failed \cup D
    /\ \E E \in SUBSET (pending \cap failed') : pending' = pending \ E
    /\ UNCHANGED loaded

\* One that was ready is among them only after a race.
RacedFor(D) ==
    /\ raced' \in {raced, TRUE}
    /\ raced' \/ D \cap Ready = {}

Next == \/ (\E d \in Deployments : Load(d) \/ LastResource(d)) /\ UNCHANGED raced
        \/ \E D \in SUBSET (loaded \ failed) : GiveUp(D) /\ RacedFor(D)

Spec == Init /\ [][Next]_vars
=============================================================================
