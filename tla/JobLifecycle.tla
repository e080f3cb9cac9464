---------------------------- MODULE JobLifecycle ----------------------------
(***************************************************************************)
(* What the two job queues promise of a job row: it waits, runs, and ends  *)
(* once.  A restart puts running jobs back in the queue.  Only a job whose *)
(* cancellation the user asked for, and was told had succeeded, may leave  *)
(* this order.                                                             *)
(***************************************************************************)
CONSTANT Jobs

VARIABLES state, asked

Finished == {"done", "failed", "cancelled"}

Init ==
    /\ state = [j \in Jobs |-> "none"]
    /\ asked = {}

Submit(j) ==
    /\ state[j] = "none"
    /\ state' = [state EXCEPT ![j] = "queued"]
    /\ UNCHANGED asked

Run(j) ==
    /\ state[j] = "queued"
    /\ state' = [state EXCEPT ![j] = "processing"]
    /\ UNCHANGED asked

End(j) ==
    /\ state[j] = "processing"
    /\ \E s \in Finished : state' = [state EXCEPT ![j] = s]
    /\ UNCHANGED asked

Restart ==
    /\ state' = [j \in Jobs |-> IF state[j] = "processing" THEN "queued" ELSE state[j]]
    /\ UNCHANGED asked

\* A cancellation is answered with success: it may have ended the job.
Answer(j) ==
    /\ state[j] # "none"
    /\ state' \in {state, [state EXCEPT ![j] = "cancelled"]}
    /\ asked' = asked \cup {j}

\* The task of such a job may overwrite its row once more.
Overwrite(j) ==
    /\ j \in asked
    /\ \E s \in Finished \cup {"processing"} : state' = [state EXCEPT ![j] = s]
    /\ UNCHANGED asked

Next ==
    \/ \E j \in Jobs : Submit(j) \/ Run(j) \/ End(j) \/ Answer(j) \/ Overwrite(j)
    \/ Restart

Spec == Init /\ [][Next]_<<state, asked>>

=============================================================================
