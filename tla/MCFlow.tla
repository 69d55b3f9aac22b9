------------------------------- MODULE MCFlow -------------------------------
(***************************************************************************)
(* Flow with the retry policies of the run.                                *)
(***************************************************************************)
EXTENDS Flow

\* Jittered delays of up to 1 and 2, a wait for an instant that never comes,
\* and a policy that the builder refuses.
MCRetryPolicy ==
    [jittered |-> [max_attempts |-> 3, backoff |-> "Exponential", initial |-> 1,
                   max |-> 3, jitter |-> TRUE],
     endless |-> [max_attempts |-> 2, backoff |-> "Fixed", initial |-> 9,
                  max |-> 0, jitter |-> FALSE],
     none |-> [max_attempts |-> 0, backoff |-> "None", initial |-> 0,
               max |-> 0, jitter |-> FALSE]]
=============================================================================
