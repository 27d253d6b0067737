---------------------------- MODULE MCCronService ----------------------------
(* Instances of CronService for TLC. *)
EXTENDS CronService, TLC

CONSTANTS a, b

(* A one-shot beside a recurring job of either kind.                        *)
OneShotAndRecurring == {(a :> "at" @@ b :> k) : k \in {"every", "cron"}}
(* The one-shot and an "every" job are there, a "cron" job is added.        *)
MCCronInit == /\ Init
              /\ store[a].stored = "yes"
              /\ store[b].stored = "yes" <=> kind[b] = "every"
MCCronSpec == MCCronInit /\ [][Next]_vars

Backoffs == <<1, 2>>
=============================================================================
