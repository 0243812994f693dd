----------------------------- MODULE MCWorkerLoop -----------------------------
(* Constants of the TLC runs of WorkerLoop. *)
EXTENDS WorkerLoop

CONSTANTS c1, c2, items, sweep

MCConsumers == {c1, c2}
\* sync_items is asked for on screen and as a refresh behind the page; the
\* scheduler has its own keys.
MCUserKeys == {items}
MCRefreshKeys == {items}
\* Without refreshes, the only unwoken row is a retried one.
MCNoKeys == {}
MCScheduleKeys == {sweep}
=============================================================================
