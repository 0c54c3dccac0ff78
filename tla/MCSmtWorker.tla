----------------------------- MODULE MCSmtWorker ------------------------------
(* Instance of SmtWorker: the two jobs of a batch; with either order of    *)
(* the worker's stores, and a thread that cannot be created at first.      *)
EXTENDS SmtWorker

MCJobs == <<"fp", "fxu">>
=============================================================================
