----------------------------- MODULE MCRunQueue -----------------------------
(* RunQueue under two workloads. *)
EXTENDS RunQueue

\* Tasks that kill and terminate each other and never wait; and tasks that
\* also stop, continue and wait, of which there are two.
MCWorkloads == {[sigs |-> {SIGKILL, SIGTERM}, waiters |-> {}],
                [sigs |-> {SIGKILL, SIGCONT, SIGSTOP}, waiters |-> {1, 2}]}

TwoWaiters == calls.waiters # {} => pool_index <= 2
=============================================================================
