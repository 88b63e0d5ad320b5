------------------------------- MODULE TaskPool -------------------------------
(***************************************************************************)
(* What a WorkQueue (libupnpp/workqueue.h) promises to its users, without  *)
(* the mutex, the condition variables and the counters: a bounded FIFO of  *)
(* tasks that is fed and emptied only while the pool runs, each task going *)
(* to one worker, and a waitIdle() that returns to a quiet pool.           *)
(***************************************************************************)
EXTENDS Naturals, Sequences

CONSTANTS
  Tasks,    \* the tasks
  Clients,  \* the threads that put tasks and wait for the pool to be idle
  Workers,  \* the threads that take tasks
  Bound,    \* the most tasks that can be pending, 0 for no limit
  Polls     \* do workers get called back when no task comes?

VARIABLES
  pending,  \* the tasks accepted and not delivered, oldest first
  running,  \* are there workers, and has none of them been told to stop?
  busy,     \* the workers that may be executing a task
  idlers    \* the clients waiting for the pool to be idle

vars == <<pending, running, busy, idlers>>

Init ==
  /\ pending = <<>>
  /\ running = FALSE
  /\ busy = {}
  /\ idlers = {}

\* Workers are added; the pool runs, unless a worker's failure stopped it.
Begin(new) ==
  /\ new # {}
  /\ busy' = busy \cup new
  /\ running' \in {running, TRUE}
  /\ UNCHANGED <<pending, idlers>>

\* A task is accepted, after the others or instead of them.
Accept(t, kept) ==
  /\ running
  /\ kept \in {pending, <<>>}
  /\ pending' = Append(kept, t)
  /\ Bound > 0 => Len(pending') <= Bound
  /\ UNCHANGED <<running, busy, idlers>>

\* A worker gets the oldest task, and has finished the one it had, if any.
Deliver(w) ==
  /\ running
  /\ pending # <<>>
  /\ pending' = Tail(pending)
  /\ busy' = busy \cup {w}
  /\ UNCHANGED <<running, idlers>>

\* A worker gets no task before its timeout, and is called back with none.
Poll(w) ==
  /\ Polls
  /\ w \notin busy
  /\ busy' = busy \cup {w}
  /\ UNCHANGED <<pending, running, idlers>>

Finish(w) ==
  /\ busy' = busy \ {w}
  /\ UNCHANGED <<pending, running, idlers>>

\* The owner, or a worker that fails, stops the pool.
Stop ==
  /\ running' = FALSE
  /\ \/ UNCHANGED busy
     \/ \E w \in Workers : busy' = busy \ {w}
  /\ UNCHANGED <<pending, idlers>>

WaitIdle(c) ==
  /\ idlers' = idlers \cup {c}
  /\ UNCHANGED <<pending, running, busy>>

\* waitIdle() ends: nobody works, and nobody is going to.
Idle(c) ==
  /\ busy = {}
  /\ pending = <<>> \/ ~running
  /\ idlers' = idlers \ {c}
  /\ UNCHANGED <<pending, running, busy>>

Next ==
  \/ \E new \in SUBSET Workers : Begin(new)
  \/ \E t \in Tasks, kept \in {pending, <<>>} : Accept(t, kept)
  \/ Stop
  \/ \E w \in Workers : Deliver(w) \/ Poll(w) \/ Finish(w)
  \/ \E c \in Clients : WaitIdle(c) \/ Idle(c)

Spec == Init /\ [][Next]_vars
=============================================================================
