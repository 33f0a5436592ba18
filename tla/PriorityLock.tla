----------------------------- MODULE PriorityLock -----------------------------
(***************************************************************************)
(* The lock that orders transaction admissions and commits                 *)
(* (consensus.PriorityLockQueue).  A caller that finds the lock taken puts *)
(* a channel into the queue and waits for it to be closed; Unlock hands    *)
(* the lock over to the head of the queue without releasing it.  Every     *)
(* method is atomic: its body runs under the inner mutex.                  *)
(***************************************************************************)
EXTENDS Naturals, Sequences, FiniteSets

CONSTANT Procs   \* the goroutines that use the lock

VARIABLES
  active,   \* PriorityLockQueue.active
  queue,    \* PriorityLockQueue.queue: the callers that wait
  inside    \* the callers whose lock() has returned and who did not unlock yet

lockVars == <<active, queue, inside>>

LockInit ==
  /\ active = FALSE
  /\ queue = <<>>
  /\ inside = {}

Waiting == {queue[i] : i \in 1 .. Len(queue)}

LockTypeOK ==
  /\ active \in BOOLEAN
  /\ queue \in Seq(Procs)
  /\ inside \subseteq Procs

----------------------------------------------------------------------------
\* lock(): the caller goes on at once or waits at the place newQueue gives it.
Acquire(p, newQueue) ==
  /\ p \notin inside /\ p \notin Waiting
  /\ \/ /\ ~active
        /\ active' = TRUE
        /\ inside' = inside \cup {p}
        /\ UNCHANGED queue
     \/ /\ active
        /\ queue' = newQueue
        /\ UNCHANGED <<active, inside>>

\* Lock(): the back of the line.
Lock(p) == Acquire(p, Append(queue, p))

\* Mutated form: a priority caller waits like any other.
PriorityLast(p) == Acquire(p, Append(queue, p))

\* PriorityLock(): the front of the line.
Priority(p) == Acquire(p, <<p>> \o queue)

\* Mutated form: Unlock wakes the next caller and frees the lock as well.
UnlockFrees(p) ==
  /\ p \in inside
  /\ active' = FALSE
  /\ IF queue = <<>>
     THEN inside' = inside \ {p} /\ UNCHANGED queue
     ELSE inside' = (inside \ {p}) \cup {Head(queue)} /\ queue' = Tail(queue)

\* Unlock(): free the lock, or close the channel of the first in line, who
\* then holds it.
Unlock(p) ==
  /\ p \in inside
  /\ \/ /\ queue = <<>>
        /\ active' = FALSE
        /\ inside' = inside \ {p}
        /\ UNCHANGED queue
     \/ /\ queue # <<>>
        /\ inside' = (inside \ {p}) \cup {Head(queue)}
        /\ queue' = Tail(queue)
        /\ UNCHANGED active

LockNext == \E p \in Procs : Lock(p) \/ Priority(p) \/ Unlock(p)

LockSpec == LockInit /\ [][LockNext]_lockVars

----------------------------------------------------------------------------
\* At most one caller is between lock() and Unlock(), whatever mixture of
\* ordinary and priority callers meets in the queue.
MutualExclusion == \A p, q \in inside : p = q

\* No hand-over is lost: callers wait only while somebody holds the lock, and
\* each of them waits in one place of the queue.
NoLostHandover ==
  /\ active <=> inside # {}
  /\ ~active => queue = <<>>
  /\ \A i, j \in 1 .. Len(queue) : queue[i] = queue[j] => i = j
  /\ Waiting \cap inside = {}
=============================================================================
