------------------------------ MODULE WaitQueue ------------------------------
(***************************************************************************)
(* The bounded queue of the engine: template WaitQueue.  A queue is a      *)
(* record of its contents and of the threads asleep on its two condition   *)
(* variables; each operator is the critical section of data_mut in one     *)
(* method, between waits.  An operator that notifies yields the set of the *)
(* queues that may result, one for each thread that may be woken.          *)
(*                                                                         *)
(* empty, size, try_pop and try_push are never called.                     *)
(***************************************************************************)
EXTENDS Naturals, Sequences

EmptyQueue == [data_queue |-> << >>, cnd_if_not_full |-> {}, cnd_if_not_empty |-> {}]

\* Whatever is left of a wait set after notify_one.
NotifyOne(sleepers) ==
  IF sleepers = {} THEN {{}} ELSE {sleepers \ {t} : t \in sleepers}

Asleep(q, t) == t \in q.cnd_if_not_full \cup q.cnd_if_not_empty

IsEmpty(q) == q.data_queue = << >>

\* Mutant: one more than the capacity.
IsFullBeyond(q, capacity) == Len(q.data_queue) > capacity

IsFull(q, capacity) == Len(q.data_queue) >= capacity

\* wait_and_pop: what it returns, and the queue once it has.
Front(q) == Head(q.data_queue)
Popped(q) ==
  {[q EXCEPT !.data_queue = Tail(@), !.cnd_if_not_full = s] : s \in NotifyOne(q.cnd_if_not_full)}

SleepToPop(q, t) == [q EXCEPT !.cnd_if_not_empty = @ \cup {t}]

\* Mutant: nobody is notified.
PushedWithoutNotify(q, v) == {[q EXCEPT !.data_queue = Append(@, v)]}

\* wait_and_push
Pushed(q, v) ==
  {[q EXCEPT !.data_queue = Append(@, v), !.cnd_if_not_empty = s] :
     s \in NotifyOne(q.cnd_if_not_empty)}

SleepToPush(q, t) == [q EXCEPT !.cnd_if_not_full = @ \cup {t}]

\* A thread may wake without being notified.
WokenSpuriously(q) ==
  {[q EXCEPT !.cnd_if_not_full = @ \ {t}, !.cnd_if_not_empty = @ \ {t}] :
     t \in q.cnd_if_not_full \cup q.cnd_if_not_empty}
=============================================================================
