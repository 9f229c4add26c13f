------------------------------ MODULE KeyedQueue ------------------------------
(***************************************************************************)
(* KeyedAsyncQueue of nacos-config/src/keyed_queue.ts.  The queue keeps no *)
(* list of tasks: run() chains the task on the promise the map `tails'     *)
(* holds for the key and replaces that promise by the task's own tail.     *)
(* Serial execution, order and clean-up all rest on which promise a call   *)
(* finds in the map, so the model keeps exactly that link.                 *)
(*                                                                         *)
(* Calls are numbered in the order they are made; the tail promise of the  *)
(* t-th call is named t.  Promise reactions are steps of their own: other  *)
(* JavaScript jobs, in particular further run() calls, come between them.  *)
(* QueueInit and its like are named so that ConfigSubscriptionProofs can   *)
(* extend this module beside that of the subscription the queue serves.    *)
(***************************************************************************)
EXTENDS Naturals

CONSTANTS Key,       \* the grouping keys
          MaxRuns,   \* bound on the number of run() calls
          Hung       \* keys whose task may never settle (an await without answer)

ASSUME KeyedQueueAssumption == MaxRuns \in Nat /\ Hung \subseteq Key

Task        == 1 .. MaxRuns
NoTail      == 0
TailPromise == Task \cup {NoTail}

Status == {"new", "chained", "running", "fulfilled", "rejected", "drained"}

VARIABLES key,    \* key[t]: the key the t-th call is made with
          calls,  \* number of run() calls made so far
          prev,   \* prev[t]: the tail the t-th call was chained on
          st,     \* st[t]: where task t and the promises made for it stand
          tails   \* tails[k]: the promise the map holds for k, NoTail when none

queueVars == <<key, calls, prev, st, tails>>

Settled(t) == st[t] \in {"fulfilled", "rejected", "drained"}

-----------------------------------------------------------------------------
QueueInit ==
    /\ key \in [Task -> Key]
    /\ calls = 0
    /\ prev = [t \in Task |-> NoTail]
    /\ st = [t \in Task |-> "new"]
    /\ tails = [k \in Key |-> NoTail]

\* Faulty variant: the new tail is not stored in the map.
RunForgetsTail ==
    /\ calls < MaxRuns
    /\ LET t == calls + 1 IN
         /\ calls' = t
         /\ prev' = [prev EXCEPT ![t] = tails[key[t]]]
         /\ st' = [st EXCEPT ![t] = "chained"]
    /\ UNCHANGED <<key, tails>>

\* run(key, task): the synchronous part of the call.
Run ==
    /\ calls < MaxRuns
    /\ LET t == calls + 1 IN
         /\ calls' = t
         /\ prev' = [prev EXCEPT ![t] = tails[key[t]]]
         /\ st' = [st EXCEPT ![t] = "chained"]
         /\ tails' = [tails EXCEPT ![key[t]] = t]
    /\ UNCHANGED key

\* The reaction prev.then(() => task()).  It is queued behind the clean-up of
\* prev, which run() registered on that promise first.
Start(t) ==
    /\ st[t] = "chained"
    /\ prev[t] # NoTail => st[prev[t]] = "drained"
    /\ st' = [st EXCEPT ![t] = "running"]
    /\ UNCHANGED <<key, calls, prev, tails>>

\* The task's own promise settles, either way.
Settle(t) ==
    /\ st[t] = "running"
    /\ \E outcome \in {"fulfilled", "rejected"} :
         st' = [st EXCEPT ![t] = outcome]
    /\ UNCHANGED <<key, calls, prev, tails>>

\* Faulty variant: the tail follows the task's rejection instead of hiding it.
DrainOnSuccess(t) ==
    /\ st[t] = "fulfilled"
    /\ st' = [st EXCEPT ![t] = "drained"]
    /\ tails' = IF tails[key[t]] = t THEN [tails EXCEPT ![key[t]] = NoTail] ELSE tails
    /\ UNCHANGED <<key, calls, prev>>

\* Faulty variant: the entry is deleted without asking whose it is.
DrainAlwaysDeletes(t) ==
    /\ st[t] \in {"fulfilled", "rejected"}
    /\ st' = [st EXCEPT ![t] = "drained"]
    /\ tails' = [tails EXCEPT ![key[t]] = NoTail]
    /\ UNCHANGED <<key, calls, prev>>

\* Faulty variant: the entry is never deleted.
DrainKeepsEntry(t) ==
    /\ st[t] \in {"fulfilled", "rejected"}
    /\ st' = [st EXCEPT ![t] = "drained"]
    /\ UNCHANGED <<key, calls, prev, tails>>

\* The tail resolves, whatever the outcome, and its clean-up reaction deletes
\* the entry if the map still holds this tail.
Drain(t) ==
    /\ st[t] \in {"fulfilled", "rejected"}
    /\ st' = [st EXCEPT ![t] = "drained"]
    /\ tails' = IF tails[key[t]] = t THEN [tails EXCEPT ![key[t]] = NoTail] ELSE tails
    /\ UNCHANGED <<key, calls, prev>>

QueueNext == Run \/ \E t \in Task : Start(t) \/ Settle(t) \/ Drain(t)

\* Reactions run because the event loop is never starved; a task settles when
\* what it awaits does, which is assumed of every key outside Hung.
QueueFairness ==
    \A t \in Task : /\ WF_queueVars(Start(t))
                    /\ WF_queueVars(key[t] \notin Hung /\ Settle(t))
                    /\ WF_queueVars(Drain(t))

QueueSpec == QueueInit /\ [][QueueNext]_queueVars /\ QueueFairness

-----------------------------------------------------------------------------
\* Type correctness of the queue's state.
QueueTypeOK ==
    /\ key \in [Task -> Key]
    /\ calls \in 0 .. MaxRuns
    /\ prev \in [Task -> TailPromise]
    /\ st \in [Task -> Status]
    /\ tails \in [Key -> TailPromise]

\* Two tasks of one key are never both between their begin and the settling of
\* their promise (keyed_queue.ts:5), although no list of tasks is kept.
SerialPerKey ==
    \A t, u \in Task : st[t] = "running" /\ st[u] = "running" /\ key[t] = key[u] => t = u

\* The map holds for every key the tail of the last call that is not drained
\* and nothing when all are: a new call always chains on the end of the line
\* (keyed_queue.ts:30-35), and an idle key costs no memory (keyed_queue.ts:8).
Live(k) == {t \in Task : t <= calls /\ key[t] = k /\ st[t] # "drained"}

MapHoldsLastLive ==
    \A k \in Key :
        \/ tails[k] = NoTail /\ Live(k) = {}
        \/ tails[k] \in Live(k) /\ \A u \in Live(k) : u <= tails[k]

\* KeyedAsyncQueue implements the serial queue its header promises.
Promised == INSTANCE SerialQueue WITH
    MaxCalls <- MaxRuns,
    running <- {t \in Task : st[t] = "running"},
    done    <- {t \in Task : Settled(t)}

ImplementsSerialQueue == Promised!Spec

\* A call on a key whose tasks all settle is eventually served, even when an
\* earlier task was rejected and when another key is stuck forever
\* (keyed_queue.ts:6-7).
EveryCallServed ==
    \A t \in Task : (st[t] = "chained" /\ key[t] \notin Hung) ~> Settled(t)
=============================================================================
