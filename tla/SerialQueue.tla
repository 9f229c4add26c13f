----------------------------- MODULE SerialQueue -----------------------------
(***************************************************************************)
(* What the header comment of keyed_queue.ts promises of KeyedAsyncQueue:  *)
(* tasks given to the same key run one at a time and in the order of the   *)
(* run() calls, whatever their outcome, and keys do not wait for each      *)
(* other.  Calls are numbered 1, 2, ... in the order they are made.        *)
(***************************************************************************)
EXTENDS Naturals

CONSTANTS Key,        \* the grouping keys
          MaxCalls,   \* bound on the number of run() calls
          Hung        \* keys whose task may never settle (a subset of Key)


Task == 1 .. MaxCalls

VARIABLES key,      \* key[t]: the key the t-th call is made with
          calls,    \* number of calls made so far
          running,  \* tasks that have begun and are not settled
          done      \* settled tasks

vars == <<key, calls, running, done>>

Init ==
    /\ key \in [Task -> Key]
    /\ calls = 0
    /\ running = {}
    /\ done = {}

Submit ==
    /\ calls < MaxCalls
    /\ calls' = calls + 1
    /\ UNCHANGED <<key, running, done>>

\* A task begins once every earlier task of its key is settled.
Begin(t) ==
    /\ t <= calls
    /\ t \notin running \cup done
    /\ \A u \in Task : u < t /\ key[u] = key[t] => u \in done
    /\ running' = running \cup {t}
    /\ UNCHANGED <<key, calls, done>>

Settle(t) ==
    /\ t \in running
    /\ running' = running \ {t}
    /\ done' = done \cup {t}
    /\ UNCHANGED <<key, calls>>

Next == Submit \/ \E t \in Task : Begin(t) \/ Settle(t)

Fairness ==
    \A t \in Task : WF_vars(Begin(t)) /\ WF_vars(key[t] \notin Hung /\ Settle(t))

Spec == Init /\ [][Next]_vars /\ Fairness
=============================================================================
