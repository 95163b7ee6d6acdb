-------------------------------- MODULE Pmap --------------------------------
(***************************************************************************)
(* inf20-1/main.c: pmap_process applies a function to an array in N child  *)
(* processes.  Child number id computes the indices id, id + N, id + 2N... *)
(* into shared memory, posts a semaphore and exits; the parent waits for N *)
(* posts and for N children, destroys the semaphore and returns the array. *)
(*                                                                         *)
(* fork may fail, the user's function may kill the child it runs in, and a *)
(* signal the caller handles may interrupt sem_wait and waitpid: the code  *)
(* looks at none of their results.  Other children of the caller, which a  *)
(* waitpid for the -1 of a failed fork would reap too, are left out.       *)
(* Values are abstracted: a cell is computed or still the 0 of new memory. *)
(***************************************************************************)
EXTENDS Naturals, FiniteSets

CONSTANTS
  N,       \* number of processors, and of children (get_nprocs)
  Count,   \* number of elements
  Faults   \* how many forks and children may fail (a bound for TLC)

ASSUME ArgsAssumption == N \in Nat \ {0} /\ Count \in Nat /\ Faults \in Nat

Children == 0 .. N - 1
Index == 0 .. Count - 1

VARIABLES
  child,    \* state of each child process
  next,     \* its loop variable j
  result,   \* the shared array
  sem,      \* value of the semaphore
  state,    \* the memory of the semaphore: in use or destroyed and unmapped
  parent,   \* the parent: where it is and the index of its loop
  reaped,   \* children a waitpid has returned
  interrupted  \* the loops of the parent in which a call was interrupted

vars == <<child, next, result, sem, state, parent, reaped, interrupted>>

\* Children that fork did not create or that died before their sem_post.
Failed == {id \in Children : child[id] \in {"missing", "crashed"}}

Ended(id) == child[id] \in {"exited", "crashed"}

Running(id) == child[id] \in {"loop", "post", "waking"}

-----------------------------------------------------------------------------

\* create_state and the mmap of the result have been made.
Init ==
  /\ child = [id \in Children |-> "none"]
  /\ next = [id \in Children |-> id]
  /\ result = [i \in Index |-> "zero"]
  /\ sem = 0
  /\ state = "shared"
  /\ parent = [at |-> "fork", index |-> 0]
  /\ reaped = {}
  /\ interrupted = {}

(* Child processes.                                                        *)

\* One turn of the loop over j, or its end.
Compute(id) ==
  /\ child[id] = "loop"
  /\ IF next[id] < Count
     THEN /\ result' = [result EXCEPT ![next[id]] = "computed"]
          /\ next' = [next EXCEPT ![id] = @ + N]
          /\ UNCHANGED child
     ELSE /\ child' = [child EXCEPT ![id] = "post"]
          /\ UNCHANGED <<result, next>>
  /\ UNCHANGED <<sem, state, parent, reaped, interrupted>>

\* A mutated Post: forgotten.
PostNothing(id) ==
  /\ child[id] = "post"
  /\ child' = [child EXCEPT ![id] = "waking"]
  /\ UNCHANGED <<next, result, sem, state, parent, reaped, interrupted>>

\* sem_post makes the new value visible to the parent before it is done with
\* the semaphore: it has the waiters still to wake.
Post(id) ==
  /\ child[id] = "post"
  /\ sem' = sem + 1
  /\ child' = [child EXCEPT ![id] = "waking"]
  /\ UNCHANGED <<next, result, state, parent, reaped, interrupted>>

Exit(id) ==
  /\ child[id] = "waking"
  /\ child' = [child EXCEPT ![id] = "exited"]
  /\ UNCHANGED <<next, result, sem, state, parent, reaped, interrupted>>

\* The function kills its process.
Crash(id) ==
  /\ child[id] = "loop" /\ next[id] < Count
  /\ Cardinality(Failed) < Faults
  /\ child' = [child EXCEPT ![id] = "crashed"]
  /\ UNCHANGED <<next, result, sem, state, parent, reaped, interrupted>>

Child(id) == Compute(id) \/ Post(id) \/ Exit(id)

(* The parent.                                                             *)

\* The parent's loops all run from 0 to N - 1.
Loop(then) ==
  parent' = IF parent.index + 1 < N
            THEN [parent EXCEPT !.index = @ + 1]
            ELSE [at |-> then, index |-> 0]

Fork ==
  /\ parent.at = "fork"
  /\ child' = [child EXCEPT ![parent.index] = "loop"]
  /\ Loop("wait")
  /\ UNCHANGED <<next, result, sem, state, reaped, interrupted>>

\* fork returns -1, which the code does not look at.
ForkFails ==
  /\ parent.at = "fork"
  /\ Cardinality(Failed) < Faults
  /\ child' = [child EXCEPT ![parent.index] = "missing"]
  /\ Loop("wait")
  /\ UNCHANGED <<next, result, sem, state, reaped, interrupted>>

SemWait ==
  /\ parent.at = "wait"
  /\ sem > 0
  /\ sem' = sem - 1
  /\ Loop("reap")
  /\ UNCHANGED <<child, next, result, state, reaped, interrupted>>

\* A signal interrupts sem_wait, which returns -1 with nothing taken.
SemWaitInterrupted ==
  /\ parent.at = "wait"
  /\ sem = 0
  /\ Loop("reap")
  /\ interrupted' = interrupted \cup {"wait"}
  /\ UNCHANGED <<child, next, result, sem, state, reaped>>

\* The children one of which the call of waitpid is for.  The -1 of a failed
\* fork stands for every child that has not been waited for.
Awaited ==
  (IF child[parent.index] = "missing"
   THEN {id \in Children : Running(id) \/ Ended(id)}
   ELSE {parent.index}) \ reaped

\* A mutated WaitPid: WNOHANG.
WaitPidNoHang ==
  /\ parent.at = "reap"
  /\ Loop("delete")
  /\ UNCHANGED <<child, next, result, sem, state, reaped, interrupted>>

\* waitpid returns a child that has ended, or ECHILD at once if no child that it
\* could be for is left.
WaitPid ==
  /\ parent.at = "reap"
  /\ \/ \E id \in Awaited : Ended(id) /\ reaped' = reaped \cup {id}
     \/ Awaited = {} /\ UNCHANGED reaped
  /\ Loop("delete")
  /\ UNCHANGED <<child, next, result, sem, state, interrupted>>

WaitPidInterrupted ==
  /\ parent.at = "reap"
  /\ Awaited # {} /\ \A id \in Awaited : ~Ended(id)
  /\ Loop("delete")
  /\ interrupted' = interrupted \cup {"reap"}
  /\ UNCHANGED <<child, next, result, sem, state, reaped>>

\* delete_state, and the return of the result.  A child still running keeps its
\* own mapping of what the parent unmaps.
DeleteState ==
  /\ parent.at = "delete"
  /\ state' = "deleted"
  /\ parent' = [parent EXCEPT !.at = "returned"]
  /\ UNCHANGED <<child, next, result, sem, reaped, interrupted>>

Parent == Fork \/ SemWait \/ WaitPid \/ DeleteState

-----------------------------------------------------------------------------

Returned == parent.at = "returned" /\ UNCHANGED vars

Next ==
  \/ Parent
  \/ ForkFails \/ SemWaitInterrupted \/ WaitPidInterrupted
  \/ \E id \in Children : Child(id) \/ Crash(id)
  \/ Returned

Spec == Init /\ [][Next]_vars

\* Every process that can run does; nothing has to fail or be interrupted.
FairSpec ==
  /\ Spec
  /\ WF_vars(Parent)
  /\ \A id \in Children : WF_vars(Child(id))

-----------------------------------------------------------------------------
(* Properties.                                                             *)

TypeOK ==
  /\ child \in [Children -> {"none", "missing", "loop", "crashed", "post", "waking",
                             "exited"}]
  /\ next \in [Children -> Nat]
  /\ result \in [Index -> {"zero", "computed"}]
  /\ sem \in 0 .. N
  /\ state \in {"shared", "deleted"}
  /\ parent \in [at : {"fork", "wait", "reap", "delete", "returned"}, index : Children]
  /\ reaped \in SUBSET Children
  /\ interrupted \in SUBSET {"wait", "reap"}

\* Either loop of the parent is enough for a complete array: that of sem_wait if
\* none of its calls is interrupted, whatever forks and children fail and whatever
\* happens in waitpid, and that of waitpid if none of its calls is interrupted and
\* no fork or child has failed (inf20-1/main.c:54-73).
ReturnsComplete ==
  /\ parent.at = "returned"
  /\ \/ "wait" \notin interrupted
     \/ "reap" \notin interrupted /\ Failed = {}
  => \A i \in Index : result[i] = "computed"

\* Unless a waitpid was interrupted, no child is inside sem_post, or still to call
\* it, when the parent destroys the semaphore, whatever fails and however many
\* calls of sem_wait returned without a post (lines 59, 66, 69-72).
NoPostAfterDestroy ==
  state = "deleted" /\ "reap" \notin interrupted => \A id \in Children : ~Running(id)

\* If no sem_wait was interrupted, every fork has succeeded and every child has
\* made its post when the parent gets to waitpid, so that the -1 of a failed fork
\* is never waited for (lines 55, 65-71).
ReapsOwnChildren ==
  parent.at \in {"reap", "delete", "returned"} /\ "wait" \notin interrupted =>
    \A id \in Children : child[id] \in {"waking", "exited"}

\* The parent is blocked: in sem_wait, or in waitpid.
Blocked ==
  \/ parent.at = "wait" /\ sem = 0
  \/ parent.at = "reap" /\ Awaited # {} /\ \A id \in Awaited : ~Ended(id)

\* A parent blocked in waitpid, and unless a fork or a child has failed also one
\* blocked in sem_wait, is waiting for a child that still runs and has its exit or
\* its post to make: no post is lost and no child is waited for twice (lines 54-71).
BlockedForARunningChild ==
  Blocked /\ (parent.at = "wait" => Failed = {}) => \E id \in Children : Running(id)

\* Unless a fork or a child fails, pmap_process returns.
Returns == <>(Failed # {} \/ parent.at = "returned")
=============================================================================
