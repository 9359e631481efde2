--------------------------- MODULE DeferredTasks ---------------------------
(***************************************************************************)
(* What a user of polybar's task queue may rely on, one automaton per      *)
(* deferred task and no thread, lock or clock in sight.                    *)
(*                                                                         *)
(* A task is admitted with a number of calls it is owed.  While it is      *)
(* pending it is called at most that many times.  Once it is withdrawn     *)
(* (purged, or dropped after its last call) it is owed at most one more    *)
(* call: the one that had already been picked up when it was withdrawn.    *)
(***************************************************************************)
EXTENDS Naturals

CONSTANT Tasks     \* identities of the tasks that are ever deferred

VARIABLES
  status,          \* "new", "pending" or "gone"
  owed,            \* calls the task may still receive
  called           \* calls the task has received

contractVars == <<status, owed, called>>

ContractTypeOK ==
  /\ status \in [Tasks -> {"new", "pending", "gone"}]
  /\ owed \in [Tasks -> Nat]
  /\ called \in [Tasks -> Nat]

ContractInit ==
  /\ status = [t \in Tasks |-> "new"]
  /\ owed = [t \in Tasks |-> 0]
  /\ called = [t \in Tasks |-> 0]

(* A task becomes pending, owed some number of calls.                      *)
Admit(t) ==
  /\ status[t] = "new"
  /\ status' = [status EXCEPT ![t] = "pending"]
  /\ owed' \in [Tasks -> Nat]
  /\ \A u \in Tasks \ {t} : owed'[u] = owed[u]
  /\ UNCHANGED called

(* One call of a task that is owed one, pending or already withdrawn.      *)
Call(t) ==
  /\ owed[t] > 0
  /\ owed' = [owed EXCEPT ![t] = @ - 1]
  /\ called' = [called EXCEPT ![t] = @ + 1]
  /\ UNCHANGED status

(* The tasks of S are withdrawn together; each keeps at most one call.     *)
Withdraw(S) ==
  /\ \A t \in S : status[t] = "pending"
  /\ status' = [t \in Tasks |-> IF t \in S THEN "gone" ELSE status[t]]
  /\ owed' \in [Tasks -> Nat]
  /\ \A t \in S : owed'[t] <= owed[t] /\ owed'[t] <= 1
  /\ \A t \in Tasks \ S : owed'[t] = owed[t]
  /\ UNCHANGED called

ContractNext ==
  \/ \E t \in Tasks : Admit(t) \/ Call(t)
  \/ \E S \in SUBSET Tasks : Withdraw(S)

Contract == ContractInit /\ [][ContractNext]_contractVars
=============================================================================
