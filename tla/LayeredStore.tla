----------------------------- MODULE LayeredStore -----------------------------
(***************************************************************************)
(* LayeredStore over a list of backends, for one key.  put_if_absent first *)
(* reads every backend, then writes them in turn and takes back what it    *)
(* wrote when one of them fails; remove and clear go on past errors.       *)
(*                                                                         *)
(* ContextCache calls put_if_absent under its lock, so one thread puts;    *)
(* invalidate and clear call remove and clear without it.  A backend is a  *)
(* VolatileStore or a FileStore: one lock or one file, so each call to it  *)
(* is a step.                                                              *)
(***************************************************************************)
EXTENDS Naturals, FiniteSets

CONSTANTS
    Backends,   \* number of backends
    Volatile,   \* the backends that a restart empties
    Removers,   \* threads inside invalidate or clear
    Entries,    \* StoredEntry
    MaxErrors,  \* bound: backend calls that fail
    MaxCalls    \* bound: calls of put_if_absent

NoEntry == "none"

BackendsAssumption ==
    /\ Backends \in Nat \ {0} /\ Volatile \subseteq 1..Backends
    /\ MaxErrors \in Nat /\ MaxCalls \in Nat /\ NoEntry \notin Entries

Stores == 1..Backends

VARIABLES
    stores,    \* what each backend holds under the key
    put,       \* the running put_if_absent
    remover,   \* remover[r]: the next backend of r's removal, 0 when idle
    errors,    \* bound: errors so far
    calls      \* bound: puts so far

vars == <<stores, put, remover, errors, calls>>

\* before and disturbed are history: the backends that held the key when the call
\* began, and whether a removal ran or failed meanwhile.
Idle == [pc |-> "idle", entry |-> NoEntry, at |-> 1, inserted |-> {}, before |-> {},
         disturbed |-> FALSE]

Init ==
    /\ stores = [i \in Stores |-> NoEntry]
    /\ put = Idle
    /\ remover = [r \in Removers |-> 0]
    /\ errors = 0 /\ calls = 0

Holding == {i \in Stores : stores[i] # NoEntry}
Failing == errors < MaxErrors /\ errors' = errors + 1
Removing == \E r \in Removers : remover[r] # 0

-----------------------------------------------------------------------------
(* put_if_absent.                                                          *)

PutIfAbsent(e) ==
    /\ put.pc \in {"idle", "ok", "error"} /\ calls < MaxCalls
    /\ calls' = calls + 1
    /\ put' = [Idle EXCEPT !.pc = "check", !.entry = e, !.before = Holding,
                       !.disturbed = Removing]
    /\ UNCHANGED <<stores, remover, errors>>

\* Mutant: the writes begin where the comparison left off.
CheckedFromSecond(c) ==
    IF c.at = Backends THEN [c EXCEPT !.pc = "write"] ELSE [c EXCEPT !.at = @ + 1]

\* What the call does once it has looked at the backend it is at.
Checked(c) ==
    IF c.at = Backends THEN [c EXCEPT !.pc = "write", !.at = 1] ELSE [c EXCEPT !.at = @ + 1]

\* A backend that holds something else ends the call.
Check ==
    /\ put.pc = "check"
    /\ put' = IF stores[put.at] \notin {NoEntry, put.entry}
              THEN [put EXCEPT !.pc = "error"] ELSE Checked(put)
    /\ UNCHANGED <<stores, remover, errors, calls>>

CheckFails ==
    /\ put.pc = "check" /\ Failing
    /\ put' = [put EXCEPT !.pc = "error"]
    /\ UNCHANGED <<stores, remover, calls>>

\* VolatileStore::put_if_absent and its like: a copy that is there stays.
Insert ==
    /\ put.pc = "write"
    /\ stores' = [stores EXCEPT ![put.at] = IF @ = NoEntry THEN put.entry ELSE @]
    /\ put' = [put EXCEPT
         !.inserted = IF stores[put.at] = NoEntry THEN @ \cup {put.at} ELSE @,
         !.pc = IF put.at = Backends THEN "ok" ELSE "write",
         !.at = IF put.at = Backends THEN 1 ELSE @ + 1]
    /\ UNCHANGED <<remover, errors, calls>>

InsertFails ==
    /\ put.pc = "write" /\ Failing
    /\ put' = [put EXCEPT !.pc = "undo"]
    /\ UNCHANGED <<stores, remover, calls>>

Undo ==
    /\ put.pc = "undo"
    /\ \E i \in put.inserted :
         /\ \A j \in put.inserted : i <= j
         /\ stores' = [stores EXCEPT ![i] = NoEntry]
         /\ put' = [put EXCEPT !.inserted = @ \ {i}]
    /\ UNCHANGED <<remover, errors, calls>>

\* The errors of a rollback are dropped, and the copies stay.
UndoFails ==
    /\ put.pc = "undo" /\ put.inserted # {} /\ Failing
    /\ \E i \in put.inserted :
         /\ \A j \in put.inserted : i <= j
         /\ put' = [put EXCEPT !.inserted = @ \ {i}, !.disturbed = TRUE]
    /\ UNCHANGED <<stores, remover, calls>>

Undone ==
    /\ put.pc = "undo" /\ put.inserted = {}
    /\ put' = [put EXCEPT !.pc = "error"]
    /\ UNCHANGED <<stores, remover, errors, calls>>

-----------------------------------------------------------------------------
(* remove and clear.                                                       *)

Disturb == put' = [put EXCEPT !.disturbed = TRUE]

Remove(r) ==
    /\ remover[r] = 0
    /\ remover' = [remover EXCEPT ![r] = 1]
    /\ Disturb
    /\ UNCHANGED <<stores, errors, calls>>

RemoveNext(r) == remover' = [remover EXCEPT ![r] = IF @ = Backends THEN 0 ELSE @ + 1]

RemoveAt(r) ==
    /\ remover[r] # 0
    /\ stores' = [stores EXCEPT ![remover[r]] = NoEntry]
    /\ RemoveNext(r) /\ Disturb
    /\ UNCHANGED <<errors, calls>>

\* The first error is kept for the end; the other backends have their turn.
RemoveFails(r) ==
    /\ remover[r] # 0 /\ Failing
    /\ RemoveNext(r)
    /\ UNCHANGED <<stores, put, calls>>

\* The process restarts; what was under way is dropped.
Restart ==
    /\ stores' = [i \in Stores |-> IF i \in Volatile THEN NoEntry ELSE stores[i]]
    /\ put' = Idle
    /\ remover' = [r \in Removers |-> 0]
    /\ UNCHANGED <<errors, calls>>

-----------------------------------------------------------------------------
Next ==
    \/ \E e \in Entries : PutIfAbsent(e)
    \/ Check \/ CheckFails \/ Insert \/ InsertFails \/ Undo \/ UndoFails \/ Undone
    \/ \E r \in Removers : Remove(r) \/ RemoveAt(r) \/ RemoveFails(r)
    \/ Restart

Spec == Init /\ [][Next]_vars

-----------------------------------------------------------------------------
(* get and load_index.                                                     *)

FirstOf(S) == CHOOSE i \in S : \A j \in S : i <= j

\* get: the first backend that has the key answers.
Get == IF Holding = {} THEN NoEntry ELSE stores[FirstOf(Holding)]

\* load_index refuses two records of the key that differ.
LoadRefused == \E i, j \in Holding : stores[i] # stores[j]

(* Properties.                                                             *)

\* Every variable has the shape of the state it stands for.
TypeOK ==
    /\ stores \in [Stores -> Entries \cup {NoEntry}]
    /\ put.pc \in {"idle", "check", "write", "undo", "ok", "error"}
    /\ put.at \in Stores /\ put.inserted \subseteq Stores
    /\ remover \in [Removers -> 0..Backends]

\* "Conflicting pre-existing replicas fail closed": at no moment, in the middle of
\* puts, rollbacks and removals and after any restart, do two backends hold
\* different entries, so load_index never has to refuse.
ReplicasAgree == ~LoadRefused

\* A put that nothing disturbed and that failed has left the backends as it found
\* them: what it wrote is gone, what was there is there.
FailureUndone == (put.pc = "error" /\ ~put.disturbed) => Holding = put.before

\* A put that nothing disturbed and that succeeded has written every backend.
SuccessReplicated ==
    (put.pc = "ok" /\ ~put.disturbed) => \A i \in Stores : stores[i] = put.entry

\* The replicas of an entry never contradict one another, and a put is all or nothing.
Safety == TypeOK /\ ReplicasAgree /\ FailureUndone /\ SuccessReplicated

=============================================================================
