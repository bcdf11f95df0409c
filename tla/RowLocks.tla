------------------------------ MODULE RowLocks ------------------------------
(***************************************************************************)
(* Transactions as the program gets them from db.WithTx: PostgreSQL at its  *)
(* default isolation level, READ COMMITTED.  A statement that writes a row, *)
(* or selects it FOR UPDATE, locks it until the transaction ends; a plain   *)
(* SELECT sees the last committed version, or the transaction's own.        *)
(*                                                                         *)
(* A row has a committed version, com[r], and a working one, cur[r], which  *)
(* differ only while a transaction holds the row.  One working version is   *)
(* enough: nobody but the holder of the lock can write the row.             *)
(***************************************************************************)
CONSTANTS Tx,      \* sessions of the connection pool, one transaction each
          NoTx,    \* the holder of a row that nobody has locked
          Row,     \* the rows, of whatever tables
          Value    \* what a row may hold

VARIABLES com, cur, lock

DBTypeOK == /\ com  \in [Row -> Value]
            /\ cur  \in [Row -> Value]
            /\ lock \in [Row -> Tx \cup {NoTx}]

DBInit(init) == /\ com  = init
                /\ cur  = init
                /\ lock = [r \in Row |-> NoTx]

(***************************************************************************)
(* Reading.                                                                *)
(***************************************************************************)
Visible(t, r) == IF lock[r] = t THEN cur[r] ELSE com[r]

Available(t, r) == lock[r] \in {t, NoTx}

(***************************************************************************)
(* Locking and writing one row.  Not enabled while another transaction has  *)
(* the row: the statement waits.                                           *)
(***************************************************************************)
Write(t, r, v) == /\ Available(t, r)
                  /\ lock' = [lock EXCEPT ![r] = t]
                  /\ cur'  = [cur EXCEPT ![r] = v]
                  /\ UNCHANGED com

LockRow(t, r) == Write(t, r, cur[r])

\* A single UPDATE outside any transaction commits by itself.
Update(r, v) == /\ lock[r] = NoTx
                /\ com' = [com EXCEPT ![r] = v]
                /\ cur' = [cur EXCEPT ![r] = v]
                /\ UNCHANGED lock

(***************************************************************************)
(* Ending a transaction.                                                   *)
(***************************************************************************)
Release(t) == lock' = [r \in Row |-> IF lock[r] = t THEN NoTx ELSE lock[r]]

Commit(t) == /\ com' = [r \in Row |-> Visible(t, r)]
             /\ Release(t)
             /\ UNCHANGED cur

\* Mutant: an early return forgets the rollback.
RollbackForgotten(t) == UNCHANGED <<com, cur, lock>>

Rollback(t) == /\ cur' = [r \in Row |-> IF lock[r] = t THEN com[r] ELSE cur[r]]
               /\ Release(t)
               /\ UNCHANGED com

(***************************************************************************)
(* The server aborts a transaction that waits on a cycle of transactions.   *)
(* want[t] is the set of rows t's next statement has to lock.  A cycle is a *)
(* set whose members each wait for a member and are each waited for by one. *)
(***************************************************************************)
WaitsFor(t, u, want) == \E r \in want[t] : u # t /\ lock[r] = u

OnCycle(t, want) ==
    \E C \in SUBSET Tx :
       /\ t \in C
       /\ \A u \in C : /\ \E v \in C : WaitsFor(u, v, want)
                       /\ \E v \in C : WaitsFor(v, u, want)

(***************************************************************************)
(* Isolation: a row whose working version is not the committed one is held. *)
(***************************************************************************)
DirtyIsLocked == \A r \in Row : cur[r] # com[r] => lock[r] # NoTx
=============================================================================
