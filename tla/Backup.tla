------------------------------- MODULE Backup -------------------------------
(***************************************************************************)
(* Backup and restore (internal/backup) while the shop sells, the server    *)
(* crashes and the database is lost.                                       *)
(*                                                                         *)
(* The scheduler dumps table after table into a temporary file, renames it  *)
(* and prunes the folder.  A restore replaces every table in one transaction*)
(* under TRUNCATE's exclusive locks, then moves the counters receipts are   *)
(* numbered from, which no transaction takes back.  Of the tables two are   *)
(* kept, a sale's rows in both; a row is its receipt number.  (Counters a   *)
(* column owns are truncated with their table and roll back with it.)       *)
(***************************************************************************)
EXTENDS Integers, SequencesExt, FiniteSetsExt

CONSTANTS Table,     \* the tables in the order of their names
          Keep,      \* how many snapshots are kept; 0: all
          MaxNow,    \* bound: the clock, in intervals of the scheduler
          MaxNo,     \* bound: receipt numbers
          MaxCrash,  \* bound: crashes of the server
          MaxRestore, \* bound: restores begun
          MaxLoss,   \* bound: how often the database is set up anew
          DiskFull   \* whether the last write to a file may be lost

VARIABLES data,     \* the committed rows of each table
          seq,      \* sales_receipt_seq: the next number
          files,    \* the snapshots in the folder, by time
          tmp,      \* .tmp files left in it
          made,     \* the times of all snapshots ever finished
          run,      \* the scheduler
          restore,  \* the restore in progress
          now, due, up,
          cut,      \* a restore died between moving the counters and committing
          crashes, losses, restores

vars == <<data, seq, files, tmp, made, run, restore, now, due, up, cut, crashes, losses, restores>>
dbVars == <<data, seq, restore, cut>>
fsVars == <<files, tmp, made>>
envVars == <<now, due, up, crashes, losses, restores>>

Rows == SUBSET (1 .. MaxNo)
Name(i) == Table[i]
Tables == Range(Table)

ASSUME BackupAssumption ==
    /\ Table \in Seq(STRING) /\ "sales" \in Tables
    /\ {Keep, MaxNow, MaxNo, MaxCrash, MaxLoss, MaxRestore} \subseteq Nat
    /\ DiskFull \in BOOLEAN

Empty    == [x \in {} |-> {}]
Sleeping == [pc |-> "idle", at |-> 0, next |-> 1, dump |-> Empty]
NoRestore == [pc |-> "idle", archive |-> Empty]

Init == /\ data = [n \in Tables |-> {}] /\ seq = 1
        /\ files = [x \in {} |-> Empty] /\ tmp = {} /\ made = {}
        /\ run = Sleeping /\ restore = NoRestore
        /\ now = 0 /\ due = TRUE /\ up = TRUE
        /\ cut = FALSE /\ crashes = 0 /\ losses = 0 /\ restores = 0

\* From TRUNCATE on a restore holds every table exclusively.
Exclusive == restore.pc \in {"counters", "commit"}

-----------------------------------------------------------------------------
(***************************************************************************)
(* The shop.  A sale reads tables before it draws its number, so TRUNCATE   *)
(* waits for it, or it for TRUNCATE.  A number in use fails the insert, and *)
(* so may anything after it: the number is spent all the same.              *)
(***************************************************************************)
Sell ==
    /\ up /\ ~Exclusive /\ seq <= MaxNo
    /\ seq' = seq + 1
    /\ data' \in {data} \cup (IF seq \in data["sales"] THEN {}
                              ELSE {[n \in Tables |-> data[n] \cup {seq}]})
    /\ UNCHANGED <<restore, cut, fsVars, run, envVars>>

-----------------------------------------------------------------------------
(***************************************************************************)
(* The scheduler (RunScheduler): at once when the server starts, then at    *)
(* every tick; a tick that comes during a run waits, a second one is lost.  *)
(***************************************************************************)
Tick == /\ now < MaxNow
        /\ now' = now + 1 /\ due' = TRUE
        /\ UNCHANGED <<dbVars, fsVars, run, up, crashes, losses, restores>>

\* WriteSnapshot: os.Create.
RunOnce == /\ up /\ due /\ run.pc = "idle"
           /\ run' = [Sleeping EXCEPT !.pc = "dump", !.at = now]
           /\ tmp' = tmp \cup {now}
           /\ due' = FALSE
           /\ UNCHANGED <<dbVars, files, made, now, up, crashes, losses, restores>>

\* dumpRows: a statement, and so a snapshot, of its own for each table.
DumpTable ==
    /\ run.pc = "dump" /\ run.next <= Len(Table) /\ ~Exclusive
    /\ run' = [run EXCEPT !.next = @ + 1, !.dump = [n \in DOMAIN @ \cup {Name(run.next)} |->
                                             IF n = Name(run.next) THEN data[n] ELSE @[n]]]
    /\ UNCHANGED <<dbVars, fsVars, envVars>>

\* Any error before the rename: the temporary file is removed, nothing is pruned.
DumpFails == /\ run.pc \in {"dump", "rename"}
             /\ tmp' = tmp \ {run.at}
             /\ run' = Sleeping
             /\ UNCHANGED <<dbVars, files, made, envVars>>

\* Encode, and the deferred Close of the gzip writer, whose error nobody sees.
Encode == /\ run.pc = "dump" /\ run.next > Len(Table)
          /\ \/ run' = [run EXCEPT !.pc = "rename"]
             \/ DiskFull /\ run' = [run EXCEPT !.pc = "rename", !.dump = Empty]
          /\ UNCHANGED <<dbVars, fsVars, envVars>>

Rename == /\ run.pc = "rename"
          /\ files' = [f \in DOMAIN files \cup {run.at} |-> IF f = run.at THEN run.dump ELSE files[f]]
          /\ tmp' = tmp \ {run.at}
          /\ made' = made \cup {run.at}
          /\ run' = [run EXCEPT !.pc = "rotate"]
          /\ UNCHANGED <<dbVars, envVars>>

Newer(f) == {g \in DOMAIN files : g > f}

\* Mutant: an off-by-one in matches[:len(matches)-keep].
OneTooMany == IF Keep = 0 THEN {} ELSE {f \in DOMAIN files : Cardinality(Newer(f)) >= Keep - 1}

Pruned == IF Keep = 0 THEN {} ELSE {f \in DOMAIN files : Cardinality(Newer(f)) >= Keep}

\* A file that can't be removed is left for the next run.
Rotate == /\ run.pc = "rotate"
          /\ \E gone \in SUBSET Pruned : files' = [f \in DOMAIN files \ gone |-> files[f]]
          /\ run' = Sleeping
          /\ UNCHANGED <<dbVars, tmp, made, envVars>>

-----------------------------------------------------------------------------
(***************************************************************************)
(* Restore: an administrator picks a snapshot.  It is read into memory      *)
(* before the transaction begins, which refuses one that is cut short.      *)
(***************************************************************************)
Whole(archive) == DOMAIN archive = Tables

BeginRestore(f) ==
    /\ up /\ restore.pc = "idle" /\ Whole(files[f])
    /\ restores < MaxRestore /\ restores' = restores + 1
    /\ restore' = [NoRestore EXCEPT !.pc = "truncate", !.archive = files[f]]
    /\ UNCHANGED <<data, seq, cut, fsVars, run, now, due, up, crashes, losses>>

\* TRUNCATE and insertRows for every table: nobody else sees them in between.
\* (resetSequences: the counters of columns, which roll back.)
LoadTables == /\ restore.pc = "truncate"
              /\ restore' = [restore EXCEPT !.pc = "counters"]
              /\ UNCHANGED <<data, seq, cut, fsVars, run, envVars>>

\* Mutant: a counter missing from the list of receiptSequences.
LeftAlone == seq

\* setval(GREATEST(MAX(receipt_no), 1), count > 0)
PastLargest == Max({0} \cup restore.archive["sales"]) + 1

ResetReceiptSequences ==
    /\ restore.pc = "counters"
    /\ seq' = PastLargest
    /\ restore' = [restore EXCEPT !.pc = "commit"]
    /\ UNCHANGED <<data, cut, fsVars, run, envVars>>

CommitRestore ==
    /\ restore.pc = "commit"
    /\ data' = restore.archive
    /\ restore' = NoRestore
    /\ UNCHANGED <<seq, cut, fsVars, run, envVars>>

\* The transaction rolls back; a setval does not.
Undone == /\ restore' = NoRestore
          /\ cut' = (cut \/ restore.pc = "commit")

RestoreFails == /\ restore.pc \notin {"idle"} /\ Undone
                /\ UNCHANGED <<data, seq, fsVars, run, envVars>>

-----------------------------------------------------------------------------
Crash == /\ up /\ crashes < MaxCrash
         /\ up' = FALSE /\ crashes' = crashes + 1
         /\ run' = Sleeping
         /\ Undone
         /\ UNCHANGED <<data, seq, fsVars, now, due, losses, restores>>

Start == /\ ~up
         /\ up' = TRUE /\ due' = TRUE
         /\ UNCHANGED <<dbVars, fsVars, run, now, crashes, losses, restores>>

\* The database is lost; the server starts on an empty one.
NewDatabase == /\ ~up /\ losses < MaxLoss
               /\ losses' = losses + 1
               /\ data' = [n \in Tables |-> {}] /\ seq' = 1 /\ cut' = FALSE
               /\ UNCHANGED <<restore, fsVars, run, now, due, up, crashes, restores>>

-----------------------------------------------------------------------------
Next == \/ Sell \/ Tick \/ RunOnce \/ DumpTable \/ DumpFails \/ Encode \/ Rename \/ Rotate
        \/ \E f \in DOMAIN files : BeginRestore(f)
        \/ LoadTables \/ ResetReceiptSequences \/ CommitRestore \/ RestoreFails
        \/ Crash \/ Start \/ NewDatabase

Spec == Init /\ [][Next]_vars

-----------------------------------------------------------------------------
(***************************************************************************)
(* What is to be true.                                                     *)
(***************************************************************************)
\* "a crash mid-dump never leaves a half-written .gz that looks restorable",
\* and pruning never costs a recent one: every file in the folder is whole,
\* and a snapshot once made is only gone when Keep newer ones are there,
\* whatever crashed, failed or could not be removed in between.
BackupsKept ==
    /\ \A f \in DOMAIN files : Whole(files[f])
    /\ \A f \in made \ DOMAIN files : Keep > 0 /\ Cardinality(Newer(f)) >= Keep

\* No sale after a restore, whole or given up, is numbered like one in the
\* books ("or the first post-restore receipt collides").  Only a restore that
\* dies between setval and COMMIT is excepted.
NumbersFresh == ~cut /\ ~Exclusive => \A n \in data["sales"] : n < seq

\* "A snapshot of all public table data": one moment of the shop, a sale with
\* its items or not at all.
OneMoment == \A f \in DOMAIN files : \A n, m \in DOMAIN files[f] : files[f][n] = files[f][m]
=============================================================================
