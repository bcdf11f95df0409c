---------------------------- MODULE BackupProofs ----------------------------
(***************************************************************************)
(* What holds of Backup for any list of tables, number of snapshots kept,   *)
(* and length of its history.                                              *)
(***************************************************************************)
EXTENDS Backup, FiniteSetTheorems, WellFoundedInduction, TLAPS

\* What has been dumped of a database: some of its tables.
Archive == UNION {[D -> Rows] : D \in SUBSET Tables}

\* Types, and what the dump holds by the time it is renamed.
DumpOK ==
    /\ data \in [Tables -> Rows] /\ seq \in Nat \ {0}
    /\ now \in 0 .. MaxNow /\ made \subseteq 0 .. MaxNow /\ DOMAIN files \subseteq 0 .. MaxNow
    /\ \A f \in DOMAIN files : files[f] \in Archive
    /\ run \in [pc : {"idle", "dump", "rename", "rotate"}, at : 0 .. MaxNow,
                next : 1 .. Len(Table) + 1, dump : Archive]
    /\ run.pc = "dump" => DOMAIN run.dump = {Name(i) : i \in 1 .. run.next - 1}
    /\ ~DiskFull => /\ run.pc = "rename" => Whole(run.dump)
                    /\ \A f \in DOMAIN files : Whole(files[f])

\* A snapshot once made is gone only when enough newer ones are there.
Kept == \A f \in made \ DOMAIN files : Keep > 0 /\ Cardinality(Newer(f)) >= Keep

\* A restore in progress, and the counter beside the books it would number.
RestoreOK ==
    /\ restore \in [pc : {"idle", "truncate", "counters", "commit"}, archive : Archive]
    /\ restore.pc # "idle" => up /\ Whole(restore.archive)
    /\ restore.pc = "commit" => \A n \in restore.archive["sales"] : n < seq
    /\ ~cut /\ restore.pc # "commit" => \A n \in data["sales"] : n < seq

BackupInv == DumpOK /\ Kept /\ RestoreOK

-----------------------------------------------------------------------------
(***************************************************************************)
(* Numbers and sets of them.                                               *)
(***************************************************************************)
\* A set of bounded numbers has a largest one.
LEMMA Largest ==
  ASSUME NEW n \in Nat, NEW S \in SUBSET (0 .. n), S # {}
  PROVE  \E x \in S : \A y \in S : x >= y
<1> DEFINE T == {n - x : x \in S}
<1>1. T \subseteq Nat /\ T # {}
  <2>1. \A x \in S : n - x \in Nat
    OBVIOUS
  <2>2. PICK x \in S : TRUE
    OBVIOUS
  <2> QED BY <2>1, <2>2
<1>2. PICK m \in T : \A k \in T : ~(<<k, m>> \in OpToRel(<, Nat))
  <2> HIDE DEF T
  <2> QED BY <1>1, WFMin, NatLessThanWellFounded
<1>3. \A k \in T : ~(k < m)
  BY <1>1, <1>2 DEF OpToRel
<1>4. PICK x \in S : m = n - x
  OBVIOUS
<1>5. \A y \in S : x >= y
  <2> SUFFICES ASSUME NEW y \in S PROVE x >= y
    OBVIOUS
  <2>1. n - y \in T /\ ~(n - y < m)
    BY <1>3
  <2> QED BY <2>1, <1>4
<1> QED BY <1>5

\* A larger set of snapshots has as many.
LEMMA MoreFiles ==
  ASSUME NEW S \in SUBSET (0 .. MaxNow), NEW T \in SUBSET S, NEW k \in Nat, Cardinality(T) >= k
  PROVE  Cardinality(S) >= k
<1>1. MaxNow \in Nat
  BY BackupAssumption
<1>2. IsFiniteSet(0 .. MaxNow)
  BY <1>1, FS_Interval
<1>3. IsFiniteSet(S) /\ IsFiniteSet(T)
  BY <1>2, FS_Subset
<1>4. Cardinality(T) <= Cardinality(S) /\ Cardinality(T) \in Nat /\ Cardinality(S) \in Nat
  BY <1>3, FS_Subset, FS_CardinalityType
<1> QED BY <1>4
-----------------------------------------------------------------------------
(***************************************************************************)
(* Archives and constants.                                                 *)
(***************************************************************************)
LEMMA Archives ==
  /\ Empty \in Archive
  /\ \A a \in Archive : /\ DOMAIN a \subseteq Tables
                       /\ a = [n \in DOMAIN a |-> a[n]]
                       /\ \A n \in DOMAIN a : a[n] \in Rows
  /\ \A D \in SUBSET Tables : [D -> Rows] \subseteq Archive
<1>1. Empty \in [{} -> Rows] /\ {} \in SUBSET Tables
  BY DEF Empty
<1>2. \A a \in Archive : \E D \in SUBSET Tables : a \in [D -> Rows]
  BY DEF Archive
<1>3. \A D \in SUBSET Tables : [D -> Rows] \subseteq Archive
  BY DEF Archive
<1> QED BY <1>1, <1>2, <1>3

LEMMA Constants ==
  /\ Keep \in Nat /\ MaxNow \in Nat /\ MaxNo \in Nat
  /\ Len(Table) \in Nat /\ Table \in [1 .. Len(Table) -> STRING]
  /\ Tables = {Name(i) : i \in 1 .. Len(Table)} /\ "sales" \in Tables
BY BackupAssumption DEF Tables, Name, Range

LEMMA AtRest ==
  /\ Sleeping.pc = "idle" /\ Sleeping.at = 0 /\ Sleeping.next = 1 /\ Sleeping.dump = Empty
  /\ Sleeping \in [pc : {"idle", "dump", "rename", "rotate"}, at : 0 .. MaxNow,
                    next : 1 .. Len(Table) + 1, dump : Archive]
  /\ NoRestore \in [pc : {"idle", "truncate", "counters", "commit"}, archive : Archive]
  /\ NoRestore.pc = "idle" /\ NoRestore.archive = Empty
BY Archives, Constants DEF Sleeping, NoRestore

-----------------------------------------------------------------------------
(***************************************************************************)
(* The shop and the restore: receipt numbers.                              *)
(***************************************************************************)
\* A step that leaves books, counter and restore alone.
LEMMA RestoreSame ==
  ASSUME RestoreOK, UNCHANGED <<data, seq, restore, cut>>, up => up'
  PROVE  RestoreOK'
BY DEF RestoreOK, Whole

\* The restore ends without its commit, or there is none.
LEMMA RestoreUndone ==
  ASSUME RestoreOK, Undone, UNCHANGED <<data, seq>>
  PROVE  RestoreOK'
BY AtRest DEF RestoreOK, Undone

LEMMA SellOK ==
  ASSUME BackupInv, Sell
  PROVE  BackupInv'
<1> USE DEF BackupInv
<1>1. seq \in 1 .. MaxNo /\ seq' = seq + 1
  BY Constants DEF DumpOK, Sell
<1>2. data' \in [Tables -> Rows] /\ \A n \in data'["sales"] : n \in data["sales"] \/ n = seq
  BY <1>1, Constants DEF DumpOK, Sell, Rows
<1>3. DumpOK'
  BY <1>1, <1>2 DEF DumpOK, Sell, fsVars, envVars, Whole
<1>4. Kept'
  BY DEF Kept, Sell, fsVars, Newer
<1>5. RestoreOK'
  <2>1. restore.pc # "commit" /\ UNCHANGED <<restore, cut, up>>
    BY DEF Sell, Exclusive, envVars
  <2>2. \A n \in data["sales"] : n \in Nat
    BY Constants DEF DumpOK, Rows
  <2> QED BY <1>1, <1>2, <2>1, <2>2 DEF RestoreOK, Whole
<1> QED BY <1>3, <1>4, <1>5

\* The counter is set past every number of the archive.
LEMMA PastLargestOK ==
  ASSUME NEW a \in Archive, Whole(a)
  PROVE  LET top == Max({0} \cup a["sales"])
         IN top + 1 \in Nat \ {0} /\ \A n \in a["sales"] : n < top + 1
<1> DEFINE S == {0} \cup a["sales"]
<1>1. S \in SUBSET (0 .. MaxNo) /\ S # {}
  BY Archives, Constants DEF Whole, Rows
<1>2. \E x \in S : \A y \in S : x >= y
  <2> HIDE DEF S
  <2> QED BY <1>1, Constants, Largest
<1>3. Max(S) \in S /\ \A y \in S : Max(S) >= y
  <2> HIDE DEF S
  <2> QED BY <1>2 DEF Max
<1> DEFINE top == Max(S)
<1>4. top \in 0 .. MaxNo /\ \A y \in a["sales"] : y \in 0 .. MaxNo /\ top >= y
  BY <1>1, <1>3
<1>5. top + 1 \in Nat \ {0} /\ \A n \in a["sales"] : n < top + 1
  <2> HIDE DEF top
  <2> QED BY <1>4, Constants
<1> QED BY <1>5

\* What only the restore and the books change.
LEMMA RestoreSteps ==
  ASSUME BackupInv,
         \/ \E f \in DOMAIN files : BeginRestore(f)
         \/ LoadTables \/ ResetReceiptSequences \/ CommitRestore \/ RestoreFails
  PROVE  BackupInv'
<1> USE DEF BackupInv
<1>1. Kept'
  BY DEF Kept, Newer, BeginRestore, LoadTables, ResetReceiptSequences, CommitRestore,
         RestoreFails, fsVars
<1>2. CASE \E f \in DOMAIN files : BeginRestore(f)
  <2>1. PICK f \in DOMAIN files : BeginRestore(f)
    BY <1>2
  <2>2. DumpOK'
    BY <2>1 DEF DumpOK, BeginRestore, fsVars, Whole
  <2>3. restore' = [pc |-> "truncate", archive |-> files[f]] /\ files[f] \in Archive
    BY <2>1 DEF DumpOK, BeginRestore, NoRestore
  <2>4. RestoreOK'
    BY <2>1, <2>3 DEF RestoreOK, BeginRestore, Whole
  <2> QED BY <1>1, <2>2, <2>4
<1>3. CASE LoadTables
  <2>1. DumpOK'
    BY <1>3 DEF DumpOK, LoadTables, fsVars, envVars, Whole
  <2>2. RestoreOK'
    BY <1>3 DEF RestoreOK, LoadTables, envVars, Whole
  <2> QED BY <1>1, <2>1, <2>2
<1>4. CASE ResetReceiptSequences
  <2>1. restore.archive \in Archive /\ Whole(restore.archive)
    BY <1>4 DEF RestoreOK, ResetReceiptSequences
  <2>2. seq' \in Nat \ {0} /\ \A n \in restore.archive["sales"] : n < seq'
    BY <1>4, <2>1, PastLargestOK DEF ResetReceiptSequences, PastLargest
  <2>3. DumpOK'
    BY <1>4, <2>2 DEF DumpOK, ResetReceiptSequences, fsVars, envVars, Whole
  <2>4. RestoreOK'
    BY <1>4, <2>2 DEF RestoreOK, ResetReceiptSequences, envVars, Whole
  <2> QED BY <1>1, <2>3, <2>4
<1>5. CASE CommitRestore
  <2>1. data' = restore.archive /\ data' \in [Tables -> Rows]
    BY <1>5, Archives DEF RestoreOK, CommitRestore, Whole
  <2>2. DumpOK'
    BY <1>5, <2>1 DEF DumpOK, CommitRestore, fsVars, envVars, Whole
  <2>3. RestoreOK'
    BY <1>5, <2>1, AtRest DEF RestoreOK, CommitRestore, envVars
  <2> QED BY <1>1, <2>2, <2>3
<1>6. CASE RestoreFails
  <2>1. DumpOK'
    BY <1>6 DEF DumpOK, RestoreFails, fsVars, envVars, Whole
  <2>2. RestoreOK'
    BY <1>6, RestoreUndone DEF RestoreFails
  <2> QED BY <1>1, <2>1, <2>2
<1> QED BY <1>2, <1>3, <1>4, <1>5, <1>6

\* The server and the database.
LEMMA ServerSteps ==
  ASSUME BackupInv, Tick \/ Crash \/ Start \/ NewDatabase
  PROVE  BackupInv'
<1> USE DEF BackupInv
<1>1. Kept'
  BY DEF Kept, Newer, Tick, Crash, Start, NewDatabase, fsVars
<1>2. CASE Tick
  <2>1. now' \in 0 .. MaxNow /\ UNCHANGED <<data, seq, made, files, run>>
    BY <1>2, Constants DEF DumpOK, Tick, dbVars, fsVars
  <2>2. DumpOK'
    BY <2>1 DEF DumpOK, Whole
  <2>3. RestoreOK'
    BY <1>2, RestoreSame DEF Tick, dbVars
  <2> QED BY <1>1, <2>2, <2>3
<1>3. CASE Crash
  <2>1. DumpOK'
    BY <1>3, AtRest DEF DumpOK, Crash, fsVars, Whole
  <2>2. RestoreOK'
    BY <1>3, RestoreUndone DEF Crash
  <2> QED BY <1>1, <2>1, <2>2
<1>4. CASE Start
  <2>1. DumpOK'
    BY <1>4 DEF DumpOK, Start, dbVars, fsVars, Whole
  <2>2. RestoreOK'
    BY <1>4, RestoreSame DEF Start, dbVars
  <2> QED BY <1>1, <2>1, <2>2
<1>5. CASE NewDatabase
  <2>1. data' = [n \in Tables |-> {}] /\ data' \in [Tables -> Rows] /\ seq' = 1
    BY <1>5 DEF NewDatabase, Rows
  <2>2. DumpOK'
    BY <1>5, <2>1 DEF DumpOK, NewDatabase, fsVars, Whole
  <2>3. RestoreOK'
    BY <1>5, <2>1, Constants DEF RestoreOK, NewDatabase
  <2> QED BY <1>1, <2>2, <2>3
<1> QED BY <1>2, <1>3, <1>4, <1>5

-----------------------------------------------------------------------------
(***************************************************************************)
(* The scheduler: files.                                                   *)
(***************************************************************************)
\* Pruning takes away nothing that fewer than Keep snapshots follow: the newest
\* file it removes is still followed by Keep.
LEMMA PruneLeaves ==
  ASSUME DOMAIN files \subseteq 0 .. MaxNow, Keep > 0,
         NEW gone \in SUBSET DOMAIN files,
         \A g \in gone : Cardinality(Newer(g)) >= Keep,
         NEW f \in 0 .. MaxNow, Cardinality(Newer(f)) >= Keep
  PROVE  Cardinality(Newer(f) \ gone) >= Keep
<1>1. CASE Newer(f) \cap gone = {}
  <2>1. Newer(f) \ gone = Newer(f)
    BY <1>1
  <2> QED BY <2>1
<1>2. CASE Newer(f) \cap gone # {}
  <2> DEFINE S == Newer(f) \cap gone
  <2>1. S \in SUBSET (0 .. MaxNow) /\ S # {}
    BY <1>2 DEF Newer
  <2>2. PICK g \in S : \A h \in S : g >= h
    <3> HIDE DEF S
    <3> QED BY <2>1, Largest, Constants
  <2>3. g \in Newer(f) /\ g \in gone /\ g \in 0 .. MaxNow
    BY <2>1
  <2>4. Newer(g) \subseteq Newer(f)
    BY <2>3, Constants DEF Newer
  <2>5. Newer(g) \cap gone = {}
    <3>1. SUFFICES ASSUME NEW h \in Newer(g), h \in gone PROVE FALSE
      OBVIOUS
    <3>2. h \in S /\ h > g /\ h \in 0 .. MaxNow
      BY <2>4, <3>1 DEF Newer
    <3>3. g >= h
      BY <2>2, <3>2
    <3> QED BY <2>3, <3>2, <3>3, Constants
  <2>6. Newer(g) \subseteq Newer(f) \ gone /\ Newer(f) \ gone \in SUBSET (0 .. MaxNow)
    BY <2>4, <2>5 DEF Newer
  <2>7. Cardinality(Newer(g)) >= Keep
    BY <2>3
  <2> QED BY <2>6, <2>7, MoreFiles, Constants
<1> QED BY <1>1, <1>2

\* A step of the dump: the folder keeps its snapshots.
LEMMA DumpSteps ==
  ASSUME BackupInv, RunOnce \/ DumpTable \/ DumpFails \/ Encode
  PROVE  BackupInv'
<1> USE DEF BackupInv
<1>1. Kept'
  BY DEF Kept, Newer, RunOnce, DumpTable, DumpFails, Encode, fsVars
<1>2. RestoreOK'
  BY RestoreSame DEF RunOnce, DumpTable, DumpFails, Encode, dbVars, envVars
<1>3. CASE RunOnce
  <2>1. run' = [pc |-> "dump", at |-> now, next |-> 1, dump |-> Empty]
    BY <1>3 DEF RunOnce, Sleeping
  <2>2. /\ run' \in [pc : {"idle", "dump", "rename", "rotate"}, at : 0 .. MaxNow,
                     next : 1 .. Len(Table) + 1, dump : Archive]
        /\ run'.pc = "dump"
    BY <2>1, Archives, Constants DEF DumpOK
  <2>3. DOMAIN run'.dump = {Name(i) : i \in 1 .. run'.next - 1}
    <3>1. DOMAIN run'.dump = {} /\ run'.next - 1 = 0
      BY <2>1 DEF Empty
    <3>2. 1 .. 0 = {}
      OBVIOUS
    <3> QED BY <3>1, <3>2
  <2>4. DumpOK'
    BY <1>3, <2>2, <2>3 DEF DumpOK, RunOnce, dbVars, Whole
  <2> QED BY <1>1, <1>2, <2>4
<1>4. CASE DumpTable
  <2> DEFINE name == Name(run.next)
             more == [n \in DOMAIN run.dump \cup {name} |->
                        IF n = name THEN data[n] ELSE run.dump[n]]
  <2>1. run.next \in 1 .. Len(Table) /\ name \in Tables
    BY <1>4, Constants DEF DumpTable, DumpOK
  <2>2. DOMAIN run.dump \subseteq Tables /\ \A n \in DOMAIN run.dump : run.dump[n] \in Rows
    BY Archives DEF DumpOK
  <2>3. more \in Archive
    <3>1. more \in [DOMAIN run.dump \cup {name} -> Rows]
      BY <2>1, <2>2 DEF DumpOK
    <3> QED BY <2>1, <2>2, <3>1, Archives
  <2>4. DOMAIN more = {Name(i) : i \in 1 .. run.next}
    <3>1. DOMAIN run.dump = {Name(i) : i \in 1 .. run.next - 1}
      BY <1>4 DEF DumpTable, DumpOK
    <3>2. 1 .. run.next = (1 .. run.next - 1) \cup {run.next}
      BY <2>1, Constants
    <3> QED BY <3>1, <3>2
  <2>5. run' = [run EXCEPT !.next = run.next + 1, !.dump = more]
    BY <1>4 DEF DumpTable
  <2> HIDE DEF more, name
  <2>6. /\ run'.pc = "dump" /\ run'.dump = more /\ run'.next - 1 = run.next
        /\ run' \in [pc : {"idle", "dump", "rename", "rotate"}, at : 0 .. MaxNow,
                     next : 1 .. Len(Table) + 1, dump : Archive]
    <3>1. run.next + 1 \in 1 .. Len(Table) + 1 /\ run.next + 1 - 1 = run.next
      BY <2>1, Constants
    <3>2. run.pc = "dump"
      BY <1>4 DEF DumpTable
    <3>3. run \in [pc : {"idle", "dump", "rename", "rotate"}, at : 0 .. MaxNow,
                   next : 1 .. Len(Table) + 1, dump : Archive]
      BY DEF DumpOK
    <3>4. run'.next = run.next + 1 /\ run'.dump = more /\ run'.pc = run.pc
      BY <2>5, <3>3
    <3>5. \A k \in 1 .. Len(Table) + 1, a \in Archive :
             [run EXCEPT !.next = k, !.dump = a]
                \in [pc : {"idle", "dump", "rename", "rotate"}, at : 0 .. MaxNow,
                     next : 1 .. Len(Table) + 1, dump : Archive]
      BY <3>3
    <3>6. run' \in [pc : {"idle", "dump", "rename", "rotate"}, at : 0 .. MaxNow,
                    next : 1 .. Len(Table) + 1, dump : Archive]
      BY <2>3, <2>5, <3>1, <3>5
    <3>7. run'.next - 1 = run.next
      BY <2>1, <3>4, Constants
    <3>8. run'.pc = "dump" /\ run'.dump = more
      BY <3>2, <3>4
    <3> QED BY <3>6, <3>7, <3>8
  <2>7. DumpOK'
    BY <1>4, <2>4, <2>6 DEF DumpOK, DumpTable, dbVars, fsVars, envVars, Whole
  <2> QED BY <1>1, <1>2, <2>7
<1>5. CASE DumpFails
  <2>1. DumpOK'
    BY <1>5, AtRest DEF DumpOK, DumpFails, dbVars, envVars, Whole
  <2> QED BY <1>1, <1>2, <2>1
<1>6. CASE Encode
  <2>1. run.pc = "dump" /\ run.next = Len(Table) + 1
    BY <1>6, Constants DEF Encode, DumpOK
  <2>2. Whole(run.dump)
    <3>1. run.next - 1 = Len(Table)
      BY <2>1, Constants
    <3> QED BY <2>1, <3>1, Constants DEF DumpOK, Whole
  <2>3. \/ run' = [run EXCEPT !.pc = "rename"]
        \/ DiskFull /\ run' = [run EXCEPT !.pc = "rename", !.dump = Empty]
    BY <1>6 DEF Encode
  <2>4. DumpOK'
    BY <1>6, <2>2, <2>3, Archives DEF DumpOK, Encode, dbVars, fsVars, envVars, Whole
  <2> QED BY <1>1, <1>2, <2>4
<1> QED BY <1>3, <1>4, <1>5, <1>6

LEMMA RenameOK ==
  ASSUME BackupInv, Rename
  PROVE  BackupInv'
<1> USE DEF BackupInv
<1>1. RestoreOK'
  BY RestoreSame DEF Rename, dbVars, envVars
<1>2. /\ DOMAIN files' = DOMAIN files \cup {run.at} /\ run.at \in 0 .. MaxNow
      /\ \A f \in DOMAIN files' : files'[f] = IF f = run.at THEN run.dump ELSE files[f]
      /\ made' = made \cup {run.at}
      /\ run' = [run EXCEPT !.pc = "rotate"]
  BY DEF Rename, DumpOK
<1>3. DumpOK'
  BY <1>2 DEF DumpOK, Rename, dbVars, envVars, Whole
<1>4. Kept'
  <2>1. SUFFICES ASSUME NEW f \in made' \ DOMAIN files'
                 PROVE  Keep > 0 /\ Cardinality(Newer(f)') >= Keep
    BY DEF Kept
  <2>2. f \in made \ DOMAIN files
    BY <1>2, <2>1
  <2>3. Keep > 0 /\ Cardinality(Newer(f)) >= Keep
    BY <2>2 DEF Kept
  <2>4. Newer(f)' \in SUBSET (0 .. MaxNow) /\ Newer(f) \subseteq Newer(f)'
    BY <1>2 DEF Newer, DumpOK
  <2> QED BY <2>3, <2>4, MoreFiles, Constants
<1> QED BY <1>1, <1>3, <1>4

LEMMA RotateOK ==
  ASSUME BackupInv, Rotate
  PROVE  BackupInv'
<1> USE DEF BackupInv
<1>1. RestoreOK'
  BY RestoreSame DEF Rotate, dbVars, envVars
<1>2. PICK gone \in SUBSET Pruned : files' = [f \in DOMAIN files \ gone |-> files[f]]
  BY DEF Rotate
<1>3. gone \in SUBSET DOMAIN files /\ \A g \in gone : Keep > 0 /\ Cardinality(Newer(g)) >= Keep
  BY <1>2, Constants DEF Pruned
<1>4. DumpOK'
  BY <1>2, AtRest DEF DumpOK, Rotate, dbVars, envVars, Whole
<1>5. Kept'
  <2>1. SUFFICES ASSUME NEW f \in made' \ DOMAIN files'
                 PROVE  Keep > 0 /\ Cardinality(Newer(f)') >= Keep
    BY DEF Kept
  <2>2. f \in made /\ (f \notin DOMAIN files \/ f \in gone) /\ f \in 0 .. MaxNow
    BY <1>2, <2>1 DEF Rotate, DumpOK
  <2>3. Keep > 0 /\ Cardinality(Newer(f)) >= Keep
    BY <1>3, <2>2 DEF Kept
  <2>4. Newer(f)' = Newer(f) \ gone
    BY <1>2 DEF Newer
  <2> QED BY <1>3, <2>2, <2>3, <2>4, PruneLeaves DEF DumpOK
<1> QED BY <1>1, <1>4, <1>5

-----------------------------------------------------------------------------
(***************************************************************************)
(* The theorems.                                                           *)
(***************************************************************************)
LEMMA Starts == Init => BackupInv
<1> SUFFICES ASSUME Init PROVE BackupInv
  OBVIOUS
<1>1. DumpOK
  BY AtRest, Constants DEF Init, DumpOK, Rows, Whole
<1>2. Kept
  BY DEF Init, Kept
<1>3. RestoreOK
  BY AtRest, Constants DEF Init, RestoreOK
<1> QED BY <1>1, <1>2, <1>3 DEF BackupInv

LEMMA Inductive == BackupInv /\ [Next]_vars => BackupInv'
<1> SUFFICES ASSUME BackupInv, [Next]_vars PROVE BackupInv'
  OBVIOUS
<1>1. CASE Sell
  BY <1>1, SellOK
<1>2. CASE Tick \/ Crash \/ Start \/ NewDatabase
  BY <1>2, ServerSteps
<1>3. CASE RunOnce \/ DumpTable \/ DumpFails \/ Encode
  BY <1>3, DumpSteps
<1>4. CASE Rename
  BY <1>4, RenameOK
<1>5. CASE Rotate
  BY <1>5, RotateOK
<1>6. CASE \/ \E f \in DOMAIN files : BeginRestore(f)
           \/ LoadTables \/ ResetReceiptSequences \/ CommitRestore \/ RestoreFails
  BY <1>6, RestoreSteps
<1>7. CASE UNCHANGED vars
  BY <1>7 DEF vars, BackupInv, DumpOK, Kept, RestoreOK, Newer, Whole
<1> QED BY <1>1, <1>2, <1>3, <1>4, <1>5, <1>6, <1>7 DEF Next

\* The receipt number drawn next is new, after any restores, crashes and losses of
\* the database (resetReceiptSequences), unless a restore died after setval.
THEOREM NumbersStayFresh == Spec => []NumbersFresh
<1>1. BackupInv => NumbersFresh
  BY DEF BackupInv, RestoreOK, NumbersFresh, Exclusive
<1> QED BY <1>1, Starts, Inductive, PTL DEF Spec

\* Where no write is lost when a file is closed, every snapshot in the folder is
\* whole, and one is only gone when Keep newer ones are there (WriteSnapshot,
\* Rotate).
THEOREM SnapshotsStay == ASSUME ~DiskFull PROVE Spec => []BackupsKept
<1>1. BackupInv => BackupsKept
  BY DEF BackupInv, DumpOK, Kept, BackupsKept
<1> QED BY <1>1, Starts, Inductive, PTL DEF Spec
=============================================================================
