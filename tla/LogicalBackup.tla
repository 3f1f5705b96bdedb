---------------------------- MODULE LogicalBackup ----------------------------
(***************************************************************************)
(* The logical backup: scripts/backup_all_shards.sh writes a directory     *)
(* file by file, verify_backup.sh checks it, backup_restore_drill.sh       *)
(* restores it into a scratch database and restore_citus_backup.sh into    *)
(* production.  The module follows one backup directory.                   *)
(*                                                                         *)
(* Every script runs under "set -e": it ends at the first command that     *)
(* fails and leaves what it did.  A backup may be writing its directory    *)
(* while an operator, who takes the newest one, checks or restores it;     *)
(* a backup repeated into the directory (BACKUP_DIR or BACKUP_ID is set)   *)
(* is assumed to have it to itself.                                        *)
(***************************************************************************)
EXTENDS Naturals, Sequences

CONSTANTS RelativeDir,   \* BACKUP_DIR is relative to the repository, as by default
          MaxRuns,       \* bound on the backups into the directory
          MaxFailures,   \* bound on the commands that fail for outside reasons
          Absent         \* no such file

ASSUME RelativeAssumption == RelativeDir \in BOOLEAN
ASSUME BackupBounds == MaxRuns \in Nat /\ MaxFailures \in Nat

VARIABLES
  data,      \* the production database: all of it there, or half
  scratch,   \* the scratch database of a drill exists
  dir,       \* the files of the directory
  sums,      \* SHA256SUMS: the files it lists, with the contents it has the sum of
  backup,    \* backup_all_shards.sh: the file it is at, and whether that is open
  op,        \* the script of the operator and its step
  verdict,   \* what verify_backup.sh said of the files as they are
  runs,      \* backups begun
  failed     \* the commands that failed for outside reasons

bvars == <<data, scratch, dir, sums, backup, op, verdict, runs, failed>>

Hashed == {"manifest", "dump", "state"}
Databases == {"whole", "half"}

(* A file: the run that wrote it, the data it is of, and whether it was      *)
(* written to its end.  No two runs write the same: the manifest and the     *)
(* state carry the time, and so does the archive.                            *)
Files == [run : 1 .. MaxRuns, of : Databases, whole : BOOLEAN]

ASSUME AbsentAssumption == Absent \notin Files

(* Mutant: only the dump is summed. *)
LinesDumpOnly == <<"dump">>

(* The order in which sha256sum writes its lines. *)
Lines == <<"dump", "manifest", "state">>

NoBackup == [file |-> "none", open |-> FALSE]
NoScript == [name |-> "none", step |-> "none"]

(* backup_all_shards.sh writes its files in this order. *)
After(file) == CASE file = "manifest" -> [file |-> "dump", open |-> FALSE]
                 [] file = "dump" -> [file |-> "state", open |-> FALSE]
                 [] file = "state" -> [file |-> "sums", open |-> FALSE]
                 [] file = "sums" -> NoBackup

Init == /\ data = "whole"
        /\ scratch = FALSE
        /\ dir = [f \in Hashed |-> Absent]
        /\ sums = Absent
        /\ backup = NoBackup
        /\ op = NoScript
        /\ verdict = "none"
        /\ runs = 0
        /\ failed = <<>>

-----------------------------------------------------------------------------
(* Writing a backup. *)

StartBackup ==
  /\ backup = NoBackup
  /\ runs < MaxRuns
  /\ runs > 0 => op = NoScript
  /\ runs' = runs + 1
  /\ backup' = [file |-> "manifest", open |-> FALSE]
  /\ UNCHANGED <<data, scratch, dir, sums, op, verdict, failed>>

(* The redirection empties the file before its command writes.  pg_dump      *)
(* works on one snapshot, taken when it starts.                              *)
OpenFile ==
  /\ backup.file \in Hashed /\ ~backup.open
  /\ dir' = [dir EXCEPT ![backup.file] = [run |-> runs, of |-> data, whole |-> FALSE]]
  /\ backup' = [backup EXCEPT !.open = TRUE]
  /\ verdict' = "none"
  /\ UNCHANGED <<data, scratch, sums, op, runs, failed>>

CloseFile ==
  /\ backup.file \in Hashed /\ backup.open
  /\ dir' = [dir EXCEPT ![backup.file].whole = TRUE]
  /\ backup' = After(backup.file)
  /\ verdict' = "none"
  /\ UNCHANGED <<data, scratch, sums, op, runs, failed>>

OpenSums ==
  /\ backup = [file |-> "sums", open |-> FALSE]
  /\ sums' = <<>>
  /\ backup' = [backup EXCEPT !.open = TRUE]
  /\ verdict' = "none"
  /\ UNCHANGED <<data, scratch, dir, op, runs, failed>>

(* sha256sum writes line by line; after the last one the backup is done. *)
WriteSum ==
  /\ backup = [file |-> "sums", open |-> TRUE]
  /\ LET f == Lines[Len(sums) + 1]
     IN sums' = Append(sums, [name |-> f, content |-> dir[f]])
  /\ backup' = IF Len(sums') = Len(Lines) THEN After("sums") ELSE backup
  /\ verdict' = "none"
  /\ UNCHANGED <<data, scratch, dir, op, runs, failed>>

-----------------------------------------------------------------------------
(* The scripts of the operator. *)

Scripts == {"verify", "drill", "restore", "restoreFile"}
At(step) == op.step = step
GoTo(step) == op' = [op EXCEPT !.step = step]
End == op' = NoScript

(* Mutant: the directory is restored unverified too. *)
StartUnverified(name) ==
  /\ op = NoScript
  /\ backup = NoBackup \/ runs = 1
  /\ name # "verify" => dir["dump"] # Absent
  /\ op' = [name |-> name,
            step |-> IF name \in {"restore", "restoreFile"} THEN "confirm" ELSE "verify"]
  /\ UNCHANGED <<data, scratch, dir, sums, backup, verdict, runs, failed>>

(* "restore" is given the directory, "restoreFile" its dump, which it takes  *)
(* unverified.                                                               *)
Start(name) ==
  /\ op = NoScript
  /\ backup = NoBackup \/ runs = 1
  /\ name \in {"drill", "restoreFile"} => dir["dump"] # Absent
  /\ op' = [name |-> name, step |-> IF name = "restoreFile" THEN "confirm" ELSE "verify"]
  /\ UNCHANGED <<data, scratch, dir, sums, backup, verdict, runs, failed>>

(* Mutant: names are looked up from the repository's root only. *)
NamesFromRoot == RelativeDir

(* The sums name the files as BACKUP_DIR did, and are checked from inside    *)
(* the directory: a relative name is not found from there.                   *)
NamesResolve == ~RelativeDir

(* Mutant: the sums are there, and are not compared. *)
VerifiesPresence == sums # Absent /\ dir["dump"] # Absent /\ NamesResolve /\ sums # <<>>

(* sha256sum -c fails on a file without a line.  The dump exists if it is    *)
(* listed and unchanged, and its list is at its head.                        *)
Verifies ==
  /\ sums # Absent /\ dir["dump"] # Absent
  /\ NamesResolve
  /\ sums # <<>>
  /\ \A i \in DOMAIN sums : dir[sums[i].name] = sums[i].content

AfterVerify == CASE op.name = "verify" -> NoScript
                 [] op.name = "drill" -> [op EXCEPT !.step = "createdb"]
                 [] op.name = "restore" -> [op EXCEPT !.step = "confirm"]

Verify ==
  /\ At("verify")
  /\ IF Verifies
       THEN verdict' = "ok" /\ op' = AfterVerify
       ELSE verdict' = "bad" /\ End
  /\ UNCHANGED <<data, scratch, dir, sums, backup, runs, failed>>

(* createdb, and from then on the EXIT trap. *)
CreateScratch ==
  /\ At("createdb")
  /\ scratch' = TRUE
  /\ GoTo("load")
  /\ UNCHANGED <<data, dir, sums, backup, verdict, runs, failed>>

(* pg_restore --exit-on-error: a dump that was cut short fails, and whether  *)
(* it loads or not, the drill is then at its trap.                           *)
LoadScratch ==
  /\ op = [name |-> "drill", step |-> "load"]
  /\ GoTo("dropdb")
  /\ UNCHANGED <<data, scratch, dir, sums, backup, verdict, runs, failed>>

DropScratch ==
  /\ At("dropdb")
  /\ scratch' = FALSE
  /\ End
  /\ UNCHANGED <<data, dir, sums, backup, verdict, runs, failed>>

(* RESTORE_CONFIRM is set, or the script exits with 3. *)
Confirm ==
  /\ At("confirm")
  /\ GoTo("clean") \/ End
  /\ UNCHANGED <<data, scratch, dir, sums, backup, verdict, runs, failed>>

(* pg_restore --clean, not in one transaction: the objects go first. *)
Clean ==
  /\ At("clean")
  /\ data' = "half"
  /\ GoTo("load")
  /\ UNCHANGED <<scratch, dir, sums, backup, verdict, runs, failed>>

(* What a dump that was cut short lacks stays missing. *)
Load ==
  /\ op.name \in {"restore", "restoreFile"} /\ At("load")
  /\ data' = IF dir["dump"].whole THEN dir["dump"].of ELSE "half"
  /\ End
  /\ UNCHANGED <<scratch, dir, sums, backup, verdict, runs, failed>>

-----------------------------------------------------------------------------
(* Any command may fail: the script ends there, a drill through its trap,    *)
(* which ignores the failure of its own dropdb.                              *)

MayFail(command) == Len(failed) < MaxFailures /\ failed' = Append(failed, command)

BackupFails ==
  /\ backup # NoBackup
  /\ MayFail(backup.file)
  /\ backup' = NoBackup
  /\ UNCHANGED <<data, scratch, dir, sums, op, verdict, runs>>

(* Mutant: the trap is set after the load. *)
AbortedUntrapped == NoScript

Aborted == IF op = [name |-> "drill", step |-> "load"]
             THEN [op EXCEPT !.step = "dropdb"]
             ELSE NoScript

ScriptFails ==
  /\ op # NoScript
  /\ MayFail(op.step)
  /\ op' = Aborted
  /\ UNCHANGED <<data, scratch, dir, sums, backup, verdict, runs>>

BackupStep == StartBackup \/ OpenFile \/ CloseFile \/ OpenSums \/ WriteSum \/ BackupFails

OperatorStep ==
  \/ \E name \in Scripts : Start(name)
  \/ Verify \/ CreateScratch \/ LoadScratch \/ DropScratch
  \/ Confirm \/ Clean \/ Load \/ ScriptFails

Next == BackupStep \/ OperatorStep

Spec == Init /\ [][Next]_bvars

-----------------------------------------------------------------------------
(* Types. *)
TypeOK ==
  /\ data \in Databases
  /\ scratch \in BOOLEAN
  /\ dir \in [Hashed -> Files \cup {Absent}]
  /\ \/ sums = Absent
     \/ /\ sums \in Seq([name : Hashed, content : Files])
        /\ Len(sums) <= Len(Lines)
  /\ backup \in [file : Hashed \cup {"sums", "none"}, open : BOOLEAN]
  /\ op \in [name : Scripts \cup {"none"},
             step : {"none", "verify", "createdb", "load", "dropdb", "confirm", "clean"}]
  /\ verdict \in {"none", "ok", "bad"}
  /\ runs \in 0 .. MaxRuns
  /\ Len(failed) <= MaxFailures

(* All three files are there, whole and of one run. *)
OneBackup ==
  /\ \A f \in Hashed : dir[f] # Absent /\ dir[f].whole
  /\ \A f, g \in Hashed : dir[f].run = dir[g].run

(* ... and so are their sums. *)
CompleteBackup ==
  /\ OneBackup
  /\ sums # Absent /\ Len(sums) = Len(Lines)
  /\ \A i \in DOMAIN sums : dir[sums[i].name] = sums[i].content

(* "Logical backup is readable and checksums are valid" (verify_backup.sh):  *)
(* the dump it accepts was written to its end, whatever failed or is still   *)
(* being written.                                                            *)
VerifiedDumpIsWhole == verdict = "ok" => dir["dump"].whole

(* A verified directory holds the files of one backup, also after backups    *)
(* repeated into it and cut short.  It takes a sha256sum that was cut short  *)
(* itself to leave a list that misses the files of the next run.             *)
VerifiedIsOneBackup ==
  verdict = "ok" => OneBackup \/ \E i \in DOMAIN failed : failed[i] = "sums"

(* A complete backup verifies: backup_all_shards.sh ends by telling the      *)
(* operator to run verify_backup.sh on what it wrote.                        *)
CompleteVerifies == CompleteBackup => verdict # "bad"

(* Restoring a directory drops the production objects only with a whole dump *)
(* to load in their place.                                                   *)
DataTradedForWhole ==
  [][data = "whole" /\ data' = "half" /\ op.name = "restore" => dir["dump"].whole]_bvars

(* A drill leaves no scratch database behind, however it ends, unless the    *)
(* dropdb of its trap fails.                                                 *)
DrillCleansUp ==
  scratch => op.name = "drill" \/ \E i \in DOMAIN failed : failed[i] = "dropdb"
=============================================================================
