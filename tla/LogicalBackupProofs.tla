------------------------- MODULE LogicalBackupProofs -------------------------
(***************************************************************************)
(* What a verified backup is worth, and what the scripts of the operator   *)
(* leave behind, for any number of backups and failed commands.            *)
(***************************************************************************)
EXTENDS LogicalBackup, SequenceTheorems, TLAPS

Done(file) == dir[file] \in Files /\ dir[file].whole /\ dir[file].run = runs

(* The files are written one after the other, each to its end. *)
Written ==
  /\ backup.file \in {"dump", "state", "sums"} => Done("manifest")
  /\ backup.file \in {"state", "sums"} => Done("dump")
  /\ backup.file = "sums" => Done("state")
  /\ backup.open /\ backup.file \in Hashed =>
       dir[backup.file] \in Files /\ dir[backup.file].run = runs
  /\ backup.file = "none" <=> backup = NoBackup
  /\ backup # NoBackup => runs > 0
  /\ runs = 0 => dir["dump"] = Absent /\ sums = Absent
  /\ runs <= 1 /\ backup.file \in Hashed => sums = Absent

(* What may be in the list of failed commands. *)
Commands == {"manifest", "dump", "state", "sums", "none", "verify", "createdb", "load", "dropdb",
             "confirm", "clean"}

Summing == backup = [file |-> "sums", open |-> TRUE]
SumsFailed == \E i \in DOMAIN failed : failed[i] = "sums"
DropFailed == \E i \in DOMAIN failed : failed[i] = "dropdb"
SumLists == Seq([name : Hashed, content : Files])

(* The sums are of whole files of one run, in the order of Lines. *)
SumsSound ==
  /\ sums # Absent \/ Summing =>
       /\ sums \in SumLists
       /\ \A i \in 1 .. Len(sums) : sums[i].name = Lines[i] /\ sums[i].content.whole
       /\ \A i, j \in 1 .. Len(sums) : sums[i].content.run = sums[j].content.run
  /\ Summing => Len(sums) < 3 /\ \A i \in 1 .. Len(sums) : sums[i].content.run = runs
  /\ sums # Absent => Len(sums) = 3 \/ Summing \/ SumsFailed

(* A verdict is of the files as they are. *)
Verdicts == (verdict = "ok" => Verifies) /\ (verdict = "bad" => ~Verifies)

(* Which script is at which step, and what it may rely on there. *)
ScriptSound ==
  /\ op.name = "none" <=> op = NoScript
  /\ op.step = "verify" => op.name \in {"verify", "drill", "restore"}
  /\ op.step \in {"createdb", "dropdb"} => op.name = "drill"
  /\ op.step \in {"confirm", "clean"} => op.name \in {"restore", "restoreFile"}
  /\ op.step = "load" => op.name \in {"drill", "restore", "restoreFile"}
  /\ op # NoScript => backup = NoBackup \/ runs <= 1
  /\ op.name = "restoreFile" => dir["dump"] \in Files
  /\ op.name = "restore" /\ op.step # "verify" =>
       dir["dump"] \in Files /\ dir["dump"].whole /\ backup.file \notin Hashed /\ runs > 0

ScratchOwned == scratch => (op.name = "drill" /\ op.step \in {"load", "dropdb"}) \/ DropFailed

IInv == /\ TypeOK /\ Written /\ SumsSound /\ Verdicts /\ ScriptSound /\ ScratchOwned
        /\ failed \in Seq(Commands)

-----------------------------------------------------------------------------
LEMMA InitIInv == Init => IInv
<1> SUFFICES ASSUME Init PROVE IInv
  OBVIOUS
<1>1. TypeOK
  <2>1. dir \in [Hashed -> Files \cup {Absent}] /\ data \in Databases
    BY DEF Init, Databases
  <2>2. NoBackup \in [file : Hashed \cup {"sums", "none"}, open : BOOLEAN]
    BY DEF NoBackup
  <2>3. Len(failed) <= MaxFailures /\ runs \in 0 .. MaxRuns
    BY BackupBounds DEF Init
  <2> QED  BY <2>1, <2>2, <2>3 DEF Init, TypeOK, NoScript
<1>2. Written
  BY DEF Init, Written, NoBackup, Hashed
<1>5. SumsSound
  BY DEF Init, SumsSound, Summing, NoBackup
<1>3. Verdicts /\ ScriptSound /\ ScratchOwned
  BY DEF Init, Verdicts, ScriptSound, ScratchOwned, NoScript, NoBackup
<1>4. failed \in Seq(Commands)
  BY DEF Init
<1> QED  BY <1>1, <1>2, <1>3, <1>4, <1>5 DEF IInv

(* The failures only grow. *)
LEMMA FailuresGrow ==
  ASSUME failed \in Seq(Commands), NEW c \in Commands, MayFail(c)
  PROVE  /\ failed' \in Seq(Commands) /\ Len(failed') <= MaxFailures
         /\ SumsFailed => SumsFailed'
         /\ DropFailed => DropFailed'
         /\ c = "sums" => SumsFailed'
         /\ c = "dropdb" => DropFailed'
<1>1. failed' = Append(failed, c) /\ Len(failed) < MaxFailures
  BY DEF MayFail
<1>2. /\ failed' \in Seq(Commands) /\ Len(failed') = Len(failed) + 1
      /\ \A i \in 1 .. Len(failed) : failed'[i] = failed[i]
      /\ failed'[Len(failed) + 1] = c
  BY <1>1, AppendProperties
<1>3. DOMAIN failed = 1 .. Len(failed) /\ DOMAIN failed' = 1 .. (Len(failed) + 1)
      /\ Len(failed) \in Nat
  BY <1>2
<1>4. Len(failed') <= MaxFailures
  BY <1>1, <1>2, <1>3, BackupBounds
<1>5. Len(failed) + 1 \in DOMAIN failed' /\ DOMAIN failed \subseteq DOMAIN failed'
  BY <1>3
<1>6. \A i \in DOMAIN failed : failed'[i] = failed[i]
  BY <1>2, <1>3
<1> QED  BY <1>2, <1>4, <1>5, <1>6 DEF SumsFailed, DropFailed

(* The scripts of the operator leave the directory alone. *)
LEMMA DirectoryKept ==
  ASSUME IInv, UNCHANGED <<dir, sums, backup, runs>>,
         SumsFailed => SumsFailed'
  PROVE  Written' /\ SumsSound'
<1>1. Written'
  BY DEF IInv, Written, Done
<1>2. SumsSound'
  BY DEF IInv, SumsSound, Summing
<1> QED  BY <1>1, <1>2

(* Verdicts stay true as long as what they were passed on stays. *)
LEMMA VerdictsKept ==
  ASSUME IInv, UNCHANGED <<dir, sums>>, verdict' = verdict
  PROVE  Verdicts'
BY DEF IInv, Verdicts, Verifies, NamesResolve

LEMMA ScratchKept ==
  ASSUME IInv, UNCHANGED <<scratch, op>>, DropFailed => DropFailed'
  PROVE  ScratchOwned'
BY DEF IInv, ScratchOwned

LEMMA ScriptSteps ==
  ASSUME IInv
  PROVE  /\ TypeOK /\ Written /\ SumsSound /\ Verdicts /\ ScriptSound /\ ScratchOwned
         /\ failed \in Seq(Commands)
BY DEF IInv

LEMMA SameFailures ==
  ASSUME failed' = failed
  PROVE  SumsFailed' = SumsFailed /\ DropFailed' = DropFailed
BY DEF SumsFailed, DropFailed

-----------------------------------------------------------------------------
(* The scripts of the operator. *)
OpTypes == [name : Scripts \cup {"none"},
            step : {"none", "verify", "createdb", "load", "dropdb", "confirm", "clean"}]

(* A script of the operator that changes only itself, the databases and the *)
(* verdict.                                                                 *)
LEMMA OperatorKeeps ==
  ASSUME IInv, UNCHANGED <<dir, sums, backup, runs>>,
         op' \in OpTypes, data' \in Databases, scratch' \in BOOLEAN,
         verdict' \in {"none", "ok", "bad"}, ScriptSound', ScratchOwned', Verdicts',
         \/ failed' = failed
         \/ /\ failed' \in Seq(Commands) /\ Len(failed') <= MaxFailures
            /\ SumsFailed => SumsFailed'
  PROVE  IInv'
<1>1. SumsFailed => SumsFailed'
  BY SameFailures
<1>2. Written' /\ SumsSound'
  BY <1>1, DirectoryKept
<1>3. failed' \in Seq(Commands) /\ Len(failed') <= MaxFailures
  BY DEF IInv, TypeOK
<1>4. TypeOK'
  BY <1>3 DEF IInv, TypeOK, OpTypes
<1> QED  BY <1>2, <1>3, <1>4 DEF IInv

LEMMA StartKeeps ==
  ASSUME IInv, NEW name \in Scripts, Start(name)
  PROVE  IInv'
<1>1. /\ UNCHANGED <<data, scratch, dir, sums, backup, verdict, runs, failed>>
      /\ op = NoScript /\ (backup = NoBackup \/ runs = 1)
      /\ name = "restoreFile" => dir["dump"] # Absent
      /\ op' = [name |-> name, step |-> IF name = "restoreFile" THEN "confirm" ELSE "verify"]
  BY DEF Start
<1>2. op' \in OpTypes
  BY <1>1 DEF OpTypes
<1>3. op'.name = name /\ op'.step = IF name = "restoreFile" THEN "confirm" ELSE "verify"
  BY <1>1
<1>4. name = "restoreFile" => dir["dump"] \in Files
  BY <1>1, ScriptSteps DEF TypeOK, Hashed
<1>5. ScriptSound'
  BY <1>1, <1>3, <1>4 DEF ScriptSound, NoScript, Scripts
<1>6. ScratchOwned'
  BY <1>1, <1>3, ScriptSteps, SameFailures DEF ScratchOwned, NoScript
<1>7. Verdicts'
  BY <1>1, VerdictsKept
<1> QED  BY <1>1, <1>2, <1>5, <1>6, <1>7, OperatorKeeps, ScriptSteps DEF TypeOK

(* A directory that verifies is that of a backup which has got to its sums. *)
LEMMA VerifiesWhole ==
  ASSUME IInv, Verifies
  PROVE  /\ dir["dump"] \in Files /\ dir["dump"].whole /\ runs > 0
         /\ runs <= 1 => backup.file \notin Hashed
<1>1. sums # Absent /\ sums # <<>> /\ sums \in SumLists
  BY ScriptSteps DEF Verifies, SumsSound
<1>2. Len(sums) \in Nat /\ Len(sums) # 0 /\ DOMAIN sums = 1 .. Len(sums)
  BY <1>1, EmptySeq DEF SumLists
<1>3. 1 \in 1 .. Len(sums)
  BY <1>2
<1>4. sums[1].name = Lines[1] /\ sums[1].content.whole
  BY <1>1, <1>3, ScriptSteps DEF SumsSound
<1>5. sums[1].name = "dump"
  BY <1>4 DEF Lines
<1>6. dir["dump"] = sums[1].content
  BY <1>2, <1>3, <1>5 DEF Verifies
<1>7. dir["dump"] # Absent
  BY DEF Verifies
<1>8. dir["dump"] \in Files
  BY <1>7, ScriptSteps DEF TypeOK, Hashed
<1>9. runs > 0
  BY <1>7, ScriptSteps DEF Written, TypeOK
<1>10. runs <= 1 => backup.file \notin Hashed
  BY <1>1, ScriptSteps DEF Written
<1> QED  BY <1>4, <1>6, <1>8, <1>9, <1>10

LEMMA VerifyKeeps ==
  ASSUME IInv, Verify
  PROVE  IInv'
<1>1. /\ UNCHANGED <<data, scratch, dir, sums, backup, runs, failed>>
      /\ op.step = "verify" /\ op.name \in {"verify", "drill", "restore"} /\ op \in OpTypes
  BY ScriptSteps DEF Verify, At, ScriptSound, TypeOK, OpTypes
<1>2. ~scratch \/ DropFailed
  BY <1>1, ScriptSteps DEF ScratchOwned
<1>3. ScratchOwned'
  BY <1>1, <1>2, SameFailures DEF ScratchOwned
<1>4. Verifies' = Verifies
  BY <1>1 DEF Verifies, NamesResolve
<1>5. CASE Verifies
  <2>1. verdict' = "ok" /\ op' = AfterVerify
    BY <1>5 DEF Verify
  <2>2. \/ op.name = "verify" /\ op' = NoScript
        \/ op.name = "drill" /\ op' = [op EXCEPT !.step = "createdb"]
        \/ op.name = "restore" /\ op' = [op EXCEPT !.step = "confirm"]
    BY <1>1, <2>1 DEF AfterVerify
  <2>3. Verdicts'
    BY <1>4, <1>5, <2>1 DEF Verdicts
  <2>4. op' \in OpTypes
    BY <1>1, <2>2 DEF OpTypes, NoScript, Scripts
  <2>5. ScriptSound'
    <3>1. backup = NoBackup \/ runs <= 1
      BY <1>1, ScriptSteps DEF ScriptSound, NoScript
    <3>2. backup.file \notin Hashed
      BY <1>5, <3>1, VerifiesWhole DEF NoBackup, Hashed
    <3>3. \/ op' = NoScript
          \/ op'.name = "drill" /\ op'.step = "createdb"
          \/ op'.name = "restore" /\ op'.step = "confirm"
      BY <1>1, <2>2 DEF OpTypes
    <3> QED  BY <1>1, <1>5, <3>1, <3>2, <3>3, VerifiesWhole DEF ScriptSound, NoScript
  <2> QED  BY <1>1, <1>3, <2>1, <2>3, <2>4, <2>5, OperatorKeeps, ScriptSteps DEF TypeOK
<1>6. CASE ~Verifies
  <2>1. verdict' = "bad" /\ op' = NoScript
    BY <1>6 DEF Verify, End
  <2>2. Verdicts'
    BY <1>4, <1>6, <2>1 DEF Verdicts
  <2>3. op' \in OpTypes /\ ScriptSound'
    BY <2>1 DEF OpTypes, NoScript, ScriptSound
  <2> QED  BY <1>1, <1>3, <2>1, <2>2, <2>3, OperatorKeeps, ScriptSteps DEF TypeOK
<1> QED  BY <1>5, <1>6

LEMMA CreateScratchKeeps ==
  ASSUME IInv, CreateScratch
  PROVE  IInv'
<1>1. /\ UNCHANGED <<data, dir, sums, backup, verdict, runs, failed>>
      /\ op.name = "drill" /\ op \in OpTypes /\ scratch' = TRUE
      /\ op' = [op EXCEPT !.step = "load"]
  BY ScriptSteps DEF CreateScratch, At, GoTo, ScriptSound, TypeOK, OpTypes
<1>2. op' \in OpTypes /\ op'.name = "drill" /\ op'.step = "load"
  BY <1>1 DEF OpTypes
<1>3. ScriptSound'
  BY <1>1, <1>2, ScriptSteps DEF ScriptSound, NoScript
<1>4. ScratchOwned'
  BY <1>2 DEF ScratchOwned
<1> QED  BY <1>1, <1>2, <1>3, <1>4, VerdictsKept, OperatorKeeps, ScriptSteps DEF TypeOK

LEMMA LoadScratchKeeps ==
  ASSUME IInv, LoadScratch
  PROVE  IInv'
<1>1. /\ UNCHANGED <<data, scratch, dir, sums, backup, verdict, runs, failed>>
      /\ op.name = "drill" /\ op \in OpTypes
      /\ op' = [op EXCEPT !.step = "dropdb"]
  BY ScriptSteps DEF LoadScratch, GoTo, TypeOK, OpTypes
<1>2. op' \in OpTypes /\ op'.name = "drill" /\ op'.step = "dropdb"
  BY <1>1 DEF OpTypes
<1>3. ScriptSound'
  BY <1>1, <1>2, ScriptSteps DEF ScriptSound, NoScript
<1>4. ScratchOwned'
  BY <1>2 DEF ScratchOwned
<1> QED  BY <1>1, <1>2, <1>3, <1>4, VerdictsKept, OperatorKeeps, ScriptSteps DEF TypeOK

LEMMA DropScratchKeeps ==
  ASSUME IInv, DropScratch
  PROVE  IInv'
<1>1. /\ UNCHANGED <<data, dir, sums, backup, verdict, runs, failed>>
      /\ scratch' = FALSE /\ op' = NoScript
  BY DEF DropScratch, End
<1>2. op' \in OpTypes /\ ScriptSound' /\ ScratchOwned'
  BY <1>1 DEF OpTypes, NoScript, ScriptSound, ScratchOwned
<1> QED  BY <1>1, <1>2, VerdictsKept, OperatorKeeps, ScriptSteps DEF TypeOK

LEMMA ConfirmKeeps ==
  ASSUME IInv, Confirm
  PROVE  IInv'
<1>1. /\ UNCHANGED <<data, scratch, dir, sums, backup, verdict, runs, failed>>
      /\ op.name \in {"restore", "restoreFile"} /\ op \in OpTypes /\ op.step = "confirm"
      /\ op' = [op EXCEPT !.step = "clean"] \/ op' = NoScript
  BY ScriptSteps DEF Confirm, At, GoTo, End, ScriptSound, TypeOK, OpTypes
<1>2. op' \in OpTypes
  BY <1>1 DEF OpTypes, NoScript
<1>3. op' = NoScript \/ (op'.name = op.name /\ op'.step = "clean")
  BY <1>1 DEF OpTypes
<1>4. ScriptSound'
  BY <1>1, <1>3, ScriptSteps DEF ScriptSound, NoScript
<1>5. ScratchOwned'
  BY <1>1, ScriptSteps, SameFailures DEF ScratchOwned
<1> QED  BY <1>1, <1>2, <1>4, <1>5, VerdictsKept, OperatorKeeps, ScriptSteps DEF TypeOK

LEMMA CleanKeeps ==
  ASSUME IInv, Clean
  PROVE  IInv'
<1>1. /\ UNCHANGED <<scratch, dir, sums, backup, verdict, runs, failed>>
      /\ op.name \in {"restore", "restoreFile"} /\ op \in OpTypes /\ op.step = "clean"
      /\ op' = [op EXCEPT !.step = "load"] /\ data' = "half"
  BY ScriptSteps DEF Clean, At, GoTo, ScriptSound, TypeOK, OpTypes
<1>2. op' \in OpTypes /\ op'.name = op.name /\ op'.step = "load"
  BY <1>1 DEF OpTypes
<1>3. ScriptSound'
  BY <1>1, <1>2, ScriptSteps DEF ScriptSound, NoScript
<1>4. ScratchOwned'
  BY <1>1, ScriptSteps, SameFailures DEF ScratchOwned
<1>5. data' \in Databases
  BY <1>1 DEF Databases
<1> QED  BY <1>1, <1>2, <1>3, <1>4, <1>5, VerdictsKept, OperatorKeeps, ScriptSteps DEF TypeOK

LEMMA LoadKeeps ==
  ASSUME IInv, Load
  PROVE  IInv'
<1>1. /\ UNCHANGED <<scratch, dir, sums, backup, verdict, runs, failed>>
      /\ op.name \in {"restore", "restoreFile"} /\ op.step = "load" /\ op' = NoScript
      /\ data' = IF dir["dump"].whole THEN dir["dump"].of ELSE "half"
  BY DEF Load, At, End
<1>2. dir["dump"] \in Files
  BY <1>1, ScriptSteps DEF ScriptSound
<1>3. data' \in Databases
  BY <1>1, <1>2 DEF Files, Databases
<1>4. op' \in OpTypes /\ ScriptSound'
  BY <1>1 DEF OpTypes, NoScript, ScriptSound
<1>5. ScratchOwned'
  BY <1>1, ScriptSteps, SameFailures DEF ScratchOwned
<1> QED  BY <1>1, <1>3, <1>4, <1>5, VerdictsKept, OperatorKeeps, ScriptSteps DEF TypeOK

(* A drill that fails is at its trap; a dropdb that fails leaves a mark. *)
LEMMA ScriptFailsKeeps ==
  ASSUME IInv, ScriptFails
  PROVE  IInv'
<1>1. /\ UNCHANGED <<data, scratch, dir, sums, backup, verdict, runs>>
      /\ op \in OpTypes /\ MayFail(op.step) /\ op.step \in Commands
  BY ScriptSteps DEF ScriptFails, TypeOK, OpTypes, Commands
<1>2. \/ op.name = "drill" /\ op.step = "load" /\ op' = [op EXCEPT !.step = "dropdb"]
      \/ ~(op.name = "drill" /\ op.step = "load") /\ op' = NoScript
  <2>1. op = [name |-> "drill", step |-> "load"] <=> op.name = "drill" /\ op.step = "load"
    BY <1>1 DEF OpTypes
  <2> QED  BY <2>1 DEF ScriptFails, Aborted
<1>3. /\ failed' \in Seq(Commands) /\ Len(failed') <= MaxFailures
      /\ SumsFailed => SumsFailed'
      /\ DropFailed => DropFailed'
      /\ op.step = "dropdb" => DropFailed'
  BY <1>1, ScriptSteps, FailuresGrow
<1>4. op' \in OpTypes /\ (op' = NoScript \/ (op'.name = "drill" /\ op'.step = "dropdb"))
  BY <1>1, <1>2 DEF OpTypes, NoScript
<1>5. op # NoScript
  BY DEF ScriptFails
<1>6. ScriptSound'
  BY <1>1, <1>4, <1>5, ScriptSteps DEF ScriptSound, NoScript
<1>7. ScratchOwned'
  <2>1. CASE op.name = "drill" /\ op.step = "load"
    BY <1>1, <1>2, <2>1 DEF ScratchOwned, OpTypes
  <2>2. CASE ~(op.name = "drill" /\ op.step = "load")
    BY <1>1, <1>3, <2>2, ScriptSteps DEF ScratchOwned
  <2> QED  BY <2>1, <2>2
<1>8. Verdicts'
  BY <1>1, VerdictsKept
<1> QED  BY <1>1, <1>3, <1>4, <1>6, <1>7, <1>8, OperatorKeeps, ScriptSteps DEF TypeOK

-----------------------------------------------------------------------------
(* The backup. *)

(* A step of the backup changes the directory and takes the verdict back. *)
LEMMA BackupKeeps ==
  ASSUME IInv, UNCHANGED <<data, scratch, op>>,
         dir' \in [Hashed -> Files \cup {Absent}],
         sums' = Absent \/ (sums' \in SumLists /\ Len(sums') <= 3),
         backup' \in [file : Hashed \cup {"sums", "none"}, open : BOOLEAN],
         runs' \in 0 .. MaxRuns, failed' \in Seq(Commands), Len(failed') <= MaxFailures,
         DropFailed => DropFailed', verdict' = "none" \/ (verdict' = verdict /\ UNCHANGED <<dir, sums>>),
         Written', SumsSound', ScriptSound'
  PROVE  IInv'
<1>1. TypeOK'
  <2>1. Len(Lines) = 3
    BY DEF Lines
  <2>2. /\ data' \in Databases /\ scratch' \in BOOLEAN /\ verdict' \in {"none", "ok", "bad"}
        /\ op' \in [name : Scripts \cup {"none"},
                   step : {"none", "verify", "createdb", "load", "dropdb", "confirm", "clean"}]
    BY ScriptSteps DEF TypeOK
  <2> QED  BY <2>1, <2>2 DEF TypeOK, SumLists
<1>2. Verdicts'
  BY VerdictsKept DEF Verdicts
<1>3. ScratchOwned'
  BY ScratchKept
<1> QED  BY <1>1, <1>2, <1>3 DEF IInv

LEMMA StartBackupKeeps ==
  ASSUME IInv, StartBackup
  PROVE  IInv'
<1>1. /\ UNCHANGED <<data, scratch, dir, sums, op, verdict, failed>>
      /\ backup = NoBackup /\ runs < MaxRuns /\ runs' = runs + 1
      /\ runs > 0 => op = NoScript
      /\ backup' = [file |-> "manifest", open |-> FALSE]
  BY DEF StartBackup
<1>2. runs \in 0 .. MaxRuns
  BY ScriptSteps DEF TypeOK
<1>3. Written'
  BY <1>1, <1>2, ScriptSteps DEF Written, NoBackup, Hashed
<1>4. SumsSound'
  <2>1. ~Summing /\ ~Summing'
    BY <1>1 DEF Summing, NoBackup
  <2> QED  BY <1>1, <2>1, ScriptSteps, SameFailures DEF SumsSound
<1>5. ScriptSound'
  <2>1. op # NoScript => runs = 0 /\ runs' = 1
    BY <1>1, <1>2
  <2>2. runs = 0 => dir["dump"] = Absent
    BY ScriptSteps DEF Written
  <2>3. op.name = "restore" /\ op.step # "verify" => runs > 0
    BY ScriptSteps DEF ScriptSound
  <2> QED  BY <1>1, <1>2, <2>1, <2>2, <2>3, ScriptSteps DEF ScriptSound, NoScript
<1>6. runs' \in 0 .. MaxRuns /\ backup' \in [file : Hashed \cup {"sums", "none"}, open : BOOLEAN]
  BY <1>1, <1>2, BackupBounds DEF Hashed
<1> QED  BY <1>1, <1>3, <1>4, <1>5, <1>6, BackupKeeps, ScriptSteps, SameFailures DEF TypeOK, SumLists, Lines

(* The files of the directory but the one that is written stay. *)
LEMMA OpenFileKeeps ==
  ASSUME IInv, OpenFile
  PROVE  IInv'
<1> PICK f \in Hashed : f = backup.file
  BY DEF OpenFile
<1>1. /\ UNCHANGED <<data, scratch, sums, op, runs, failed>> /\ verdict' = "none"
      /\ f \in Hashed /\ ~backup.open
      /\ dir' = [dir EXCEPT ![f] = [run |-> runs, of |-> data, whole |-> FALSE]]
      /\ backup' = [backup EXCEPT !.open = TRUE]
  BY DEF OpenFile
<1>2. /\ dir \in [Hashed -> Files \cup {Absent}] /\ runs \in 0 .. MaxRuns
      /\ backup \in [file : Hashed \cup {"sums", "none"}, open : BOOLEAN] /\ data \in Databases
  BY ScriptSteps DEF TypeOK
<1>3. backup' \in [file : Hashed \cup {"sums", "none"}, open : BOOLEAN]
      /\ backup'.file = f /\ backup'.open = TRUE
  BY <1>1, <1>2
<1>4. backup # NoBackup /\ backup' # NoBackup /\ runs > 0
  BY <1>1, <1>3, ScriptSteps DEF Written, NoBackup, Hashed
<1>5. [run |-> runs, of |-> data, whole |-> FALSE] \in Files
  BY <1>2, <1>4, BackupBounds DEF Files
<1>6. /\ dir' \in [Hashed -> Files \cup {Absent}]
      /\ dir'[f] \in Files /\ dir'[f].run = runs
      /\ \A g \in Hashed : g # f => dir'[g] = dir[g]
  BY <1>1, <1>2, <1>5
<1>7. Written'
  <2>1. \A g \in Hashed : g # f /\ Done(g) => Done(g)'
    BY <1>1, <1>6 DEF Done
  <2> QED  BY <1>1, <1>3, <1>4, <1>6, <2>1, ScriptSteps DEF Written, Hashed
<1>8. SumsSound'
  <2>1. ~Summing /\ ~Summing'
    BY <1>1, <1>3 DEF Summing, Hashed
  <2> QED  BY <1>1, <2>1, ScriptSteps, SameFailures DEF SumsSound
<1>9. ScriptSound'
  BY <1>1, <1>4, <1>6, ScriptSteps DEF ScriptSound, Hashed
<1> QED  BY <1>1, <1>2, <1>3, <1>6, <1>7, <1>8, <1>9, BackupKeeps, ScriptSteps, SameFailures
         DEF TypeOK, SumLists, Lines

LEMMA CloseFileKeeps ==
  ASSUME IInv, CloseFile
  PROVE  IInv'
<1> PICK f \in Hashed : f = backup.file
  BY DEF CloseFile
<1>1. /\ UNCHANGED <<data, scratch, sums, op, runs, failed>> /\ verdict' = "none"
      /\ f \in Hashed /\ backup.open
      /\ dir' = [dir EXCEPT ![f] = [dir[f] EXCEPT !.whole = TRUE]]
      /\ backup' = After(f)
  BY DEF CloseFile
<1>2. /\ dir \in [Hashed -> Files \cup {Absent}] /\ runs \in 0 .. MaxRuns
      /\ dir[f] \in Files /\ dir[f].run = runs
  BY <1>1, ScriptSteps DEF TypeOK, Written
<1>3. /\ f = "manifest" => backup' = [file |-> "dump", open |-> FALSE]
      /\ f = "dump" => backup' = [file |-> "state", open |-> FALSE]
      /\ f = "state" => backup' = [file |-> "sums", open |-> FALSE]
  BY <1>1 DEF After
<1>4. backup' \in [file : Hashed \cup {"sums", "none"}, open : BOOLEAN]
  <2>1. f = "manifest" \/ f = "dump" \/ f = "state"
    BY <1>1 DEF Hashed
  <2>2. {"dump", "state", "sums"} \subseteq Hashed \cup {"sums", "none"}
    BY DEF Hashed
  <2>3. PICK g \in {"dump", "state", "sums"} : backup' = [file |-> g, open |-> FALSE]
    BY <1>3, <2>1
  <2> QED  BY <2>2, <2>3
<1>5. backup # NoBackup /\ backup' # NoBackup /\ runs > 0
  <2>1. backup # NoBackup
    BY DEF NoBackup, Hashed
  <2>2. backup' # NoBackup
    BY <1>3 DEF NoBackup, Hashed
  <2> QED  BY <2>1, <2>2, ScriptSteps DEF Written
<1>6. [dir[f] EXCEPT !.whole = TRUE] \in Files
  BY <1>2 DEF Files
<1>7. /\ dir' \in [Hashed -> Files \cup {Absent}]
      /\ dir'[f] \in Files /\ dir'[f].run = runs /\ dir'[f].whole
      /\ \A g \in Hashed : g # f => dir'[g] = dir[g]
  BY <1>1, <1>2, <1>6 DEF Files
<1>8. Written'
  <2>1. Done(f)'
    BY <1>1, <1>7 DEF Done
  <2>2. \A g \in Hashed : Done(g) => Done(g)'
    BY <1>1, <1>7, <2>1 DEF Done
  <2>3. CASE f = "manifest"
    BY <1>1, <1>3, <1>5, <2>1, <2>3, ScriptSteps DEF Written, Hashed, NoBackup
  <2>4. CASE f = "dump"
    BY <1>1, <1>3, <1>5, <2>1, <2>2, <2>4, ScriptSteps DEF Written, Hashed, NoBackup
  <2>5. CASE f = "state"
    BY <1>1, <1>3, <1>5, <2>1, <2>2, <2>5, ScriptSteps DEF Written, Hashed, NoBackup
  <2> QED  BY <1>1, <2>3, <2>4, <2>5 DEF Hashed
<1>9. SumsSound'
  <2>1. ~Summing /\ ~Summing'
    BY <1>1, <1>3 DEF Summing, Hashed
  <2> QED  BY <1>1, <2>1, ScriptSteps, SameFailures DEF SumsSound
<1>10. ScriptSound'
  BY <1>1, <1>5, <1>7, ScriptSteps DEF ScriptSound, Hashed
<1> QED  BY <1>1, <1>2, <1>4, <1>7, <1>8, <1>9, <1>10, BackupKeeps, ScriptSteps, SameFailures
         DEF TypeOK, SumLists, Lines

LEMMA OpenSumsKeeps ==
  ASSUME IInv, OpenSums
  PROVE  IInv'
<1>1. /\ UNCHANGED <<data, scratch, dir, op, runs, failed>> /\ verdict' = "none"
      /\ backup.file = "sums" /\ sums' = <<>>
      /\ backup' = [file |-> "sums", open |-> TRUE]
  BY DEF OpenSums
<1>2. backup # NoBackup /\ backup' # NoBackup /\ runs > 0 /\ runs \in 0 .. MaxRuns
  BY <1>1, ScriptSteps DEF Written, NoBackup, TypeOK
<1>3. backup' \in [file : Hashed \cup {"sums", "none"}, open : BOOLEAN]
  BY <1>1
<1>4. Written'
  BY <1>1, <1>2, ScriptSteps DEF Written, Done, Hashed
<1>5. sums' \in SumLists /\ Len(sums') = 0
  BY <1>1 DEF SumLists
<1>6. SumsSound'
  BY <1>1, <1>5 DEF SumsSound, Summing
<1>7. ScriptSound'
  BY <1>1, <1>2, ScriptSteps DEF ScriptSound, Hashed
<1> QED  BY <1>1, <1>2, <1>3, <1>4, <1>5, <1>6, <1>7, BackupKeeps, ScriptSteps, SameFailures DEF TypeOK

LEMMA BackupFailsKeeps ==
  ASSUME IInv, BackupFails
  PROVE  IInv'
<1>1. /\ UNCHANGED <<data, scratch, dir, sums, op, verdict, runs>>
      /\ backup # NoBackup /\ backup' = NoBackup /\ MayFail(backup.file)
  BY DEF BackupFails
<1>2. backup.file \in Commands
  BY ScriptSteps DEF TypeOK, Hashed, Commands
<1>3. /\ failed' \in Seq(Commands) /\ Len(failed') <= MaxFailures
      /\ SumsFailed => SumsFailed'
      /\ DropFailed => DropFailed'
      /\ backup.file = "sums" => SumsFailed'
  BY <1>1, <1>2, ScriptSteps, FailuresGrow
<1>4. Written'
  BY <1>1, ScriptSteps DEF Written, NoBackup, Hashed
<1>5. SumsSound'
  <2>1. ~Summing' /\ (Summing => backup.file = "sums")
    BY <1>1 DEF Summing, NoBackup
  <2> QED  BY <1>1, <1>3, <2>1, ScriptSteps DEF SumsSound
<1>6. ScriptSound'
  BY <1>1, ScriptSteps DEF ScriptSound, NoBackup, Hashed
<1>7. backup' \in [file : Hashed \cup {"sums", "none"}, open : BOOLEAN]
  BY <1>1 DEF NoBackup
<1> QED  BY <1>1, <1>3, <1>4, <1>5, <1>6, <1>7, BackupKeeps, ScriptSteps DEF TypeOK, SumLists, Lines

LEMMA LinesListed ==
  ASSUME NEW k \in 1 .. 3
  PROVE  Lines[k] \in Hashed
<1>1. k = 1 \/ k = 2 \/ k = 3
  OBVIOUS
<1> QED  BY <1>1 DEF Lines, Hashed

(* sha256sum reads files that nothing writes meanwhile. *)
LEMMA WriteSumKeeps ==
  ASSUME IInv, WriteSum
  PROVE  IInv'
<1> DEFINE n == Len(sums)
<1>1. /\ UNCHANGED <<data, scratch, dir, op, runs, failed>> /\ verdict' = "none"
      /\ backup = [file |-> "sums", open |-> TRUE]
      /\ sums' = Append(sums, [name |-> Lines[n + 1], content |-> dir[Lines[n + 1]]])
      /\ backup' = IF Len(sums') = Len(Lines) THEN After("sums") ELSE backup
  BY DEF WriteSum
<1>2. /\ Summing /\ sums \in SumLists /\ n \in Nat /\ n < 3
      /\ \A i \in 1 .. n : /\ sums[i].name = Lines[i] /\ sums[i].content.whole
                           /\ sums[i].content.run = runs
  <2>1. Summing
    BY <1>1 DEF Summing
  <2>2. sums \in SumLists /\ n < 3
    BY <2>1, ScriptSteps DEF SumsSound
  <2>3. n \in Nat
    BY <2>2, LenProperties DEF SumLists
  <2> QED  BY <2>1, <2>2, <2>3, ScriptSteps DEF SumsSound
<1>3. PICK f \in Hashed : f = Lines[n + 1]
  <2>1. n + 1 \in 1 .. 3
    BY <1>2
  <2> QED  BY <2>1, LinesListed
<1>4. dir[f] \in Files /\ dir[f].whole /\ dir[f].run = runs
  BY <1>1, ScriptSteps DEF Written, Done, Hashed
<1>5. PICK line \in [name : Hashed, content : Files] :
        line = [name |-> f, content |-> dir[f]] /\ sums' = Append(sums, line)
  BY <1>1, <1>3, <1>4
<1>6. /\ sums' \in SumLists /\ Len(sums') = n + 1
      /\ \A i \in 1 .. n : sums'[i] = sums[i]
      /\ sums'[n + 1] = line
  BY <1>2, <1>5, AppendProperties DEF SumLists
<1>7. \A i \in 1 .. (n + 1) : /\ sums'[i].name = Lines[i] /\ sums'[i].content.whole
                               /\ sums'[i].content.run = runs
  <2> SUFFICES ASSUME NEW i \in 1 .. (n + 1)
               PROVE  /\ sums'[i].name = Lines[i] /\ sums'[i].content.whole
                      /\ sums'[i].content.run = runs
    OBVIOUS
  <2>1. CASE i \in 1 .. n
    BY <1>2, <1>6, <2>1
  <2>2. CASE i = n + 1
    BY <1>3, <1>4, <1>5, <1>6, <2>2
  <2> QED  BY <1>2, <2>1, <2>2
<1>8. \/ Len(sums') = 3 /\ backup' = NoBackup
      \/ Len(sums') < 3 /\ backup' = backup
  <2>1. Len(Lines) = 3 /\ After("sums") = NoBackup
    BY DEF Lines, After
  <2> QED  BY <1>1, <1>2, <1>6, <2>1
<1>9. /\ runs > 0 /\ backup # NoBackup
      /\ backup' \in [file : Hashed \cup {"sums", "none"}, open : BOOLEAN]
  <2>1. backup # NoBackup
    BY <1>1 DEF NoBackup
  <2>2. NoBackup \in [file : Hashed \cup {"sums", "none"}, open : BOOLEAN]
    BY DEF NoBackup
  <2> QED  BY <1>8, <2>1, <2>2, ScriptSteps DEF Written, TypeOK
<1>10. Written'
  <2>1. runs > 0 /\ runs' = runs
    BY <1>1, <1>9
  <2>2. CASE backup' = NoBackup
    BY <2>1, <2>2, ScriptSteps DEF Written, NoBackup, Hashed, TypeOK
  <2>3. CASE backup' = backup
    BY <1>1, <2>1, <2>3, ScriptSteps DEF Written, Done, NoBackup, Hashed, TypeOK
  <2> QED  BY <1>8, <2>2, <2>3
<1>11. SumsSound'
  <2>1. Summing' <=> backup' = backup
    BY <1>1, <1>8 DEF Summing, NoBackup
  <2>2. Summing' \/ Len(sums') = 3
    BY <1>8, <2>1
  <2>3. Summing' => Len(sums') < 3 /\ \A i \in 1 .. Len(sums') : sums'[i].content.run = runs'
    BY <1>1, <1>6, <1>7, <1>8, <1>9, <2>1
  <2>4. /\ sums' \in SumLists
        /\ \A i \in 1 .. Len(sums') : sums'[i].name = Lines[i] /\ sums'[i].content.whole
        /\ \A i, j \in 1 .. Len(sums') : sums'[i].content.run = sums'[j].content.run
    BY <1>6, <1>7
  <2> QED  BY <2>2, <2>3, <2>4 DEF SumsSound
<1>12. ScriptSound'
  BY <1>1, <1>8, <1>9, ScriptSteps DEF ScriptSound, NoBackup, Hashed
<1> QED  BY <1>1, <1>2, <1>6, <1>9, <1>10, <1>11, <1>12, BackupKeeps, ScriptSteps, SameFailures DEF TypeOK

LEMMA NextIInv == IInv /\ [Next]_bvars => IInv'
<1> SUFFICES ASSUME IInv, [Next]_bvars PROVE IInv'
  OBVIOUS
<1>1. CASE BackupStep
  BY <1>1, StartBackupKeeps, OpenFileKeeps, CloseFileKeeps, OpenSumsKeeps, WriteSumKeeps,
     BackupFailsKeeps DEF BackupStep
<1>2. CASE OperatorStep
  BY <1>2, StartKeeps, VerifyKeeps, CreateScratchKeeps, LoadScratchKeeps, DropScratchKeeps,
     ConfirmKeeps, CleanKeeps, LoadKeeps, ScriptFailsKeeps DEF OperatorStep
<1>3. CASE UNCHANGED bvars
  <2>1. /\ UNCHANGED <<data, scratch, dir, sums, backup, op, verdict, runs, failed>>
    BY <1>3 DEF bvars
  <2>2. ScriptSound' /\ ScratchOwned'
    BY <2>1, ScriptSteps, SameFailures DEF ScriptSound, ScratchOwned
  <2> QED  BY <2>1, <2>2, VerdictsKept, OperatorKeeps, ScriptSteps DEF TypeOK, OpTypes
<1> QED  BY <1>1, <1>2, <1>3 DEF Next

-----------------------------------------------------------------------------
THEOREM Invariance == Spec => []IInv
BY InitIInv, NextIInv, PTL DEF Spec

(* Variables keep their types; what is restored is production data, whole or *)
(* half (restore_citus_backup.sh).                                          *)
THEOREM TypeCorrect == Spec => []TypeOK
<1>1. IInv => TypeOK
  BY DEF IInv
<1> QED  BY <1>1, Invariance, PTL

(* The dump that verify_backup.sh accepts was written to its end. *)
THEOREM AcceptedDumpsAreWhole == Spec => []VerifiedDumpIsWhole
<1>1. IInv => VerifiedDumpIsWhole
  BY VerifiesWhole, ScriptSteps DEF VerifiedDumpIsWhole, Verdicts
<1> QED  BY <1>1, Invariance, PTL

(* A drill leaves no scratch database unless its dropdb failed               *)
(* (backup_restore_drill.sh: the EXIT trap).                                *)
THEOREM DrillsCleanUp == Spec => []DrillCleansUp
<1>1. IInv => DrillCleansUp
  BY ScriptSteps DEF DrillCleansUp, ScratchOwned, DropFailed
<1> QED  BY <1>1, Invariance, PTL

LEMMA VerifiesOne == IInv /\ Verifies => OneBackup \/ SumsFailed
<1> SUFFICES ASSUME IInv, Verifies, ~SumsFailed PROVE OneBackup
  OBVIOUS
<1>1. sums # Absent
  BY DEF Verifies
<1>2. CASE Summing
  <2>1. \A f \in Hashed : Done(f)
    BY <1>2, ScriptSteps DEF Summing, Written, Hashed
  <2>2. \A f \in Hashed : dir[f] # Absent /\ dir[f].whole /\ dir[f].run = runs
    BY <2>1, AbsentAssumption DEF Done
  <2> QED  BY <2>2 DEF OneBackup
<1>3. CASE Len(sums) = 3
  <2>1. /\ sums \in SumLists /\ DOMAIN sums = 1 .. 3
        /\ \A i \in 1 .. 3 : sums[i].name = Lines[i] /\ sums[i].content.whole
        /\ \A i, j \in 1 .. 3 : sums[i].content.run = sums[j].content.run
    BY <1>1, <1>3, ScriptSteps DEF SumsSound, SumLists
  <2>2. \A i \in 1 .. 3 : sums[i].content \in Files
    <3>1. \A i \in 1 .. 3 : sums[i] \in [name : Hashed, content : Files]
      BY <1>3, <2>1, ElementOfSeq DEF SumLists
    <3> QED  BY <3>1
  <2>3. \A i \in 1 .. 3 : dir[Lines[i]] = sums[i].content
    BY <2>1 DEF Verifies
  <2>4. \A f \in Hashed : \E i \in 1 .. 3 : f = Lines[i]
    BY DEF Hashed, Lines
  <2>5. \A f \in Hashed : \E i \in 1 .. 3 : dir[f] = sums[i].content
    BY <2>3, <2>4
  <2> QED  BY <2>1, <2>2, <2>5, AbsentAssumption DEF OneBackup
<1> QED  BY <1>1, <1>2, <1>3, ScriptSteps DEF SumsSound

(* A verified directory holds the files of one backup, unless the sha256sum  *)
(* of one was cut short (verify_backup.sh, backup_all_shards.sh).           *)
THEOREM VerifiedAreOneBackup == Spec => []VerifiedIsOneBackup
<1>1. IInv => VerifiedIsOneBackup
  BY VerifiesOne, ScriptSteps DEF VerifiedIsOneBackup, Verdicts, SumsFailed
<1> QED  BY <1>1, Invariance, PTL

(* With an absolute BACKUP_DIR a complete backup is never refused.           *)
THEOREM CompleteIsAccepted ==
  ASSUME ~RelativeDir
  PROVE  Spec => []CompleteVerifies
<1>1. IInv => CompleteVerifies
  <2> SUFFICES ASSUME IInv, CompleteBackup PROVE verdict # "bad"
    BY DEF CompleteVerifies
  <2>1. sums # Absent /\ Len(sums) = 3 /\ dir["dump"] # Absent
    BY DEF CompleteBackup, OneBackup, Hashed, Lines
  <2>2. sums # <<>>
    BY <2>1
  <2>3. Verifies
    BY <2>1, <2>2 DEF Verifies, NamesResolve, CompleteBackup
  <2> QED  BY <2>3, ScriptSteps DEF Verdicts
<1> QED  BY <1>1, Invariance, PTL

(* restore_citus_backup.sh drops the production objects only with a whole    *)
(* dump to load in their place, when it is given the directory.             *)
THEOREM WholeBeforeDrop == Spec => DataTradedForWhole
<1>1. IInv /\ [Next]_bvars =>
        [data = "whole" /\ data' = "half" /\ op.name = "restore" => dir["dump"].whole]_bvars
  <2> SUFFICES ASSUME IInv, Next, data = "whole", data' = "half", op.name = "restore"
               PROVE  dir["dump"].whole
    OBVIOUS
  <2>1. Clean \/ Load
    BY DEF Next, BackupStep, OperatorStep, StartBackup, OpenFile, CloseFile, OpenSums, WriteSum,
       BackupFails, Start, Verify, CreateScratch, LoadScratch, DropScratch, Confirm, ScriptFails
  <2>2. op.step # "verify"
    BY <2>1 DEF Clean, Load, At
  <2> QED  BY <2>2, ScriptSteps DEF ScriptSound
<1> QED  BY <1>1, Invariance, PTL DEF Spec, DataTradedForWhole
=============================================================================
