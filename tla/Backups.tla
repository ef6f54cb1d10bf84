------------------------------ MODULE Backups ------------------------------
(***************************************************************************)
(* The operator's backup commands: create, verify, restore, prune, drill.  *)
(* Each is a process of its own, started by hand or by cron; several run   *)
(* at once over one folder, and any of them can be killed.                 *)
(*                                                                         *)
(* Code: src/scripts/backup.mjs, backup-postgres.mjs, backup-envelope.mjs. *)
(*                                                                         *)
(* A backup is a file whose name is the second it was named in and a       *)
(* number; it is whole once its last byte is written, and only a whole one *)
(* decrypts.  A plaintext copy is a scratch file in a private directory,   *)
(* or, for a drill on PostgreSQL, a throwaway database.                    *)
(***************************************************************************)
EXTENDS Naturals, FiniteSets

CONSTANTS
    Commands,    \* processes that may run at the same time
    Plans,       \* bound: driver, kinds of command used, how many are started,
                 \* what may go wrong, and the last tick
    Days,        \* --days, in ticks
    Keep         \* --keep

ASSUME RetentionAssumption == {Days, Keep} \subseteq Nat \ {0}
ASSUME PlansAssumption ==
    \A p \in Plans : /\ p.driver \in {"sqlite", "postgres"}
                     /\ p.kinds \subseteq {"create", "verify", "restore", "prune", "drill"}
                     /\ p.faults \subseteq {"kill", "damage", "full", "refuse", "boot"}
                     /\ {p.most, p.until} \subseteq Nat

VARIABLES
    plan,       \* the bound this behaviour keeps to
    clock,      \* ticks; a stamp's second, and what --days counts
    sound,      \* the live database is intact
    folder,     \* name -> when it was written, and whether to its end
    plaintext,  \* commands, by number, with a copy in the clear on the disk
    excused,    \* those that ended before they could delete theirs
    target,     \* what is where an operator wants a backup restored
    commands,   \* what runs in each slot
    started,    \* commands so far
    finished    \* backups written to the end so far

backupVars == <<plan, clock, sound, folder, plaintext, excused, target, commands, started, finished>>

Stopped == [kind |-> "none", step |-> "none"]
NoFile == [second |-> 0, n |-> 0]

BackupInit ==
    /\ plan \in Plans
    /\ clock = 1 /\ sound = TRUE
    /\ folder = <<>> /\ plaintext = {} /\ excused = {} /\ target = "empty"
    /\ commands = [c \in Commands |-> Stopped]
    /\ started = 0 /\ finished = 0

-----------------------------------------------------------------------------
(* Processes *)

Does(c, kind, step) == commands[c].kind = kind /\ commands[c].step = step
Step(c, step) == commands' = [commands EXCEPT ![c].step = step]
Exit(c) == commands' = [commands EXCEPT ![c] = Stopped]
Id(c) == commands[c].id

Sqlite == plan.driver = "sqlite"

\* With SQLite a copy in the clear goes through the disk; pg_dump and
\* pg_restore are piped.
InClear(c) == IF Sqlite THEN plaintext \cup {Id(c)} ELSE plaintext
Deleted(c) == plaintext \ {Id(c)}
Leaves(c) == IF Id(c) \in plaintext THEN excused \cup {Id(c)} ELSE excused

\* `symvolon-T-1` sorts before `symvolon-T`: '-' comes before '.'.
Before(a, b) ==
    \/ a.second < b.second
    \/ a.second = b.second /\ a.n # 0 /\ (b.n = 0 \/ a.n < b.n)

Later(file) == {f \in DOMAIN folder : Before(file, f)}

FirstStep == [create |-> "snapshot", verify |-> "open", restore |-> "open",
              drill |-> "open", prune |-> "list"]

\* verify and restore are told a file, and so is a drill, or it takes the last.
Start(c, kind) ==
    \E file \in IF kind \in {"create", "prune"} THEN {NoFile} ELSE DOMAIN folder :
        /\ commands[c] = Stopped
        /\ started < plan.most /\ started' = started + 1
        /\ commands' = [commands EXCEPT ![c] =
                           [kind |-> kind, step |-> FirstStep[kind], id |-> started + 1,
                            file |-> file, intact |-> TRUE, todo |-> {}, cutoff |-> 0]]
        /\ plaintext' = IF kind = "create" /\ Sqlite THEN plaintext \cup {started + 1} ELSE plaintext
        /\ UNCHANGED <<plan, clock, sound, folder, excused, target, finished>>

-----------------------------------------------------------------------------
(* create *)

\* snapshot reads VACUUM INTO's file back and deletes it; pg_dump is a pipe.
Snapshot(c) ==
    /\ Does(c, "create", "snapshot")
    /\ commands' = [commands EXCEPT ![c].step = "inspect", ![c].intact = sound]
    /\ plaintext' = Deleted(c)
    /\ UNCHANGED <<plan, clock, sound, folder, excused, target, started, finished>>

\* The bytes are written out once more so that SQLite can look at them.
BeginInspect(c) ==
    /\ commands[c].step = "inspect"
    /\ Step(c, "inspecting")
    /\ plaintext' = InClear(c)
    /\ UNCHANGED <<plan, clock, sound, folder, excused, target, started, finished>>

AfterInspect == [create |-> "name", verify |-> "done", drill |-> "copy", restore |-> "check"]

\* fail() is process.exit: inspect's `finally` does not run.
Inspected(c) ==
    /\ commands[c].step = "inspecting"
    /\ IF commands[c].intact
       THEN /\ plaintext' = Deleted(c)
            /\ UNCHANGED excused
            /\ IF commands[c].kind = "verify" THEN Exit(c) ELSE Step(c, AfterInspect[commands[c].kind])
       ELSE Exit(c) /\ excused' = Leaves(c) /\ UNCHANGED plaintext
    /\ UNCHANGED <<plan, clock, sound, folder, target, started, finished>>

\* The first name of this second that no file has.
FirstFree(name) ==
    /\ name \notin DOMAIN folder
    /\ \A k \in 0..(name.n - 1) : [second |-> clock, n |-> k] \in DOMAIN folder

ChooseName(c) ==
    /\ Does(c, "create", "name")
    /\ \E name \in [second : {clock}, n : 0..started] :
           /\ FirstFree(name)
           /\ commands' = [commands EXCEPT ![c].step = "write", ![c].file = name]
    /\ UNCHANGED <<plan, clock, sound, folder, plaintext, excused, target, started, finished>>

\* Flag `wx`: the file of another run with the same name is not overwritten.
OpenFile(c) ==
    /\ Does(c, "create", "write")
    /\ IF commands[c].file \in DOMAIN folder THEN Exit(c) /\ UNCHANGED folder
       ELSE /\ folder' = [f \in {commands[c].file} \cup DOMAIN folder |->
                             IF f \in DOMAIN folder THEN folder[f] ELSE [at |-> clock, whole |-> FALSE]]
            /\ Step(c, "writing")
    /\ UNCHANGED <<plan, clock, sound, plaintext, excused, target, started, finished>>

\* A prune may have unlinked the file that is being written.
WriteFile(c) ==
    /\ Does(c, "create", "writing")
    /\ folder' = IF commands[c].file \in DOMAIN folder
                 THEN [folder EXCEPT ![commands[c].file] = [at |-> clock, whole |-> TRUE]] ELSE folder
    /\ finished' = IF commands[c].file \in DOMAIN folder THEN finished + 1 ELSE finished
    /\ Exit(c)
    /\ UNCHANGED <<plan, clock, sound, plaintext, excused, target, started>>

-----------------------------------------------------------------------------
(* verify, restore, drill *)

\* Half a file has the wrong tag, and a file that is gone cannot be read.
Decrypt(c) ==
    /\ commands[c].step = "open"
    /\ IF commands[c].file \in DOMAIN folder /\ folder[commands[c].file].whole
       THEN Step(c, "inspect") ELSE Exit(c)
    /\ UNCHANGED <<plan, clock, sound, folder, plaintext, excused, target, started, finished>>

\* With SQLite the target must not exist when it is opened (`wx`); with
\* PostgreSQL it is asked whether it has tables.
CheckTarget(c) ==
    /\ Does(c, "restore", "check")
    /\ IF target # "empty" THEN Exit(c) /\ UNCHANGED target
       ELSE /\ Step(c, "land")
            /\ target' = IF Sqlite THEN "part" ELSE target
    /\ UNCHANGED <<plan, clock, sound, folder, plaintext, excused, started, finished>>

\* pg_restore --exit-on-error in one transaction: a table that is there by
\* now undoes it all.
Lands == Sqlite \/ target = "empty"

Land(c) ==
    /\ Does(c, "restore", "land")
    /\ target' = IF Lands THEN "restored" ELSE target
    /\ Exit(c)
    /\ UNCHANGED <<plan, clock, sound, folder, plaintext, excused, started, finished>>

\* The operator starts the service on the target, which makes its tables.
BootTarget ==
    /\ "boot" \in plan.faults /\ target = "empty"
    /\ target' = "other"
    /\ UNCHANGED <<plan, clock, sound, folder, plaintext, excused, commands, started, finished>>

\* The copy a drill boots the service on: a file, or a database.
CopyForDrill(c) ==
    /\ Does(c, "drill", "copy")
    /\ plaintext' = plaintext \cup {Id(c)}
    /\ Step(c, "serve")
    /\ UNCHANGED <<plan, clock, sound, folder, excused, target, started, finished>>

\* The service comes up or not; the caller's `finally` runs either way.
ServiceDrilled(c) ==
    /\ Does(c, "drill", "serve")
    /\ plaintext' = Deleted(c)
    /\ Exit(c)
    /\ UNCHANGED <<plan, clock, sound, folder, excused, target, started, finished>>

-----------------------------------------------------------------------------
(* prune *)

\* All but the last --keep.
BugRemovable == {f \in DOMAIN folder : Cardinality(Later(f)) + 1 >= Keep}
Removable == {f \in DOMAIN folder : Cardinality(Later(f)) >= Keep}

ListFolder(c) ==
    /\ Does(c, "prune", "list")
    /\ commands' = [commands EXCEPT ![c].step = "each", ![c].todo = Removable,
                                    ![c].cutoff = clock]
    /\ UNCHANGED <<plan, clock, sound, folder, plaintext, excused, target, started, finished>>

\* In the order of their names.
First(todo) == {f \in todo : \A g \in todo : ~Before(g, f)}

\* The next file: kept if it is young, unlinked if old; gone already, statSync throws.
PruneOne(c) ==
    /\ Does(c, "prune", "each")
    /\ \E name \in First(commands[c].todo) :
           IF name \notin DOMAIN folder THEN Exit(c) /\ UNCHANGED folder
           ELSE /\ commands' = [commands EXCEPT ![c].todo = @ \ {name}]
                /\ folder' = IF folder[name].at + Days >= commands[c].cutoff THEN folder
                             ELSE [f \in DOMAIN folder \ {name} |-> folder[f]]
    /\ UNCHANGED <<plan, clock, sound, plaintext, excused, target, started, finished>>

PruneDone(c) ==
    /\ Does(c, "prune", "each")
    /\ commands[c].todo = {}
    /\ Exit(c)
    /\ UNCHANGED <<plan, clock, sound, folder, plaintext, excused, target, started, finished>>

-----------------------------------------------------------------------------
(* What goes wrong *)

\* The host stops, or an operator does: nothing is cleaned up.
Kill(c) ==
    /\ "kill" \in plan.faults /\ commands[c] # Stopped
    /\ excused' = Leaves(c)
    /\ Exit(c)
    /\ UNCHANGED <<plan, clock, sound, folder, plaintext, target, started, finished>>

\* No room for the scratch copy: it is written before the `try` that deletes it.
DiskFull(c) ==
    /\ "full" \in plan.faults /\ Sqlite
    /\ commands[c].step \in {"inspect", "copy"}
    /\ plaintext' = plaintext \cup {Id(c)}
    /\ excused' = excused \cup {Id(c)}
    /\ Exit(c)
    /\ UNCHANGED <<plan, clock, sound, folder, target, started, finished>>

\* The server that holds the throwaway database does not answer DROP DATABASE.
DropRefused(c) ==
    /\ "refuse" \in plan.faults /\ ~Sqlite
    /\ Does(c, "drill", "serve")
    /\ excused' = Leaves(c)
    /\ Exit(c)
    /\ UNCHANGED <<plan, clock, sound, folder, plaintext, target, started, finished>>

\* VACUUM INTO copies what it finds.
Damage ==
    /\ "damage" \in plan.faults /\ sound
    /\ sound' = FALSE
    /\ UNCHANGED <<plan, clock, folder, plaintext, excused, target, commands, started, finished>>

Tomorrow ==
    /\ clock < plan.until
    /\ clock' = clock + 1
    /\ UNCHANGED <<plan, sound, folder, plaintext, excused, target, commands, started, finished>>

BackupNext ==
    \/ \E c \in Commands :
           \/ \E kind \in plan.kinds : Start(c, kind)
           \/ Snapshot(c) \/ BeginInspect(c) \/ Inspected(c)
           \/ ChooseName(c) \/ OpenFile(c) \/ WriteFile(c)
           \/ Decrypt(c) \/ CheckTarget(c) \/ Land(c) \/ CopyForDrill(c) \/ ServiceDrilled(c)
           \/ ListFolder(c) \/ PruneOne(c) \/ PruneDone(c)
           \/ Kill(c) \/ DiskFull(c) \/ DropRefused(c)
    \/ BootTarget \/ Damage \/ Tomorrow

BackupSpec == BackupInit /\ [][BackupNext]_backupVars

-----------------------------------------------------------------------------
(* Properties *)

\* However many prunes overlap, and whatever is written beside them, --keep
\* backups stay once there have been as many; a file cut off by a crash counts
\* as one of them, although it opens no more.  (backup-envelope.mjs: "never
\* leaves fewer than --keep")
RetentionFloor ==
    LET due == IF finished < Keep THEN finished ELSE Keep
    IN  Cardinality(DOMAIN folder) >= due

\* A copy in the clear outlives its command only if that was killed, its
\* database was damaged, the copy did not fit on the disk, or the server would
\* not drop it.  (backup.mjs, backup-postgres.mjs: every `finally`)
NoPlaintextLeft ==
    plaintext \subseteq excused \cup {commands[c].id : c \in {d \in Commands : commands[d] # Stopped}}

\* What a crash, a full disk or two commands at once leave behind is neither too
\* few backups nor their plaintext.  (backup.mjs, backup-postgres.mjs,
\* backup-envelope.mjs)
BackupsAreKept == RetentionFloor /\ NoPlaintextLeft

=============================================================================
