----------------------------- MODULE Configuration -----------------------------
(***************************************************************************)
(* What every command does first: ulcr_load_config reads key=value lines   *)
(* into fields of fixed size, ulcr_prepare_runtime_paths makes the names   *)
(* of the files of the store out of them.                                  *)
(*                                                                         *)
(* A text is its length, a number what atoi makes of it.  A path is cut    *)
(* off at ULCR_MAX_PATH - 1 characters, and no caller looks at the result  *)
(* of ulcr_path_join or snprintf.  The model keeps a path as the parts it  *)
(* is made of and how much of each is left.  Parts that may follow the     *)
(* same path begin with different characters, so two paths are the same    *)
(* text exactly when they are the same parts.                              *)
(***************************************************************************)
EXTENDS Integers, Sequences, SequencesExt

CONSTANTS
    ULCR_MAX_PATH,
    Lengths,      \* of the texts in the file
    Numbers,      \* in the file
    MaxLines      \* bound: the lines of the file

ASSUME ConfigurationAssumption ==
    /\ ULCR_MAX_PATH \in Nat /\ ULCR_MAX_PATH > 64
    /\ Lengths \subseteq Nat
    /\ Numbers \subseteq Int
    /\ MaxLines \in Nat

TextKeys   == {"process_name", "workload_path", "workload_args", "runtime_root"}
NumberKeys == {"checkpoint_interval_sec", "monitor_interval_sec", "max_checkpoints", "auto_restore"}

\* A comment, an empty line, one without "=" or with a key nobody knows.
Ignored == [key |-> "", value |-> 0]

Lines == [key : TextKeys, value : Lengths] \cup [key : NumberKeys, value : Numbers] \cup {Ignored}

FieldSize(key) ==
    CASE key = "process_name" -> 64
      [] key = "workload_args" -> 256
      [] OTHER -> ULCR_MAX_PATH

VARIABLES
    file,     \* the lines of the configuration file
    pc,
    line,     \* the lines read
    config,
    result,   \* of ulcr_load_config
    paths     \* what ulcr_prepare_runtime_paths and the code that uses it name

vars == <<file, pc, line, config, result, paths>>

Default ==
    [process_name |-> 0, workload_path |-> 0, workload_args |-> 0,
     runtime_root |-> 9,  \* ./runtime
     checkpoint_interval_sec |-> 15, monitor_interval_sec |-> 3,
     max_checkpoints |-> 5, auto_restore |-> 1]

Root(length) == [length |-> length, parts |-> <<>>]

\* ulcr_path_join, snprintf: what there is room for is appended.
Join(path, part, length) ==
    LET room == ULCR_MAX_PATH - 1 - path.length
        kept == IF length < room THEN length ELSE room
    IN  IF kept = 0 THEN path
        ELSE [length |-> path.length + kept, parts |-> Append(path.parts, <<part, kept>>)]

Under(path, name, length) == Join(Join(path, "/", 1), name, length)
Temporary(path) == Join(path, ".tmp", 4)

CheckpointsDir(c) ==
    Under(Under(Root(c.runtime_root), "checkpoints", 11), "process", c.process_name)

ProcessDir(c) ==
    Under(Under(Root(c.runtime_root), "processes", 9), "process", c.process_name)

\* Mutant: both slots are called slot_A.
OneSlotDir(c, slot) == Join(Under(CheckpointsDir(c), "slot_", 5), "A", 1)

SlotDir(c, slot) == Join(Under(CheckpointsDir(c), "slot_", 5), slot, 1)

SlotPaths(c, slot) ==
    LET snapshot == Under(SlotDir(c, slot), "snapshot.bin", 12)
        manifest == Under(SlotDir(c, slot), "manifest.txt", 12)
    IN  <<snapshot, Temporary(snapshot), manifest, Temporary(manifest)>>

\* What a checkpoint writes: the four files of each slot, active.meta, the lock.
StorePaths(c) ==
    SlotPaths(c, "A") \o SlotPaths(c, "B")
        \o <<Under(CheckpointsDir(c), "active.meta", 11), Under(CheckpointsDir(c), "checkpoint.lock", 15)>>

\* What the life cycle commands write: pid, process.log and status.txt.
ProcessPaths(c) ==
    LET p == Under(ProcessDir(c), "p", 1)
    IN  <<Join(p, "id", 2), Join(p, "rocess.log", 10), Under(ProcessDir(c), "status.txt", 10)>>

Init ==
    /\ file \in UNION {[1 .. n -> Lines] : n \in 0 .. MaxLines}
    /\ pc = "open"
    /\ line = 0
    /\ config = Default
    /\ result = 0
    /\ paths = <<>>

-----------------------------------------------------------------------------

Open ==
    /\ pc = "open"
    /\ pc' = "read"
    /\ UNCHANGED <<file, line, config, result, paths>>

OpenFails ==
    /\ pc = "open"
    /\ result' = -1
    /\ pc' = "end"
    /\ UNCHANGED <<file, line, config, paths>>

\* Mutant: the texts are copied without regard to the size of their field.
AssignedUnbounded(c, entry) ==
    IF entry = Ignored THEN c ELSE [c EXCEPT ![entry.key] = entry.value]

\* ulcr_copy_string cuts a text off, atoi takes a number.
Assigned(c, entry) ==
    IF entry = Ignored THEN c
    ELSE [c EXCEPT ![entry.key] =
             IF entry.key \in TextKeys /\ entry.value >= FieldSize(entry.key)
             THEN FieldSize(entry.key) - 1 ELSE entry.value]

\* Mutant: the first line with a key counts.
KeepFirst ==
    /\ pc = "read" /\ line < Len(file)
    /\ line' = line + 1
    /\ config' = IF \E i \in 1 .. line : file[i].key = file[line'].key THEN config
                 ELSE Assigned(config, file[line'])
    /\ UNCHANGED <<file, pc, result, paths>>

\* One turn of the loop.
ReadLine ==
    /\ pc = "read" /\ line < Len(file)
    /\ line' = line + 1
    /\ config' = Assigned(config, file[line'])
    /\ UNCHANGED <<file, pc, result, paths>>

Acceptable ==
    /\ config.process_name > 0 /\ config.workload_path > 0
    /\ \A key \in NumberKeys \ {"auto_restore"} : config[key] >= 1

Check ==
    /\ pc = "read" /\ line = Len(file)
    /\ result' = IF Acceptable THEN 0 ELSE -1
    /\ pc' = IF Acceptable THEN "prepare" ELSE "end"
    /\ UNCHANGED <<file, line, config, paths>>

\* ulcr_prepare_runtime_paths, and the names made from its results later.
Prepare ==
    /\ pc = "prepare"
    /\ paths' = StorePaths(config) \o ProcessPaths(config)
    /\ pc' = "ready"
    /\ UNCHANGED <<file, line, config, result>>

Next == Open \/ OpenFails \/ ReadLine \/ Check \/ Prepare

Spec == Init /\ [][Next]_vars

-----------------------------------------------------------------------------
(***************************************************************************)
(* Properties.                                                             *)
(***************************************************************************)

\* Every variable holds a value of its type: no field of the configuration and
\* no path outgrows its array.
TypeOK ==
    /\ pc \in {"open", "read", "prepare", "ready", "end"}
    /\ line \in 0 .. Len(file)
    /\ DOMAIN config = TextKeys \cup NumberKeys
    /\ \A key \in TextKeys : config[key] \in 0 .. FieldSize(key) - 1
    /\ \A key \in NumberKeys : config[key] \in Int
    /\ result \in {0, -1}
    /\ \A i \in DOMAIN paths : paths[i].length < ULCR_MAX_PATH

\* A configuration that is accepted is what its last lines say, or the default,
\* and fit for the loop: no interval is zero, so the timer is not disarmed and
\* the interval is not divided to nothing.
LastLineCounts ==
    pc \in {"prepare", "ready"} =>
        /\ config.checkpoint_interval_sec >= 1 /\ config.monitor_interval_sec >= 1
        /\ \A key \in NumberKeys :
            \/ config[key] = Default[key] /\ \A i \in DOMAIN file : file[i].key # key
            \/ \E i \in DOMAIN file :
                 /\ file[i] = [key |-> key, value |-> config[key]]
                 /\ \A j \in i + 1 .. Len(file) : file[j].key # key

Distinct == \A i, j \in DOMAIN paths : paths[i] = paths[j] => i = j

\* A slot's temporary names fit when all but the last three characters do.
Fits == CheckpointsDir(config).length + 21 < ULCR_MAX_PATH

\* Where the names fit, no two files of the store or of the process share one:
\* the slots are two, a temporary file is never the published one.
NamesDistinct == (pc = "ready" /\ Fits) => Distinct

=============================================================================
