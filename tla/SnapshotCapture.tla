--------------------------- MODULE SnapshotCapture ---------------------------
(***************************************************************************)
(* ulcr_capture_snapshot: stop the process with ptrace, read its layout,   *)
(* copy the bytes of every region that is to be included, then rewrite     *)
(* the header and the region table and publish the file.  The process may  *)
(* be killed, a read may fail and the disk may fill up between any two     *)
(* calls, and `stop' may send it a SIGTERM.                                *)
(*                                                                         *)
(* Bytes are counted in units, the amount one process_vm_readv and write   *)
(* move; offsets count from the end of the tables.  What a unit holds is   *)
(* <<region, position, version of the process state>>.                     *)
(***************************************************************************)
EXTENDS Naturals, Sequences

CONSTANTS
    Maps,              \* /proc/<pid>/maps, in the order of addresses
    ULCR_MAX_REGIONS,  \* the regions an image has room for
    MaxVersion         \* bound: how often the process changes its state

\* What parse_maps_line takes from a line; managed: it is in the managed window.
Kernel  == {"[vvar]", "[vdso]", "[vsyscall]"}
Mapping == [size : Nat \ {0}, perms : SUBSET {"r", "w", "x"},
            name : Kernel \cup {"", "[heap]", "[stack]", "file"}, managed : BOOLEAN]

ASSUME CaptureAssumption ==
    /\ Maps \in Seq(Mapping)
    /\ ULCR_MAX_REGIONS \in Nat
    /\ MaxVersion \in Nat

VARIABLES
    process,    \* running, stopped by ptrace, halted by a SIGSTOP, or dead
    pending,    \* signals it has not taken yet
    version,    \* of its state: every store makes a new one
    pc,         \* where ulcr_capture_snapshot is
    regions,    \* image.regions
    index,      \* the region being copied
    copied,     \* how much of it dump_region_bytes has copied
    data,       \* snapshot.bin.tmp behind its tables
    result,     \* what the last call returned
    published,  \* snapshot.bin of the slot
    instant     \* history: the version the process was stopped at; an image
                \* remembers it, too

procVars == <<process, pending, version>>
copyVars == <<regions, index, copied, data>>
vars == <<procVars, pc, copyVars, result, published, instant>>

Signals == {"SIGTERM", "SIGSTOP"}

\* collect_regions stops when the layout is full.
RegionIds == {i \in DOMAIN Maps : i <= ULCR_MAX_REGIONS}

Size(i) == Maps[i].size

\* region->include of parse_maps_line.
Included(i) ==
    /\ "r" \in Maps[i].perms
    /\ "w" \in Maps[i].perms \/ Maps[i].name \in {"[heap]", "[stack]", ""}
    /\ Maps[i].name \notin Kernel

Excluded == [include |-> FALSE, offset |-> 0, size |-> 0]

\* ulcr_collect_proc_layout, as image.regions takes it over.
Layout == [i \in RegionIds |-> [Excluded EXCEPT !.include = Included(i)]]

NoImage == [regions |-> [i \in RegionIds |-> Excluded], data |-> <<>>, instant |-> 0]

Init ==
    /\ process = "running"
    /\ pending = {}
    /\ version = 0
    /\ pc = "idle"
    /\ regions = NoImage.regions
    /\ index = 1
    /\ copied = 0
    /\ data = <<>>
    /\ result = "none"
    /\ published = NoImage
    /\ instant = 0

-----------------------------------------------------------------------------
(***************************************************************************)
(* The process.                                                            *)
(***************************************************************************)

Store ==
    /\ process = "running" /\ version < MaxVersion
    /\ version' = version + 1
    /\ UNCHANGED <<process, pending, pc, copyVars, result, published, instant>>

\* SIGKILL takes a stopped process, too.
Kill ==
    /\ process # "dead"
    /\ process' = "dead"
    /\ UNCHANGED <<pending, version, pc, copyVars, result, published, instant>>

\* ulcr_stop_process.
Terminate ==
    /\ process # "dead"
    /\ pending' = pending \cup {"SIGTERM"}
    /\ UNCHANGED <<process, version, pc, copyVars, result, published, instant>>

\* A process that runs takes a signal: on_signal ends it, nobody continues it.
Deliver(signal) ==
    /\ process = "running" /\ signal \in pending
    /\ pending' = pending \ {signal}
    /\ process' = IF signal = "SIGTERM" THEN "dead" ELSE "halted"
    /\ UNCHANGED <<version, pc, copyVars, result, published, instant>>

-----------------------------------------------------------------------------
(***************************************************************************)
(* ulcr_capture_snapshot.                                                  *)
(***************************************************************************)

\* ptrace_detach_if_needed: a process that is still there goes on.
ptrace_detach ==
    /\ process' = IF process = "stopped" THEN "running" ELSE process
    /\ pending' = pending

Return(value) ==
    /\ pc' = "idle"
    /\ result' = value

\* ptrace_attach_and_stop: PTRACE_ATTACH sends a SIGSTOP and waitpid waits for
\* a stop, which is that of the first signal the process takes.  The detach
\* gives no signal back.
Attach ==
    /\ pc = "idle" /\ process \in {"running", "halted"}
    /\ process' = "stopped"
    /\ IF process = "halted" THEN pending' = pending \cup {"SIGSTOP"}
       ELSE \E first \in pending \cup {"SIGSTOP"} :
                pending' = (pending \cup {"SIGSTOP"}) \ {first}
    /\ pc' = "layout"
    /\ result' = "none"
    /\ instant' = version
    /\ UNCHANGED <<version, copyVars, published>>

AttachFails ==
    /\ pc = "idle"
    /\ Return("failed")
    /\ UNCHANGED <<procVars, copyVars, published, instant>>

\* ulcr_collect_proc_layout and PTRACE_GETREGS need a process that is there;
\* then snapshot.bin.tmp is truncated and gets provisional tables.
CollectLayout ==
    /\ pc = "layout" /\ process = "stopped"
    /\ regions' = Layout
    /\ index' = 1 /\ copied' = 0
    /\ data' = <<>>
    /\ pc' = "dump"
    /\ UNCHANGED <<procVars, result, published, instant>>

\* Mutant: the index is incremented by the loop and by its body.
NextRegionTwice ==
    /\ index' = index + 2
    /\ copied' = 0

NextRegion ==
    /\ index' = index + 1
    /\ copied' = 0

SkipRegion ==
    /\ pc = "dump" /\ index \in RegionIds /\ ~regions[index].include
    /\ NextRegion
    /\ UNCHANGED <<procVars, pc, regions, data, result, published, instant>>

\* One turn of dump_region_bytes.
CopyUnit ==
    /\ pc = "dump" /\ index \in RegionIds /\ regions[index].include
    /\ process = "stopped"
    /\ copied < Size(index)
    /\ data' = Append(data, <<index, copied + 1, version>>)
    /\ copied' = copied + 1
    /\ UNCHANGED <<procVars, pc, regions, index, result, published, instant>>

\* Mutant: the offset is counted from the sizes of the regions included so far.
EndRegionBySizes ==
    /\ pc = "dump" /\ index \in RegionIds /\ regions[index].include
    /\ copied = Size(index)
    /\ regions' = [regions EXCEPT ![index] =
                      [include |-> TRUE, size |-> copied,
                       offset |-> Len(SelectSeq(data, LAMBDA u : regions[u[1]].include)) - copied]]
    /\ NextRegion
    /\ UNCHANGED <<procVars, pc, data, result, published, instant>>

\* dump_region_bytes returns the size; offset is what lseek told before.
EndRegion ==
    /\ pc = "dump" /\ index \in RegionIds /\ regions[index].include
    /\ copied = Size(index)
    /\ regions' = [regions EXCEPT ![index] =
                      [include |-> TRUE, offset |-> Len(data) - copied, size |-> copied]]
    /\ NextRegion
    /\ UNCHANGED <<procVars, pc, data, result, published, instant>>

\* Mutant: the region that was lost stays marked as included.
LoseKeepsInclude ==
    /\ pc = "dump" /\ index \in RegionIds /\ regions[index].include
    /\ copied < Size(index)
    /\ NextRegion
    /\ UNCHANGED <<procVars, pc, regions, data, result, published, instant>>

\* dump_region_bytes returns -1: a read failed, because the process is dead or
\* the region cannot be read, or a write did that may have left some bytes.
\* The region is excluded and the loop goes on.
LoseRegion ==
    /\ pc = "dump" /\ index \in RegionIds /\ regions[index].include
    /\ copied < Size(index)
    /\ regions' = [regions EXCEPT ![index] = Excluded]
    /\ \/ UNCHANGED data
       \/ process = "stopped" /\ data' = Append(data, <<index, copied + 1, version>>)
    /\ NextRegion
    /\ UNCHANGED <<procVars, pc, result, published, instant>>

included_regions == {i \in RegionIds : regions[i].include}

\* The tables are rewritten, the file is fsynced, renamed, its directory
\* fsynced, the manifest written.  What fails behind the rename, and an image
\* without regions, make the call return -1 with the image in its slot.
Publish ==
    /\ pc = "dump" /\ index \notin RegionIds
    /\ published' = [regions |-> regions, data |-> data, instant |-> instant]
    /\ ptrace_detach
    /\ \/ Return("ok") /\ included_regions # {}
       \/ Return("failed")
    /\ UNCHANGED <<version, copyVars, instant>>

\* Mutant: a failed call returns without ptrace_detach_if_needed.
FailAttached ==
    /\ pc # "idle"
    /\ Return("failed")
    /\ UNCHANGED <<procVars, copyVars, published, instant>>

\* Any other call fails, before the rename.
Fail ==
    /\ pc # "idle"
    /\ ptrace_detach
    /\ Return("failed")
    /\ UNCHANGED <<version, copyVars, published, instant>>

Capture ==
    \/ CollectLayout \/ SkipRegion \/ CopyUnit \/ EndRegion \/ LoseRegion
    \/ Publish \/ Fail

Next ==
    \/ Store \/ Kill \/ Terminate \/ (\E signal \in Signals : Deliver(signal))
    \/ Attach \/ AttachFails \/ Capture

\* A capture that has begun goes on; nobody has to begin one.
Spec == Init /\ [][Next]_vars /\ WF_vars(Capture)

-----------------------------------------------------------------------------
(***************************************************************************)
(* Properties.                                                             *)
(***************************************************************************)

Region == [include : BOOLEAN, offset : Nat, size : Nat]
Unit   == RegionIds \X Nat \X Nat
Image  == [regions : [RegionIds -> Region], data : Seq(Unit), instant : Nat]

\* Every variable holds a value of its type.
TypeOK ==
    /\ process \in {"running", "stopped", "halted", "dead"}
    /\ pending \subseteq Signals
    /\ version \in Nat
    /\ pc \in {"idle", "layout", "dump"}
    /\ regions \in [RegionIds -> Region]
    /\ index \in Nat \ {0} /\ (index = 1 \/ index - 1 \in RegionIds)
    /\ copied \in Nat
    /\ data \in Seq(Unit)
    /\ result \in {"none", "ok", "failed"}
    /\ published \in Image
    /\ instant \in Nat

BytesOf(image, i) ==
    SubSeq(image.data, image.regions[i].offset + 1,
           image.regions[i].offset + image.regions[i].size)

\* In every image that reaches a slot the table finds, for each region it
\* includes, exactly the bytes of that region as they were when the process
\* was stopped, whatever regions were lost on the way.
ImageExact ==
    \A i \in RegionIds : published.regions[i].include =>
        BytesOf(published, i) = [k \in 1 .. Size(i) |-> <<i, k, published.instant>>]

\* The bytes of region i in d, as the table entry r finds them, are those of
\* version v.
Holds(d, r, i, v) ==
    r.include =>
        /\ r.size = Size(i) /\ r.offset + Size(i) <= Len(d)
        /\ \A k \in 1 .. Size(i) : d[r.offset + k] = <<i, k, v>>

\* The units of the current region that are copied are the last of the file.
TailCopied ==
    /\ copied <= Len(data)
    /\ \A k \in 1 .. copied : data[Len(data) - copied + k] = <<index, k, instant>>

\* What holds at each place of a capture: the process does not move, and the
\* table is right as far as the loop has come.
CaptureInv ==
    /\ pc = "idle" => process # "stopped"
    /\ pc # "idle" => process \in {"stopped", "dead"}
    /\ process = "stopped" => version = instant
    /\ pc = "dump" => TailCopied
    /\ pc = "dump" => \A i \in RegionIds : i < index => Holds(data, regions[i], i, instant)
    /\ \A i \in RegionIds : Holds(published.data, published.regions[i], i, published.instant)

\* However a capture ends, it lets go of the process.  If the stop it waited for
\* was that of its own SIGSTOP, the process runs again with no SIGSTOP left to
\* take, or is dead.  If it was that of another signal, the capture has taken
\* that signal away and leaves its SIGSTOP behind: such a process halts when it
\* is let go, and nothing in the code continues it.
ProcessResumes ==
    /\ (process = "stopped") ~> (process # "stopped")
    /\ (process = "stopped" /\ "SIGSTOP" \notin pending) ~>
          (process = "dead" \/ (process = "running" /\ "SIGSTOP" \notin pending))

\* A capture that returned 0 is complete: the managed regions, all that a
\* restore rebuilds, are in it.
ManagedCaptured ==
    result = "ok" => \A i \in DOMAIN Maps : Maps[i].managed => i \in RegionIds /\ published.regions[i].include

=============================================================================
