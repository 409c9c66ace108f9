---------------------------- MODULE AtomicTextFile ----------------------------
(***************************************************************************)
(* ulcr_atomic_write_text_file called by several processes for one file:   *)
(* open FILE.tmp with O_TRUNC, write, fsync, rename.  active.meta is       *)
(* written under the checkpoint lock (locked), the state and the status    *)
(* file are written by every command and by the monitor without any.       *)
(*                                                                         *)
(* The temporary file has one name: two writers open the same inode, each  *)
(* writes at an offset of its own, and a rename moves whatever the name    *)
(* denotes then, with the descriptors of others still open on it.          *)
(***************************************************************************)
EXTENDS Integers, Sequences, FiniteSets, SequencesExt

CONSTANTS
    Writers,
    Values,   \* the texts that are written
    Faults,   \* calls may fail (a full disk), writers may be killed
    MaxShort  \* bound: the writes that are short

ASSUME FileAssumption ==
    /\ IsFiniteSet(Writers) /\ Writers # {}
    /\ \A v \in Values : v \in Seq(Nat) /\ v # <<>>
    /\ Faults \in BOOLEAN
    /\ MaxShort \in Nat

VARIABLES
    locked,   \* whether the writers hold the checkpoint lock
    text,     \* of each inode
    tmp,      \* the inode FILE.tmp denotes
    file,     \* the inode FILE denotes
    pc,       \* where each writer is
    fd,       \* the inode it has open
    value,    \* its argument
    result,   \* what its last call returned
    short     \* history: the writes that have written a part of their text

writerVars == <<pc, fd, value, result>>
vars == <<locked, text, tmp, file, writerVars, short>>

\* One inode per writer, the published one and the temporary one are enough.
Inodes == 1 .. Cardinality(Writers) + 2
Null   == 0

Init ==
    /\ locked \in BOOLEAN
    /\ text = [i \in Inodes |-> <<>>]
    /\ tmp = Null
    /\ file = Null
    /\ pc = [w \in Writers |-> "idle"]
    /\ fd = [w \in Writers |-> Null]
    /\ value \in [Writers -> Values]
    /\ result = [w \in Writers |-> 0]
    /\ short = 0

Unused == {i \in Inodes : i \notin {tmp, file} /\ \A w \in Writers : fd[w] # i}

\* Inodes are interchangeable: the kernel takes the lowest that is unused.
NewInode == {i \in Unused : \A j \in Unused : i <= j}

Goto(w, to) == pc' = [pc EXCEPT ![w] = to]

Return(w, r) ==
    /\ Goto(w, "idle")
    /\ fd' = [fd EXCEPT ![w] = Null]
    /\ result' = [result EXCEPT ![w] = r]

\* Mutant: the call is made without the checkpoint lock.
CallAtOnce(w) == pc[w] = "idle"

MayCall(w) == pc[w] = "idle" /\ (locked => \A other \in Writers : pc[other] = "idle")

Call(w) ==
    /\ MayCall(w)
    /\ \E v \in Values : value' = [value EXCEPT ![w] = v]
    /\ Goto(w, "open")
    /\ UNCHANGED <<locked, text, tmp, file, fd, result, short>>

\* O_CREAT and O_TRUNC.
Open(w) ==
    /\ pc[w] = "open"
    /\ \E i \in (IF tmp = Null THEN NewInode ELSE {tmp}) :
        /\ tmp' = i
        /\ fd' = [fd EXCEPT ![w] = i]
        /\ text' = [text EXCEPT ![i] = <<>>]
    /\ Goto(w, "write")
    /\ UNCHANGED <<locked, file, value, result, short>>

\* Mutant: the last unit of the text is not written.
OverLess(new, old) ==
    IF new = <<>> THEN old ELSE Front(new) \o SubSeq(old, Len(new), Len(old))

\* What a write at offset 0 makes of the text of a file.
Over(new, old) == new \o SubSeq(old, Len(new) + 1, Len(old))

Write(w) ==
    /\ pc[w] = "write"
    /\ text' = [text EXCEPT ![fd[w]] = Over(value[w], @)]
    /\ Goto(w, "fsync")
    /\ UNCHANGED <<locked, tmp, file, fd, value, result, short>>

Fsync(w) ==
    /\ pc[w] = "fsync"
    /\ Goto(w, "rename")
    /\ UNCHANGED <<locked, text, tmp, file, fd, value, result, short>>

\* fd is closed before the rename; the fsync of the directory may fail.
Rename(w) ==
    /\ pc[w] = "rename" /\ tmp # Null
    /\ file' = tmp
    /\ tmp' = Null
    /\ Return(w, 0) \/ (Faults /\ Return(w, -1))
    /\ UNCHANGED <<locked, text, value, short>>

OpenFails(w) ==
    /\ Faults /\ pc[w] = "open"
    /\ Return(w, -1)
    /\ UNCHANGED <<locked, text, tmp, file, value, short>>

\* A part of the text is written, or none.
PartWritten(w) ==
    /\ Faults /\ pc[w] = "write"
    /\ \E part \in Prefixes(value[w]) : text' = [text EXCEPT ![fd[w]] = Over(part, @)]

\* Mutant: a short write is taken for a whole one.
ShortWrite(w) ==
    /\ PartWritten(w)
    /\ Goto(w, "fsync")
    /\ UNCHANGED <<locked, tmp, file, fd, value, result, short>>

\* FILE.tmp is closed.
Close(w) ==
    /\ Goto(w, "unlink")
    /\ fd' = [fd EXCEPT ![w] = Null]

WriteFails(w) ==
    /\ PartWritten(w)
    /\ short < MaxShort
    /\ Close(w)
    /\ short' = short + 1
    /\ UNCHANGED <<locked, tmp, file, value, result>>

\* fsync fails, or rename, which has nothing to rename when somebody else has
\* renamed or unlinked the temporary file.
SyncFails(w) ==
    /\ \/ Faults /\ pc[w] \in {"fsync", "rename"}
       \/ pc[w] = "rename" /\ tmp = Null
    /\ Close(w)
    /\ UNCHANGED <<locked, text, tmp, file, value, result, short>>

\* FILE.tmp is unlinked, whoever opened the one that is there.
Unlink(w) ==
    /\ pc[w] = "unlink"
    /\ tmp' = Null
    /\ Return(w, -1)
    /\ UNCHANGED <<locked, text, file, value, short>>

\* The process is killed; the kernel closes its files and drops its lock.
Crash(w) ==
    /\ Faults /\ pc[w] # "idle"
    /\ Return(w, -1)
    /\ UNCHANGED <<locked, text, tmp, file, value, short>>

Next == \E w \in Writers :
    \/ Call(w) \/ Open(w) \/ Write(w) \/ Fsync(w) \/ Rename(w)
    \/ OpenFails(w) \/ WriteFails(w) \/ SyncFails(w) \/ Unlink(w) \/ Crash(w)

Spec == Init /\ [][Next]_vars

-----------------------------------------------------------------------------
(***************************************************************************)
(* Properties.                                                             *)
(***************************************************************************)

\* Under the lock the file holds one whole text at every instant, whatever
\* fails and whoever is killed, a temporary file left behind included.
WholeText == (locked /\ file # Null) => text[file] \in Values

\* Without the lock a reader may find nothing yet, or the rest of a longer text
\* behind a shorter one, but always a whole text at the beginning, as long as no
\* write was short.
WholeTextFirst ==
    (file # Null /\ short = 0) => text[file] = <<>> \/ \E v \in Values : IsPrefix(v, text[file])

\* Under the lock a call that returns 0 leaves its own text in the file.
ReturnedIsPublished ==
    [][\A w \in Writers : (locked /\ pc[w] = "rename" /\ result'[w] = 0 /\ pc'[w] = "idle")
          => text'[file'] = value[w]]_vars

=============================================================================
