-------------------------- MODULE AtomicTextFileProofs --------------------------
(***************************************************************************)
(* Under the checkpoint lock, for any number of writers and any texts, the *)
(* file holds a whole text at every instant and a call that returns 0 has  *)
(* published its own, whatever fails and whoever is killed.                *)
(***************************************************************************)
EXTENDS AtomicTextFile, FiniteSetTheorems, SequenceTheorems, TLAPS

\* What a write leaves of the text of a file that was truncated.
LEMMA OverEmpty ==
    ASSUME NEW v \in Seq(Nat)
    PROVE  Over(v, <<>>) = v
<1>1. SubSeq(<<>>, Len(v) + 1, Len(<<>>)) = <<>>
  OBVIOUS
<1>2. v \o <<>> = v
  OBVIOUS
<1> QED
  BY <1>1, <1>2 DEF Over

-----------------------------------------------------------------------------
(***************************************************************************)
(* The invariant.                                                          *)
(***************************************************************************)

\* The writer that is at work is alone; what it has open is FILE.tmp and not
\* FILE; it finds FILE.tmp empty before its write and has its text in it after.
WriterInv ==
    /\ \A v, w \in Writers : pc[v] # "idle" /\ pc[w] # "idle" => v = w
    /\ \A w \in Writers : pc[w] \in {"idle", "open", "unlink"} => fd[w] = Null
    /\ \A w \in Writers : pc[w] \in {"write", "fsync", "rename"} => fd[w] = tmp /\ tmp # Null
    /\ tmp # Null => tmp # file
    /\ \A w \in Writers : pc[w] = "write" => text[tmp] = <<>>
    /\ \A w \in Writers : pc[w] \in {"fsync", "rename"} => text[tmp] = value[w]

\* The types that the proofs need.
FileTypes ==
    /\ locked \in BOOLEAN
    /\ DOMAIN text = Inodes
    /\ tmp \in Inodes \cup {Null}
    /\ file \in Inodes \cup {Null}
    /\ pc \in [Writers -> {"idle", "open", "write", "fsync", "rename", "unlink"}]
    /\ fd \in [Writers -> Inodes \cup {Null}]
    /\ value \in [Writers -> Values]

LockedInv == locked /\ FileTypes /\ WriterInv /\ WholeText

\* LockedInv holds in the first state.
LEMMA LockedInit ==
    ASSUME Init, locked
    PROVE  LockedInv
BY DEF Init, LockedInv, FileTypes, WriterInv, WholeText

\* An inode is not Null.
LEMMA InodeNotNull ==
    ASSUME NEW i \in Inodes
    PROVE  i # Null
BY FS_CardinalityType, FileAssumption DEF Inodes, Null

\* A call begins when nobody else is at work.
LEMMA CallStep ==
    ASSUME LockedInv, NEW w \in Writers, Call(w)
    PROVE  LockedInv'
<1>1. /\ \A other \in Writers : pc[other] = "idle"
      /\ pc' = [pc EXCEPT ![w] = "open"]
      /\ UNCHANGED <<locked, text, tmp, file, fd>>
  BY DEF Call, MayCall, Goto, LockedInv
<1>2. value' \in [Writers -> Values]
  BY DEF Call, LockedInv, FileTypes
<1>3. FileTypes' /\ WholeText'
  BY <1>1, <1>2 DEF LockedInv, FileTypes, WholeText
<1>4. WriterInv'
  BY <1>1 DEF LockedInv, FileTypes, WriterInv
<1> QED
  BY <1>1, <1>3, <1>4 DEF LockedInv

\* The temporary file is opened and truncated, the one left behind by a writer
\* that was killed included.
LEMMA OpenStep ==
    ASSUME LockedInv, NEW w \in Writers, Open(w)
    PROVE  LockedInv'
<1>1. PICK i \in Inodes :
        /\ tmp = Null => i \in Unused
        /\ tmp # Null => i = tmp
        /\ tmp' = i
        /\ fd' = [fd EXCEPT ![w] = i]
        /\ text' = [text EXCEPT ![i] = <<>>]
  BY DEF Open, Unused, NewInode, LockedInv, FileTypes
<1>2. /\ pc[w] = "open" /\ pc' = [pc EXCEPT ![w] = "write"]
      /\ file' = file /\ value' = value /\ locked' = locked
  BY DEF Open, Goto
<1>3. i # file /\ i # Null
  BY <1>1, InodeNotNull DEF Unused, LockedInv, WriterInv
<1>4. FileTypes'
  BY <1>1, <1>2 DEF LockedInv, FileTypes
<1>5. WholeText'
  BY <1>1, <1>2, <1>3 DEF LockedInv, FileTypes, WholeText
<1>6. \A v \in Writers : v # w => pc'[v] = "idle" /\ pc[v] = "idle"
  BY <1>2 DEF LockedInv, FileTypes, WriterInv
<1>7. WriterInv'
  BY <1>1, <1>2, <1>3, <1>6 DEF LockedInv, FileTypes, WriterInv
<1> QED
  BY <1>2, <1>4, <1>5, <1>7 DEF LockedInv

\* The write puts the writer's text into the empty temporary file.
LEMMA WriteStep ==
    ASSUME LockedInv, NEW w \in Writers, Write(w)
    PROVE  LockedInv'
<1>1. /\ pc[w] = "write" /\ pc' = [pc EXCEPT ![w] = "fsync"]
      /\ text' = [text EXCEPT ![fd[w]] = Over(value[w], text[fd[w]])]
      /\ UNCHANGED <<locked, tmp, file, fd, value>>
  BY DEF Write, Goto
<1>2. /\ fd[w] = tmp /\ tmp # Null /\ tmp # file /\ text[tmp] = <<>>
  BY <1>1 DEF LockedInv, WriterInv
<1>3. Over(value[w], text[fd[w]]) = value[w]
  <2>1. value[w] \in Seq(Nat)
    BY FileAssumption DEF LockedInv, FileTypes
  <2> QED
    BY <1>2, <2>1, OverEmpty
<1>4. text' = [text EXCEPT ![tmp] = value[w]]
  BY <1>1, <1>2, <1>3
<1>5. FileTypes' /\ WholeText'
  BY <1>1, <1>2, <1>4 DEF LockedInv, FileTypes, WholeText
<1>6. \A v \in Writers : v # w => pc'[v] = "idle"
  BY <1>1 DEF LockedInv, FileTypes, WriterInv
<1>7. WriterInv'
  BY <1>1, <1>2, <1>4, <1>6 DEF LockedInv, FileTypes, WriterInv
<1> QED
  BY <1>1, <1>5, <1>7 DEF LockedInv

\* The rename publishes the writer's text.
LEMMA RenameStep ==
    ASSUME LockedInv, NEW w \in Writers, Rename(w)
    PROVE  LockedInv' /\ text'[file'] = value[w]
<1>1. /\ pc[w] = "rename" /\ file' = tmp /\ tmp' = Null /\ tmp # Null
      /\ pc' = [pc EXCEPT ![w] = "idle"] /\ fd' = [fd EXCEPT ![w] = Null]
      /\ UNCHANGED <<locked, text, value>>
  BY DEF Rename, Return, Goto
<1>2. text[tmp] = value[w]
  BY <1>1 DEF LockedInv, WriterInv
<1>3. FileTypes' /\ WholeText'
  BY <1>1, <1>2 DEF LockedInv, FileTypes, WholeText
<1>4. WriterInv'
  BY <1>1 DEF LockedInv, FileTypes, WriterInv
<1> QED
  BY <1>1, <1>2, <1>3, <1>4 DEF LockedInv

\* A call that fails, or is killed, leaves the file alone and nothing open.
LEMMA FailStep ==
    ASSUME LockedInv, NEW w \in Writers,
           OpenFails(w) \/ WriteFails(w) \/ SyncFails(w) \/ Unlink(w) \/ Crash(w)
    PROVE  LockedInv'
<1>1. /\ pc' \in {[pc EXCEPT ![w] = "idle"], [pc EXCEPT ![w] = "unlink"]}
      /\ fd' = [fd EXCEPT ![w] = Null] /\ pc[w] # "idle"
      /\ tmp' \in {tmp, Null}
      /\ UNCHANGED <<locked, file, value>>
  BY DEF OpenFails, WriteFails, PartWritten, SyncFails, Unlink, Crash, Close, Return, Goto
<1>2. \A v \in Writers : v # w => pc[v] = "idle"
  BY <1>1 DEF LockedInv, WriterInv
<1>3. DOMAIN text' = Inodes /\ (file # Null => text'[file] = text[file])
  <2>1. CASE WriteFails(w)
    <3>1. fd[w] # file \/ file = Null
      BY <2>1 DEF WriteFails, PartWritten, LockedInv, WriterInv
    <3>2. \E new : text' = [text EXCEPT ![fd[w]] = new]
      BY <2>1 DEF WriteFails, PartWritten
    <3> QED
      BY <3>1, <3>2 DEF LockedInv, FileTypes
  <2>2. CASE ~WriteFails(w)
    BY <2>2 DEF OpenFails, SyncFails, Unlink, Crash, LockedInv, FileTypes
  <2> QED
    BY <2>1, <2>2
<1>4. FileTypes' /\ WholeText'
  BY <1>1, <1>3 DEF LockedInv, FileTypes, WholeText
<1>5. WriterInv'
  BY <1>1, <1>2 DEF LockedInv, FileTypes, WriterInv
<1> QED
  BY <1>1, <1>4, <1>5 DEF LockedInv

\* Every step keeps LockedInv.
LEMMA LockedStep ==
    ASSUME LockedInv, [Next]_vars
    PROVE  LockedInv'
<1>1. CASE \E w \in Writers : Fsync(w)
  BY <1>1 DEF Fsync, Goto, LockedInv, FileTypes, WriterInv, WholeText
<1>2. CASE UNCHANGED vars
  BY <1>2 DEF vars, writerVars, LockedInv, FileTypes, WriterInv, WholeText
<1> QED
  BY <1>1, <1>2, CallStep, OpenStep, WriteStep, RenameStep, FailStep DEF Next

\* Whether the lock is held does not change.
LEMMA LockedStays == [Next]_vars => locked' = locked
BY DEF Next, vars, Call, Open, Write, Fsync, Rename, OpenFails, WriteFails, SyncFails, Unlink, Crash

\* Where it is held, the invariant holds.
LockedKeeps == locked => LockedInv

\* In every reachable state.
LEMMA AlwaysKept == Spec => []LockedKeeps
<1>1. Init => LockedKeeps
  BY LockedInit DEF LockedKeeps
<1>2. LockedKeeps /\ [Next]_vars => LockedKeeps'
  BY LockedStep, LockedStays DEF LockedKeeps
<1> QED
  BY <1>1, <1>2, PTL DEF Spec

\* Under the lock active.meta holds a whole text at every instant, whatever
\* fails and whoever is killed (ulcr_atomic_write_text_file).
THEOREM AlwaysWhole == Spec => []WholeText
<1>1. LockedKeeps => WholeText
  BY DEF LockedKeeps, LockedInv, WholeText
<1> QED
  BY <1>1, AlwaysKept, PTL

\* Every writer has a result.
ResultType == DOMAIN result = Writers

\* Every step keeps ResultType.
LEMMA ResultStep ==
    ASSUME ResultType, [Next]_vars
    PROVE  ResultType'
<1>1. CASE UNCHANGED vars
  BY <1>1 DEF ResultType, vars, writerVars
<1>2. ASSUME NEW w \in Writers,
             \/ Call(w) \/ Open(w) \/ Write(w) \/ Fsync(w) \/ Rename(w)
             \/ OpenFails(w) \/ WriteFails(w) \/ SyncFails(w) \/ Unlink(w) \/ Crash(w)
      PROVE  ResultType'
  BY <1>2 DEF ResultType, Call, Open, Write, Fsync, Rename, OpenFails, WriteFails, PartWritten, SyncFails, Unlink, Crash,
              Close, Return
<1> QED
  BY <1>1, <1>2 DEF Next

\* The step that ends a writer's rename with 0 is its rename.
LEMMA EndedByRename ==
    ASSUME FileTypes, ResultType, [Next]_vars,
           NEW w \in Writers, pc[w] = "rename", result'[w] = 0, pc'[w] = "idle"
    PROVE  Rename(w)
<1>0. ~UNCHANGED vars
  BY DEF vars, writerVars
<1>1. PICK v \in Writers :
        \/ Call(v) \/ Open(v) \/ Write(v) \/ Fsync(v) \/ Rename(v)
        \/ OpenFails(v) \/ WriteFails(v) \/ SyncFails(v) \/ Unlink(v) \/ Crash(v)
  BY <1>0 DEF Next
<1>2. \E to : pc' = [pc EXCEPT ![v] = to]
  BY <1>1 DEF Call, Open, Write, Fsync, Rename, OpenFails, WriteFails, PartWritten, SyncFails, Unlink, Crash, Close,
        Return, Goto
<1>3. v = w
  BY <1>2 DEF FileTypes
<1>4. ~Call(w) /\ ~Open(w) /\ ~Write(w) /\ ~Fsync(w)
  BY DEF Call, MayCall, Open, Write, Fsync, Goto, FileTypes
<1>5. ~OpenFails(w) /\ ~Unlink(w) /\ ~Crash(w)
  <2>1. result' # [result EXCEPT ![w] = -1]
    BY DEF ResultType
  <2> QED
    BY <2>1 DEF OpenFails, Unlink, Crash, Return
<1>6. ~WriteFails(w) /\ ~SyncFails(w)
  BY DEF WriteFails, SyncFails, Close, Goto, FileTypes
<1> QED
  BY <1>1, <1>3, <1>4, <1>5, <1>6

\* Under the lock a call that returns 0 has published its own text
\* (ulcr_atomic_write_text_file).
THEOREM Published == Spec => ReturnedIsPublished
<1>1. ASSUME LockedKeeps, ResultType, [Next]_vars
      PROVE  [\A w \in Writers : (locked /\ pc[w] = "rename" /\ result'[w] = 0 /\ pc'[w] = "idle")
                 => text'[file'] = value[w]]_vars
  BY <1>1, EndedByRename, RenameStep DEF LockedKeeps, LockedInv
<1>2. Init => ResultType
  BY DEF Init, ResultType
<1>3. Spec => []ResultType
  BY <1>2, ResultStep, PTL DEF Spec
<1> QED
  BY <1>1, <1>3, AlwaysKept, PTL DEF Spec, ReturnedIsPublished

-----------------------------------------------------------------------------
(***************************************************************************)
(* Without the lock.                                                       *)
(***************************************************************************)

\* A text written at the beginning of a file is its beginning.
LEMMA OverBegins ==
    ASSUME NEW v \in Seq(Nat), NEW old \in Seq(Nat)
    PROVE  Over(v, old) \in Seq(Nat) /\ IsPrefix(v, Over(v, old))
<1>1. SubSeq(old, Len(v) + 1, Len(old)) \in Seq(Nat)
  OBVIOUS
<1>2. ASSUME NEW rest \in Seq(Nat) PROVE v \o rest \in Seq(Nat) /\ IsPrefix(v, v \o rest)
  BY <1>2 DEF IsPrefix
<1> QED
  BY <1>1, <1>2 DEF Over

\* The texts of the files, the temporary one's included, the types they need.
TextTypes ==
    /\ text \in [Inodes -> Seq(Nat)]
    /\ tmp \in Inodes \cup {Null}
    /\ file \in Inodes \cup {Null}
    /\ value \in [Writers -> Values]
    /\ short \in Nat

Begins(t) == t = <<>> \/ \E v \in Values : IsPrefix(v, t)

\* As long as no write was short every file is empty or begins with a whole text,
\* whoever else writes into it through another descriptor.
BeginInv == TextTypes /\ (short = 0 => \A i \in Inodes : Begins(text[i]))

\* Every step keeps the types.
LEMMA TextTypesStep ==
    ASSUME TextTypes, [Next]_vars
    PROVE  TextTypes'
<1> USE DEF TextTypes
<1>1. \A w \in Writers : value[w] \in Seq(Nat)
  BY FileAssumption
<1>2. ASSUME NEW w \in Writers, Write(w) PROVE TextTypes'
  BY <1>1, <1>2, OverBegins DEF Write
<1>3. ASSUME NEW w \in Writers, WriteFails(w) PROVE TextTypes'
  <2>1. PICK part \in Prefixes(value[w]) : text' = [text EXCEPT ![fd[w]] = Over(part, @)]
    BY <1>3 DEF WriteFails, PartWritten
  <2>2. part \in Seq(Nat)
    BY <1>1, <2>1 DEF Prefixes
  <2>3. text' \in [Inodes -> Seq(Nat)]
    BY <2>1, <2>2, OverBegins
  <2> QED
    BY <1>3, <2>3 DEF WriteFails
<1>4. ASSUME NEW w \in Writers, Open(w) PROVE TextTypes'
  BY <1>4 DEF Open, NewInode, Unused
<1>5. ASSUME NEW w \in Writers,
             Call(w) \/ Fsync(w) \/ Rename(w) \/ OpenFails(w) \/ SyncFails(w) \/ Unlink(w) \/ Crash(w)
      PROVE  TextTypes'
  BY <1>5 DEF Call, Fsync, Rename, OpenFails, SyncFails, Unlink, Crash
<1>6. CASE UNCHANGED vars
  BY <1>6 DEF vars, writerVars
<1> QED
  BY <1>2, <1>3, <1>4, <1>5, <1>6 DEF Next

\* A step that ends without a short write has written nothing, truncated a file
\* or put a whole text at the beginning of one.
LEMMA TextStep ==
    ASSUME TextTypes, [Next]_vars, short' = 0, NEW i \in Inodes
    PROVE  /\ short = 0
           /\ \/ text'[i] = text[i]
              \/ text'[i] = <<>>
              \/ \E v \in Values : text'[i] = Over(v, text[i])
<1> USE DEF TextTypes
<1>1. ASSUME NEW w \in Writers, WriteFails(w) PROVE FALSE
  BY <1>1 DEF WriteFails
<1>2. ASSUME NEW w \in Writers, Write(w)
      PROVE  short = 0 /\ (text'[i] = text[i] \/ \E v \in Values : text'[i] = Over(v, text[i]))
  BY <1>2 DEF Write
<1>3. ASSUME NEW w \in Writers, Open(w)
      PROVE  short = 0 /\ (text'[i] = text[i] \/ text'[i] = <<>>)
  BY <1>3 DEF Open
<1>4. ASSUME NEW w \in Writers,
             Call(w) \/ Fsync(w) \/ Rename(w) \/ OpenFails(w) \/ SyncFails(w) \/ Unlink(w) \/ Crash(w)
      PROVE  short = 0 /\ text' = text
  BY <1>4 DEF Call, Fsync, Rename, OpenFails, SyncFails, Unlink, Crash
<1>5. CASE UNCHANGED vars
  BY <1>5 DEF vars
<1> QED
  BY <1>1, <1>2, <1>3, <1>4, <1>5 DEF Next

\* Every step keeps BeginInv.
LEMMA BeginStep == BeginInv /\ [Next]_vars => BeginInv'
<1> SUFFICES ASSUME BeginInv, [Next]_vars PROVE BeginInv'
  OBVIOUS
<1>1. TextTypes'
  BY TextTypesStep DEF BeginInv
<1>2. ASSUME short' = 0, NEW i \in Inodes PROVE Begins(text'[i])
  <2>1. short = 0 /\ Begins(text[i])
    BY <1>2, TextStep DEF BeginInv
  <2>2. ASSUME NEW v \in Values, text'[i] = Over(v, text[i]) PROVE Begins(text'[i])
    <3>1. IsPrefix(v, Over(v, text[i]))
      BY FileAssumption, OverBegins DEF BeginInv, TextTypes
    <3> QED
      BY <2>2, <3>1 DEF Begins
  <2> QED
    BY <1>2, <2>1, <2>2, TextStep DEF BeginInv, Begins
<1> QED
  BY <1>1, <1>2 DEF BeginInv

\* Whether the lock is held or not, and for any number of writers that share the
\* temporary file, a reader of the state and status files finds nothing or a
\* whole text at the beginning, unless a write was short
\* (ulcr_atomic_write_text_file called without a lock).
THEOREM BeginsWhole == Spec => []WholeTextFirst
<1>1. Init => BeginInv
  <2> SUFFICES ASSUME Init PROVE BeginInv
    OBVIOUS
  <2>1. TextTypes
    BY DEF Init, TextTypes
  <2> QED
    BY <2>1 DEF Init, BeginInv, Begins
<1>2. BeginInv => WholeTextFirst
  BY DEF BeginInv, TextTypes, Begins, WholeTextFirst
<1> QED
  BY <1>1, <1>2, BeginStep, PTL DEF Spec

-----------------------------------------------------------------------------
(***************************************************************************)
(* The bound on the inodes.                                                *)
(***************************************************************************)

\* A writer has nothing open before its open, and what it has open is an inode.
OpenInv ==
    /\ pc \in [Writers -> {"idle", "open", "write", "fsync", "rename", "unlink"}]
    /\ fd \in [Writers -> Inodes \cup {Null}]
    /\ tmp \in Inodes \cup {Null}
    /\ \A w \in Writers : pc[w] \in {"idle", "open"} => fd[w] = Null

\* Whoever creates the temporary file finds an inode nobody uses.
InodesSuffice == \A w \in Writers : (pc[w] = "open" /\ tmp = Null) => Unused # {}

\* Every step keeps OpenInv.
LEMMA OpenInvStep ==
    ASSUME OpenInv, [Next]_vars
    PROVE  OpenInv'
<1> USE DEF OpenInv
<1>1. ASSUME NEW w \in Writers, Call(w) PROVE OpenInv'
  BY <1>1 DEF Call, MayCall, Goto
<1>2. ASSUME NEW w \in Writers, Open(w) PROVE OpenInv'
  <2>1. PICK i \in Inodes : tmp' = i /\ fd' = [fd EXCEPT ![w] = i]
    BY <1>2 DEF Open, NewInode, Unused
  <2>2. pc' = [pc EXCEPT ![w] = "write"]
    BY <1>2 DEF Open, Goto
  <2> QED
    BY <2>1, <2>2
<1>3. ASSUME NEW w \in Writers, Write(w) \/ Fsync(w) PROVE OpenInv'
  BY <1>3 DEF Write, Fsync, Goto
<1>4. ASSUME NEW w \in Writers, Rename(w) \/ OpenFails(w) \/ Unlink(w) \/ Crash(w) PROVE OpenInv'
  BY <1>4 DEF Rename, OpenFails, Unlink, Crash, Return, Goto
<1>5. ASSUME NEW w \in Writers, WriteFails(w) \/ SyncFails(w) PROVE OpenInv'
  BY <1>5 DEF WriteFails, PartWritten, SyncFails, Close, Goto
<1>6. CASE UNCHANGED vars
  BY <1>6 DEF vars, writerVars
<1> QED
  BY <1>1, <1>2, <1>3, <1>4, <1>5, <1>6 DEF Next

\* The published file and those the other writers have open are fewer than the
\* inodes.
LEMMA SomeUnused ==
    ASSUME OpenInv, NEW w \in Writers, pc[w] = "open", tmp = Null
    PROVE  Unused # {}
<1> DEFINE Others == Writers \ {w}
           Taken  == {fd[v] : v \in Others}
           held   == [v \in Others |-> fd[v]]
<1>1. IsFiniteSet(Writers) /\ Cardinality(Writers) \in Nat
  BY FileAssumption, FS_CardinalityType
<1>2. IsFiniteSet(Others) /\ Cardinality(Others) = Cardinality(Writers) - 1
  BY <1>1, FS_RemoveElement
<1>3. held \in Surjection(Others, Taken)
  BY DEF Surjection
<1>4. IsFiniteSet(Taken) /\ Cardinality(Taken) <= Cardinality(Others)
  BY <1>2, <1>3, FS_Surjection
<1>5. IsFiniteSet(Taken \cup {file}) /\ Cardinality(Taken \cup {file}) <= Cardinality(Writers)
  <2> HIDE DEF Taken
  <2>1. Cardinality(Taken) \in Nat
    BY <1>4, FS_CardinalityType
  <2>2. IsFiniteSet(Taken \cup {file}) /\ Cardinality(Taken \cup {file}) <= Cardinality(Taken) + 1
    <3>1. ASSUME NEW S, IsFiniteSet(S)
          PROVE  IsFiniteSet(S \cup {file}) /\ Cardinality(S \cup {file}) \in {Cardinality(S), Cardinality(S) + 1}
      BY <3>1, FS_AddElement
    <3> QED
      BY <1>4, <2>1, <3>1
  <2>3. Cardinality(Taken \cup {file}) \in Nat
    BY <2>2, FS_CardinalityType
  <2> QED
    BY <1>1, <1>2, <1>4, <2>1, <2>2, <2>3
<1>6. Cardinality(Inodes) = Cardinality(Writers) + 2 /\ IsFiniteSet(Inodes)
  BY <1>1, FS_Interval DEF Inodes
<1>7. ASSUME Inodes \subseteq Taken \cup {file} PROVE FALSE
  <2> HIDE DEF Taken
  <2>1. Cardinality(Inodes) <= Cardinality(Taken \cup {file})
    BY <1>5, <1>7, FS_Subset
  <2>2. Cardinality(Taken \cup {file}) \in Nat
    BY <1>5, FS_CardinalityType
  <2> QED
    BY <1>1, <1>5, <1>6, <2>1, <2>2
<1>8. PICK i \in Inodes : i # file /\ i \notin Taken
  BY <1>7
<1>9. i # Null /\ fd[w] = Null
  BY InodeNotNull DEF OpenInv
<1>10. \A v \in Writers : fd[v] # i
  BY <1>8, <1>9
<1> QED
  BY <1>8, <1>9, <1>10 DEF Unused

\* The bound on the inodes excludes nothing: an open that has to create the
\* temporary file always can, however many writers have been killed or have the
\* file that was renamed still open.
THEOREM EnoughInodes == Spec => []InodesSuffice
<1>1. Init => OpenInv
  BY DEF Init, OpenInv
<1>2. OpenInv => InodesSuffice
  BY SomeUnused DEF InodesSuffice
<1> QED
  BY <1>1, <1>2, OpenInvStep, PTL DEF Spec

=============================================================================
