-------------------------- MODULE ConfigurationProofs --------------------------
(***************************************************************************)
(* For any file of any length, any texts and numbers in it and any limit   *)
(* on paths: no field outgrows its array, an accepted configuration is     *)
(* what its last lines say, and where the names of the files fit they      *)
(* differ.                                                                 *)
(***************************************************************************)
EXTENDS Configuration, SequenceTheorems, TLAPS

-----------------------------------------------------------------------------
(***************************************************************************)
(* Paths: what joining makes of them.                                      *)
(***************************************************************************)

Names ==
    {"/", ".tmp", "checkpoints", "processes", "process", "slot_", "A", "B",
     "snapshot.bin", "manifest.txt", "active.meta", "checkpoint.lock",
     "p", "id", "rocess.log", "status.txt"}

Part == Names \X Nat
Path == [length : 0 .. ULCR_MAX_PATH - 1, parts : Seq(Part)]

\* A text at the beginning of a path, cut off like a field.
LEMMA RootIsPath ==
    ASSUME NEW length \in 0 .. ULCR_MAX_PATH - 1
    PROVE  Root(length) \in Path /\ Root(length).length = length /\ Root(length).parts = <<>>
BY DEF Root, Path

\* Whatever is joined, the result fits its array.
LEMMA JoinIsPath ==
    ASSUME NEW path \in Path, NEW part \in Names, NEW length \in Nat
    PROVE  Join(path, part, length) \in Path
<1> DEFINE room == ULCR_MAX_PATH - 1 - path.length
           kept == IF length < room THEN length ELSE room
<1>1. path.length \in 0 .. ULCR_MAX_PATH - 1 /\ path.parts \in Seq(Part)
  BY DEF Path
<1>2. room \in Nat /\ kept \in Nat /\ kept <= room
  BY <1>1, ConfigurationAssumption
<1>3. <<part, kept>> \in Part
  BY <1>2 DEF Part
<1>4. Append(path.parts, <<part, kept>>) \in Seq(Part)
  BY <1>1, <1>3
<1>5. path.length + kept \in 0 .. ULCR_MAX_PATH - 1
  BY <1>1, <1>2, ConfigurationAssumption
<1>6. Join(path, part, length) \in
        {path, [length |-> path.length + kept, parts |-> Append(path.parts, <<part, kept>>)]}
  BY DEF Join
<1>7. [length |-> path.length + kept, parts |-> Append(path.parts, <<part, kept>>)] \in Path
  BY <1>4, <1>5 DEF Path
<1> QED
  BY <1>6, <1>7

\* A path q made of another by some more parts, the last of them a name.
Longer(q, path, more, length, name) ==
    /\ q.length = IF path.length + length < ULCR_MAX_PATH
                  THEN path.length + length ELSE ULCR_MAX_PATH - 1
    /\ Len(q.parts) = Len(path.parts) + more
    /\ \A i \in 1 .. Len(path.parts) : q.parts[i] = path.parts[i]
    /\ q.parts[Len(path.parts) + more][1] = name

\* Where there is room for one character the part is there, perhaps cut off, and
\* what was there before it has not changed.
LEMMA JoinWithRoom ==
    ASSUME NEW path \in Path, NEW part \in Names, NEW length \in Nat \ {0},
           path.length < ULCR_MAX_PATH - 1
    PROVE  Longer(Join(path, part, length), path, 1, length, part)
<1> DEFINE room == ULCR_MAX_PATH - 1 - path.length
           kept == IF length < room THEN length ELSE room
<1>1. path.length \in 0 .. ULCR_MAX_PATH - 1 /\ path.parts \in Seq(Part)
  BY DEF Path
<1>2. room \in Nat \ {0} /\ kept \in Nat \ {0}
  BY <1>1, ConfigurationAssumption
<1>3. <<part, kept>> \in Part
  BY <1>2 DEF Part
<1>4. Join(path, part, length) =
        [length |-> path.length + kept, parts |-> Append(path.parts, <<part, kept>>)]
  BY <1>2 DEF Join
<1>5. path.length + kept = IF path.length + length < ULCR_MAX_PATH
                           THEN path.length + length ELSE ULCR_MAX_PATH - 1
  BY <1>1, ConfigurationAssumption
<1> HIDE DEF kept
<1>6. LET t == Append(path.parts, <<part, kept>>) IN
      /\ Len(t) = Len(path.parts) + 1
      /\ \A i \in 1 .. Len(path.parts) : t[i] = path.parts[i]
      /\ t[Len(path.parts) + 1] = <<part, kept>>
  BY <1>1, <1>3
<1> QED
  BY <1>4, <1>5, <1>6 DEF Longer

\* No join makes a path shorter.
LEMMA JoinGrows ==
    ASSUME NEW path \in Path, NEW part \in Names, NEW length \in Nat
    PROVE  Join(path, part, length).length >= path.length
BY ConfigurationAssumption DEF Join, Path

\* The same of ulcr_path_join with "/".
LEMMA UnderIsPath ==
    ASSUME NEW path \in Path, NEW name \in Names, NEW length \in Nat
    PROVE  /\ Under(path, name, length) \in Path
           /\ Under(path, name, length).length >= path.length
<1>1. Join(path, "/", 1) \in Path /\ Join(path, "/", 1).length >= path.length
  BY JoinIsPath, JoinGrows DEF Names
<1>2. /\ Join(Join(path, "/", 1), name, length) \in Path
      /\ Join(Join(path, "/", 1), name, length).length >= Join(path, "/", 1).length
  BY <1>1, JoinIsPath, JoinGrows
<1> QED
  BY <1>1, <1>2 DEF Under, Path

LEMMA UnderWithRoom ==
    ASSUME NEW path \in Path, NEW name \in Names, NEW length \in Nat \ {0},
           path.length + 1 < ULCR_MAX_PATH - 1
    PROVE  Longer(Under(path, name, length), path, 2, length + 1, name)
<1> DEFINE p == Join(path, "/", 1)
           q == Join(p, name, length)
<1>1. /\ path.length \in Nat /\ Len(path.parts) \in Nat
      /\ path.length < ULCR_MAX_PATH - 1
      /\ "/" \in Names
  BY ConfigurationAssumption DEF Path, Names
<1>2. /\ p.length = IF path.length + 1 < ULCR_MAX_PATH THEN path.length + 1 ELSE ULCR_MAX_PATH - 1
      /\ Len(p.parts) = Len(path.parts) + 1
      /\ \A i \in 1 .. Len(path.parts) : p.parts[i] = path.parts[i]
  <2> HIDE DEF q
  <2> QED
    BY <1>1, JoinWithRoom DEF Longer
<1>3. p \in Path /\ p.length = path.length + 1 /\ p.length < ULCR_MAX_PATH - 1
  BY <1>1, <1>2, JoinIsPath, ConfigurationAssumption
<1> HIDE DEF p
<1>5. /\ q.length = IF p.length + length < ULCR_MAX_PATH THEN p.length + length ELSE ULCR_MAX_PATH - 1
      /\ Len(q.parts) = Len(p.parts) + 1
      /\ \A i \in 1 .. Len(p.parts) : q.parts[i] = p.parts[i]
      /\ q.parts[Len(p.parts) + 1][1] = name
  BY <1>3, JoinWithRoom DEF Longer
<1>6. Under(path, name, length) = q
  BY DEF Under, p
<1> HIDE DEF q
<1>7. q.length = IF path.length + (length + 1) < ULCR_MAX_PATH
                 THEN path.length + (length + 1) ELSE ULCR_MAX_PATH - 1
  <2>1. p.length + length = path.length + (length + 1)
    BY <1>1, <1>3
  <2> QED
    BY <1>5, <2>1
<1>8. /\ Len(q.parts) = Len(path.parts) + 2
      /\ \A i \in 1 .. Len(path.parts) : q.parts[i] = path.parts[i]
      /\ q.parts[Len(path.parts) + 2][1] = name
  BY <1>1, <1>2, <1>5
<1> QED
  BY <1>6, <1>7, <1>8 DEF Longer

-----------------------------------------------------------------------------
(***************************************************************************)
(* The names of the files.                                                 *)
(***************************************************************************)

\* What the fields of a configuration that was read hold at least.
Readable(c) ==
    /\ c.runtime_root \in 0 .. ULCR_MAX_PATH - 1
    /\ c.process_name \in Nat

\* The directories.
LEMMA DirectoriesArePaths ==
    ASSUME NEW c, Readable(c)
    PROVE  /\ CheckpointsDir(c) \in Path /\ ProcessDir(c) \in Path
           /\ CheckpointsDir(c).length >= Under(Root(c.runtime_root), "checkpoints", 11).length
<1>1. Root(c.runtime_root) \in Path
  BY RootIsPath DEF Readable
<1>2. /\ Under(Root(c.runtime_root), "checkpoints", 11) \in Path
      /\ Under(Root(c.runtime_root), "processes", 9) \in Path
  BY <1>1, UnderIsPath DEF Names
<1> QED
  BY <1>2, UnderIsPath DEF CheckpointsDir, ProcessDir, Readable, Names

\* All names fit their arrays.
LEMMA NamesArePaths ==
    ASSUME NEW c, Readable(c)
    PROVE  StorePaths(c) \o ProcessPaths(c) \in Seq(Path)
<1>1. CheckpointsDir(c) \in Path /\ ProcessDir(c) \in Path
  BY DirectoriesArePaths
<1>2. ASSUME NEW slot \in {"A", "B"}
      PROVE  SlotPaths(c, slot) \in Seq(Path) /\ Len(SlotPaths(c, slot)) = 4
  <2> DEFINE snapshot == Under(SlotDir(c, slot), "snapshot.bin", 12)
             manifest == Under(SlotDir(c, slot), "manifest.txt", 12)
  <2>1. SlotDir(c, slot) \in Path
    BY <1>1, UnderIsPath, JoinIsPath DEF SlotDir, Names
  <2>2. snapshot \in Path /\ manifest \in Path
    BY <2>1, UnderIsPath DEF Names
  <2>3. Temporary(snapshot) \in Path /\ Temporary(manifest) \in Path
    BY <2>2, JoinIsPath DEF Temporary, Names
  <2>4. SlotPaths(c, slot) = <<snapshot, Temporary(snapshot), manifest, Temporary(manifest)>>
    BY DEF SlotPaths
  <2> HIDE DEF snapshot, manifest
  <2> QED
    BY <2>2, <2>3, <2>4
<1> DEFINE meta == Under(CheckpointsDir(c), "active.meta", 11)
           lock == Under(CheckpointsDir(c), "checkpoint.lock", 15)
           p    == Under(ProcessDir(c), "p", 1)
           status == Under(ProcessDir(c), "status.txt", 10)
<1>3. meta \in Path /\ lock \in Path /\ p \in Path /\ status \in Path
  BY <1>1, UnderIsPath DEF Names
<1>4. Join(p, "id", 2) \in Path /\ Join(p, "rocess.log", 10) \in Path
  BY <1>3, JoinIsPath DEF Names
<1>5. <<meta, lock>> \in Seq(Path) /\ <<Join(p, "id", 2), Join(p, "rocess.log", 10), status>> \in Seq(Path)
  <2> HIDE DEF meta, lock, p, status
  <2> QED
    BY <1>3, <1>4
<1>6. StorePaths(c) \in Seq(Path)
  <2>1. SlotPaths(c, "A") \o SlotPaths(c, "B") \in Seq(Path)
    BY <1>2, ConcatProperties
  <2> QED
    BY <1>5, <2>1, ConcatProperties DEF StorePaths
<1>7. ProcessPaths(c) \in Seq(Path)
  BY <1>5 DEF ProcessPaths
<1> QED
  BY <1>6, <1>7, ConcatProperties

\* With a process name and room for 21 characters more nothing is cut off: the
\* directories are four parts long.
Roomy(c) ==
    /\ Readable(c)
    /\ c.process_name > 0
    /\ CheckpointsDir(c).length + 21 < ULCR_MAX_PATH

LEMMA DirectoriesWithRoom ==
    ASSUME NEW c, Roomy(c)
    PROVE  /\ CheckpointsDir(c) \in Path /\ Len(CheckpointsDir(c).parts) = 4
           /\ ProcessDir(c) \in Path /\ Len(ProcessDir(c).parts) = 4
           /\ ProcessDir(c).length + 21 < ULCR_MAX_PATH
<1> DEFINE root == Root(c.runtime_root)
           upper == Under(root, "checkpoints", 11)
           other == Under(root, "processes", 9)
           limit == ULCR_MAX_PATH - 22
<1>1. /\ Readable(c) /\ c.process_name \in Nat \ {0}
      /\ "checkpoints" \in Names /\ "processes" \in Names /\ "process" \in Names
      /\ limit \in Nat
  BY ConfigurationAssumption DEF Roomy, Readable, Names
<1>2. CheckpointsDir(c) \in Path /\ CheckpointsDir(c).length <= limit
  BY <1>1, DirectoriesArePaths, ConfigurationAssumption DEF Roomy, Path
<1>3. root \in Path /\ root.parts = <<>>
  BY <1>1, RootIsPath DEF Readable
<1>4. CheckpointsDir(c) = Under(upper, "process", c.process_name) /\ ProcessDir(c) = Under(other, "process", c.process_name)
  BY DEF CheckpointsDir, ProcessDir
<1> HIDE DEF root
<1>5. /\ upper \in Path /\ upper.length >= root.length /\ upper.length <= CheckpointsDir(c).length
      /\ other \in Path
  BY <1>1, <1>3, <1>4, UnderIsPath
<1>15. /\ root.length \in Nat /\ upper.length \in Nat /\ other.length \in Nat
       /\ CheckpointsDir(c).length \in Nat /\ ULCR_MAX_PATH \in Nat
  BY <1>2, <1>3, <1>5, ConfigurationAssumption DEF Path
<1>6. root.length <= limit /\ upper.length <= limit
  <2> HIDE DEF upper
  <2> QED
    BY <1>2, <1>5, <1>15
<1>7. root.length + 1 < ULCR_MAX_PATH - 1 /\ 11 \in Nat \ {0} /\ 9 \in Nat \ {0}
  BY <1>6, <1>15
<1>8. Longer(upper, root, 2, 11 + 1, "checkpoints")
  BY <1>1, <1>3, <1>7, UnderWithRoom
<1>9. Longer(other, root, 2, 9 + 1, "processes")
  BY <1>1, <1>3, <1>7, UnderWithRoom
<1> HIDE DEF upper, other
<1>10. upper.length = root.length + 12 /\ other.length = root.length + 10
  BY <1>6, <1>8, <1>9, <1>15 DEF Longer
<1>11. Longer(CheckpointsDir(c), upper, 2, c.process_name + 1, "process")
  <2>1. upper.length + 1 < ULCR_MAX_PATH - 1
    BY <1>6, <1>10, <1>15
  <2> QED
    BY <1>1, <1>4, <1>5, <2>1, UnderWithRoom
<1>12. ProcessDir(c) \in Path /\ Longer(ProcessDir(c), other, 2, c.process_name + 1, "process")
  <2>1. other.length + 1 < ULCR_MAX_PATH - 1
    BY <1>6, <1>10, <1>15
  <2> QED
    BY <1>1, <1>4, <1>5, <2>1, UnderWithRoom, UnderIsPath
<1>13. ProcessDir(c).length + 21 < ULCR_MAX_PATH
  <2>1. CheckpointsDir(c).length = IF upper.length + (c.process_name + 1) < ULCR_MAX_PATH
                                   THEN upper.length + (c.process_name + 1) ELSE ULCR_MAX_PATH - 1
    BY <1>11 DEF Longer
  <2>2. ProcessDir(c).length = IF other.length + (c.process_name + 1) < ULCR_MAX_PATH
                               THEN other.length + (c.process_name + 1) ELSE ULCR_MAX_PATH - 1
    BY <1>12 DEF Longer
  <2>3. upper.length + (c.process_name + 1) <= limit
    BY <1>1, <1>2, <1>15, <2>1
  <2>4. ProcessDir(c).length = other.length + (c.process_name + 1)
    BY <1>1, <1>10, <1>15, <2>2, <2>3
  <2> QED
    BY <1>1, <1>10, <1>15, <2>3, <2>4
<1>14. Len(root.parts) = 0
  BY <1>3
<1> QED
  BY <1>2, <1>8, <1>9, <1>11, <1>12, <1>13, <1>14 DEF Longer

\* A file of a slot has the slot's letter as its seventh part, its own name as
\* its ninth, and a tenth part when it is temporary.
LEMMA SlotNames ==
    ASSUME NEW c, Roomy(c), NEW slot \in {"A", "B"}
    PROVE  LET s == SlotPaths(c, slot) IN
           /\ s \in Seq(Path) /\ Len(s) = 4
           /\ Len(s[1].parts) = 9 /\ Len(s[2].parts) = 10 /\ Len(s[3].parts) = 9 /\ Len(s[4].parts) = 10
           /\ \A i \in 1 .. 4 : s[i].parts[7][1] = slot
           /\ s[1].parts[9][1] = "snapshot.bin" /\ s[2].parts[9][1] = "snapshot.bin"
           /\ s[3].parts[9][1] = "manifest.txt" /\ s[4].parts[9][1] = "manifest.txt"
<1> DEFINE top == CheckpointsDir(c)
           base == Under(top, "slot_", 5)
           dir == Join(base, slot, 1)
<1>1. /\ top \in Path /\ Len(top.parts) = 4 /\ top.length + 21 < ULCR_MAX_PATH
      /\ "slot_" \in Names /\ slot \in Names /\ ".tmp" \in Names
      /\ "snapshot.bin" \in Names /\ "manifest.txt" \in Names
      /\ 1 \in Nat \ {0} /\ 4 \in Nat \ {0} /\ 5 \in Nat \ {0} /\ 12 \in Nat \ {0}
      /\ top.length \in Nat /\ ULCR_MAX_PATH \in Nat
  BY DirectoriesWithRoom, ConfigurationAssumption DEF Roomy, Names, Path
<1>2. SlotDir(c, slot) = dir
  BY DEF SlotDir
<1> HIDE DEF top
<1>3. base \in Path /\ base.length = top.length + 6 /\ Len(base.parts) = 6
  <2>1. top.length + 1 < ULCR_MAX_PATH - 1
    BY <1>1
  <2>2. Longer(base, top, 2, 5 + 1, "slot_")
    BY <1>1, <2>1, UnderWithRoom
  <2>3. base \in Path
    BY <1>1, UnderIsPath
  <2> QED
    BY <1>1, <2>2, <2>3 DEF Longer
<1> HIDE DEF base
<1>4. /\ dir \in Path /\ dir.length = top.length + 7 /\ Len(dir.parts) = 7
      /\ dir.parts[7][1] = slot
  <2>1. base.length < ULCR_MAX_PATH - 1
    BY <1>1, <1>3
  <2>2. Longer(dir, base, 1, 1, slot)
    BY <1>1, <1>3, <2>1, JoinWithRoom
  <2>3. dir \in Path
    BY <1>1, <1>3, JoinIsPath
  <2> QED
    BY <1>1, <1>3, <2>2, <2>3 DEF Longer
<1> HIDE DEF dir
<1>5. ASSUME NEW name \in {"snapshot.bin", "manifest.txt"}
      PROVE  LET q == Under(dir, name, 12) IN
             /\ q \in Path /\ q.length < ULCR_MAX_PATH - 1 /\ Len(q.parts) = 9
             /\ q.parts[7][1] = slot /\ q.parts[9][1] = name
  <2>1. dir.length + 1 < ULCR_MAX_PATH - 1 /\ name \in Names
    BY <1>1, <1>4
  <2>2. Longer(Under(dir, name, 12), dir, 2, 12 + 1, name)
    BY <1>1, <1>4, <2>1, UnderWithRoom
  <2>3. Under(dir, name, 12) \in Path
    BY <1>1, <1>4, <2>1, UnderIsPath
  <2> QED
    BY <1>1, <1>4, <2>2, <2>3 DEF Longer
<1>6. ASSUME NEW q \in Path, q.length < ULCR_MAX_PATH - 1, Len(q.parts) = 9
      PROVE  LET t == Temporary(q) IN
             /\ t \in Path /\ Len(t.parts) = 10
             /\ t.parts[7] = q.parts[7] /\ t.parts[9] = q.parts[9]
  <2>1. Temporary(q) \in Path /\ Longer(Temporary(q), q, 1, 4, ".tmp")
    BY <1>1, <1>6, JoinWithRoom, JoinIsPath DEF Temporary
  <2> QED
    BY <1>6, <2>1 DEF Longer
<1> DEFINE snapshot == Under(dir, "snapshot.bin", 12)
           manifest == Under(dir, "manifest.txt", 12)
<1>7. SlotPaths(c, slot) = <<snapshot, Temporary(snapshot), manifest, Temporary(manifest)>>
  BY <1>2 DEF SlotPaths
<1>8. /\ snapshot \in Path /\ snapshot.length < ULCR_MAX_PATH - 1 /\ Len(snapshot.parts) = 9
      /\ snapshot.parts[7][1] = slot /\ snapshot.parts[9][1] = "snapshot.bin"
  BY <1>5
<1>9. /\ manifest \in Path /\ manifest.length < ULCR_MAX_PATH - 1 /\ Len(manifest.parts) = 9
      /\ manifest.parts[7][1] = slot /\ manifest.parts[9][1] = "manifest.txt"
  BY <1>5
<1> HIDE DEF snapshot, manifest
<1>10. /\ Temporary(snapshot) \in Path /\ Len(Temporary(snapshot).parts) = 10
       /\ Temporary(snapshot).parts[7] = snapshot.parts[7] /\ Temporary(snapshot).parts[9] = snapshot.parts[9]
  BY <1>6, <1>8
<1>11. /\ Temporary(manifest) \in Path /\ Len(Temporary(manifest).parts) = 10
       /\ Temporary(manifest).parts[7] = manifest.parts[7] /\ Temporary(manifest).parts[9] = manifest.parts[9]
  BY <1>6, <1>9
<1> QED
  BY <1>7, <1>8, <1>9, <1>10, <1>11

\* A file directly in one of the directories has its name as its sixth part.
LEMMA FileUnder ==
    ASSUME NEW dir \in Path, Len(dir.parts) = 4, dir.length + 21 < ULCR_MAX_PATH,
           NEW name \in Names, NEW length \in 1 .. 15
    PROVE  LET q == Under(dir, name, length) IN
           q \in Path /\ q.length < ULCR_MAX_PATH - 1 /\ Len(q.parts) = 6 /\ q.parts[6][1] = name
<1>1. dir.length \in Nat /\ ULCR_MAX_PATH \in Nat
  BY ConfigurationAssumption DEF Path
<1>2. dir.length + 1 < ULCR_MAX_PATH - 1 /\ length \in Nat \ {0}
  BY <1>1
<1>3. Under(dir, name, length) \in Path /\ Longer(Under(dir, name, length), dir, 2, length + 1, name)
  BY <1>2, UnderIsPath, UnderWithRoom
<1> QED
  BY <1>1, <1>3 DEF Longer

\* pid and process.log have a seventh part, status.txt has not.
LEMMA ProcessNames ==
    ASSUME NEW c, Roomy(c)
    PROVE  LET s == ProcessPaths(c) IN
           /\ s \in Seq(Path) /\ Len(s) = 3
           /\ Len(s[1].parts) = 7 /\ s[1].parts[7][1] = "id"
           /\ Len(s[2].parts) = 7 /\ s[2].parts[7][1] = "rocess.log"
           /\ Len(s[3].parts) = 6 /\ s[3].parts[6][1] = "status.txt"
<1> DEFINE dir == ProcessDir(c)
           p == Under(dir, "p", 1)
           status == Under(dir, "status.txt", 10)
           pid == Join(p, "id", 2)
           log == Join(p, "rocess.log", 10)
<1>1. /\ dir \in Path /\ Len(dir.parts) = 4 /\ dir.length + 21 < ULCR_MAX_PATH
  BY DirectoriesWithRoom
<1>2. /\ "p" \in Names /\ "status.txt" \in Names /\ "id" \in Names /\ "rocess.log" \in Names
      /\ 1 \in 1 .. 15 /\ 10 \in 1 .. 15 /\ 2 \in Nat \ {0} /\ 10 \in Nat \ {0}
  BY DEF Names
<1>3. ProcessPaths(c) = <<pid, log, status>>
  BY DEF ProcessPaths
<1> HIDE DEF dir
<1>4. p \in Path /\ p.length < ULCR_MAX_PATH - 1 /\ Len(p.parts) = 6
  BY <1>1, <1>2, FileUnder
<1>5. status \in Path /\ Len(status.parts) = 6 /\ status.parts[6][1] = "status.txt"
  BY <1>1, <1>2, FileUnder
<1> HIDE DEF p, status
<1>6. pid \in Path /\ Longer(pid, p, 1, 2, "id")
  BY <1>2, <1>4, JoinIsPath, JoinWithRoom
<1>7. log \in Path /\ Longer(log, p, 1, 10, "rocess.log")
  BY <1>2, <1>4, JoinIsPath, JoinWithRoom
<1> HIDE DEF pid, log
<1>8. Len(pid.parts) = 7 /\ pid.parts[7][1] = "id" /\ Len(log.parts) = 7 /\ log.parts[7][1] = "rocess.log"
  BY <1>4, <1>6, <1>7 DEF Longer
<1> QED
  BY <1>3, <1>5, <1>6, <1>7, <1>8

\* One list of paths after another.
LEMMA ConcatPaths ==
    ASSUME NEW s \in Seq(Path), NEW t \in Seq(Path)
    PROVE  /\ s \o t \in Seq(Path) /\ Len(s \o t) = Len(s) + Len(t)
           /\ \A i \in 1 .. Len(s) : (s \o t)[i] = s[i]
           /\ \A i \in 1 .. Len(t) : (s \o t)[Len(s) + i] = t[i]
<1>1. Len(s) \in Nat /\ Len(t) \in Nat
  BY LenProperties
<1>2. /\ s \o t \in Seq(Path) /\ Len(s \o t) = Len(s) + Len(t)
      /\ \A i \in 1 .. Len(s) + Len(t) : (s \o t)[i] = IF i <= Len(s) THEN s[i] ELSE t[i - Len(s)]
  BY ConcatProperties
<1> DEFINE u == s \o t
<1> HIDE DEF u
<1>3. ASSUME NEW i \in 1 .. Len(s) PROVE u[i] = s[i]
  BY <1>1, <1>2 DEF u
<1>4. ASSUME NEW i \in 1 .. Len(t) PROVE u[Len(s) + i] = t[i]
  <2>1. Len(s) + i \in 1 .. Len(s) + Len(t) /\ ~(Len(s) + i <= Len(s)) /\ (Len(s) + i) - Len(s) = i
    BY <1>1
  <2> QED
    BY <1>2, <2>1 DEF u
<1> QED
  BY <1>2, <1>3, <1>4 DEF u

\* Where nothing is cut off no two of the files share a name.
LEMMA RoomyDistinct ==
    ASSUME NEW c, Roomy(c)
    PROVE  LET s == StorePaths(c) \o ProcessPaths(c) IN
           \A i, j \in DOMAIN s : s[i] = s[j] => i = j
<1> DEFINE a == SlotPaths(c, "A")
           b == SlotPaths(c, "B")
           top == CheckpointsDir(c)
           meta == Under(top, "active.meta", 11)
           lock == Under(top, "checkpoint.lock", 15)
           m == <<meta, lock>>
           p == ProcessPaths(c)
           s == StorePaths(c) \o ProcessPaths(c)
<1>1. /\ a \in Seq(Path) /\ Len(a) = 4
      /\ Len(a[1].parts) = 9 /\ Len(a[2].parts) = 10 /\ Len(a[3].parts) = 9 /\ Len(a[4].parts) = 10
      /\ \A i \in 1 .. 4 : a[i].parts[7][1] = "A"
      /\ a[1].parts[9][1] = "snapshot.bin" /\ a[2].parts[9][1] = "snapshot.bin"
      /\ a[3].parts[9][1] = "manifest.txt" /\ a[4].parts[9][1] = "manifest.txt"
  BY SlotNames
<1>2. /\ b \in Seq(Path) /\ Len(b) = 4
      /\ Len(b[1].parts) = 9 /\ Len(b[2].parts) = 10 /\ Len(b[3].parts) = 9 /\ Len(b[4].parts) = 10
      /\ \A i \in 1 .. 4 : b[i].parts[7][1] = "B"
      /\ b[1].parts[9][1] = "snapshot.bin" /\ b[2].parts[9][1] = "snapshot.bin"
      /\ b[3].parts[9][1] = "manifest.txt" /\ b[4].parts[9][1] = "manifest.txt"
  BY SlotNames
<1>3. /\ meta \in Path /\ Len(meta.parts) = 6 /\ meta.parts[6][1] = "active.meta"
      /\ lock \in Path /\ Len(lock.parts) = 6 /\ lock.parts[6][1] = "checkpoint.lock"
  <2>1. top \in Path /\ Len(top.parts) = 4 /\ top.length + 21 < ULCR_MAX_PATH
    BY DirectoriesWithRoom DEF Roomy
  <2>2. "active.meta" \in Names /\ "checkpoint.lock" \in Names /\ 11 \in 1 .. 15 /\ 15 \in 1 .. 15
    BY DEF Names
  <2> HIDE DEF top
  <2>3. meta \in Path /\ Len(meta.parts) = 6 /\ meta.parts[6][1] = "active.meta"
    BY <2>1, <2>2, FileUnder
  <2>4. lock \in Path /\ Len(lock.parts) = 6 /\ lock.parts[6][1] = "checkpoint.lock"
    BY <2>1, <2>2, FileUnder
  <2> QED
    BY <2>3, <2>4
<1>4. /\ p \in Seq(Path) /\ Len(p) = 3
      /\ Len(p[1].parts) = 7 /\ p[1].parts[7][1] = "id"
      /\ Len(p[2].parts) = 7 /\ p[2].parts[7][1] = "rocess.log"
      /\ Len(p[3].parts) = 6 /\ p[3].parts[6][1] = "status.txt"
  BY ProcessNames
<1>5. s = ((a \o b) \o m) \o p
  BY DEF StorePaths
<1> HIDE DEF a, b, meta, lock, p, s
<1>6. m \in Seq(Path) /\ Len(m) = 2 /\ m[1] = meta /\ m[2] = lock
  BY <1>3
<1> HIDE DEF m
<1> DEFINE ab == a \o b
           abm == ab \o m
<1>7. /\ ab \in Seq(Path) /\ Len(ab) = 8
      /\ \A i \in 1 .. 4 : ab[i] = a[i] /\ ab[4 + i] = b[i]
  <2>1. /\ ab \in Seq(Path) /\ Len(ab) = Len(a) + Len(b)
        /\ \A i \in 1 .. Len(a) : ab[i] = a[i]
        /\ \A i \in 1 .. Len(b) : ab[Len(a) + i] = b[i]
    BY <1>1, <1>2, ConcatPaths
  <2> HIDE DEF ab
  <2> QED
    BY <1>1, <1>2, <2>1
<1> HIDE DEF ab
<1>8. /\ abm \in Seq(Path) /\ Len(abm) = 10
      /\ \A i \in 1 .. 8 : abm[i] = ab[i]
      /\ \A i \in 1 .. 2 : abm[8 + i] = m[i]
  <2>1. /\ abm \in Seq(Path) /\ Len(abm) = Len(ab) + Len(m)
        /\ \A i \in 1 .. Len(ab) : abm[i] = ab[i]
        /\ \A i \in 1 .. Len(m) : abm[Len(ab) + i] = m[i]
    BY <1>6, <1>7, ConcatPaths
  <2> HIDE DEF abm
  <2> QED
    BY <1>6, <1>7, <2>1
<1> HIDE DEF abm
<1>9. /\ s \in Seq(Path) /\ Len(s) = 13
      /\ \A i \in 1 .. 10 : s[i] = abm[i]
      /\ s[11] = p[1] /\ s[12] = p[2] /\ s[13] = p[3]
  <2>1. s = abm \o p
    BY <1>5 DEF ab, abm
  <2>2. /\ s \in Seq(Path) /\ Len(s) = 13
        /\ \A i \in 1 .. 10 : s[i] = abm[i]
        /\ \A i \in 1 .. 3 : s[10 + i] = p[i]
    <3>1. /\ s \in Seq(Path) /\ Len(s) = Len(abm) + Len(p)
          /\ \A i \in 1 .. Len(abm) : s[i] = abm[i]
          /\ \A i \in 1 .. Len(p) : s[Len(abm) + i] = p[i]
      BY <1>4, <1>8, <2>1, ConcatPaths
    <3> QED
      BY <1>4, <1>8, <3>1
  <2> QED
    BY <2>2
<1>21. ab[1] = a[1] /\ ab[2] = a[2] /\ ab[3] = a[3] /\ ab[4] = a[4]
  BY <1>7
<1>22. ab[5] = b[1] /\ ab[6] = b[2] /\ ab[7] = b[3] /\ ab[8] = b[4]
  <2>1. ab[4 + 1] = b[1] /\ ab[4 + 2] = b[2] /\ ab[4 + 3] = b[3] /\ ab[4 + 4] = b[4]
    BY <1>7
  <2> QED
    BY <2>1
<1>23. abm[9] = meta /\ abm[10] = lock
  <2>1. abm[8 + 1] = m[1] /\ abm[8 + 2] = m[2]
    BY <1>8
  <2> QED
    BY <1>6, <2>1
<1>10. /\ s[1] = a[1] /\ s[2] = a[2] /\ s[3] = a[3] /\ s[4] = a[4]
       /\ s[5] = b[1] /\ s[6] = b[2] /\ s[7] = b[3] /\ s[8] = b[4]
       /\ s[9] = meta /\ s[10] = lock
  BY <1>8, <1>9, <1>21, <1>22, <1>23
<1> DEFINE letter(i) == s[i].parts[7][1]
           name(i) == s[i].parts[9][1]
           short(i) == s[i].parts[6][1]
           parts(i) == Len(s[i].parts)
<1>11. /\ parts(1) = 9 /\ parts(2) = 10 /\ parts(3) = 9 /\ parts(4) = 10
       /\ parts(5) = 9 /\ parts(6) = 10 /\ parts(7) = 9 /\ parts(8) = 10
       /\ parts(9) = 6 /\ parts(10) = 6 /\ parts(11) = 7 /\ parts(12) = 7 /\ parts(13) = 6
  BY <1>1, <1>2, <1>3, <1>4, <1>9, <1>10
<1>12. /\ letter(1) = "A" /\ letter(2) = "A" /\ letter(3) = "A" /\ letter(4) = "A"
       /\ letter(5) = "B" /\ letter(6) = "B" /\ letter(7) = "B" /\ letter(8) = "B"
       /\ letter(11) = "id" /\ letter(12) = "rocess.log"
  BY <1>1, <1>2, <1>4, <1>9, <1>10
<1>13. /\ name(1) = "snapshot.bin" /\ name(2) = "snapshot.bin" /\ name(3) = "manifest.txt" /\ name(4) = "manifest.txt"
       /\ name(5) = "snapshot.bin" /\ name(6) = "snapshot.bin" /\ name(7) = "manifest.txt" /\ name(8) = "manifest.txt"
       /\ short(9) = "active.meta" /\ short(10) = "checkpoint.lock" /\ short(13) = "status.txt"
  BY <1>1, <1>2, <1>3, <1>4, <1>9, <1>10
<1>14. \A i, j : s[i] = s[j] => parts(i) = parts(j) /\ letter(i) = letter(j) /\ name(i) = name(j) /\ short(i) = short(j)
  OBVIOUS
<1> HIDE DEF parts, letter, name, short
<1>15. DOMAIN s = 1 .. 13
  BY <1>9, LenProperties
<1> SUFFICES ASSUME NEW i \in 1 .. 13, NEW j \in 1 .. 13, s[i] = s[j]
             PROVE  i = j
  BY <1>15 DEF s
<1>16. parts(i) = parts(j) /\ letter(i) = letter(j) /\ name(i) = name(j) /\ short(i) = short(j)
  BY <1>14
<1>17. CASE i \in {1, 3, 5, 7}
  BY <1>11, <1>12, <1>13, <1>16, <1>17
<1>18. CASE i \in {2, 4, 6, 8}
  BY <1>11, <1>12, <1>13, <1>16, <1>18
<1>19. CASE i \in {9, 10, 13}
  BY <1>11, <1>12, <1>13, <1>16, <1>19
<1>20. CASE i \in {11, 12}
  BY <1>11, <1>12, <1>13, <1>16, <1>20
<1> QED
  BY <1>17, <1>18, <1>19, <1>20

-----------------------------------------------------------------------------
(***************************************************************************)
(* Reading the file.                                                       *)
(***************************************************************************)

\* The value of a key after the first n lines: the last of them that has it.
LastLine(key, n) ==
    \/ config[key] = Default[key] /\ \A i \in 1 .. n : file[i].key # key
    \/ \E i \in 1 .. n :
         /\ file[i] = [key |-> key, value |-> config[key]]
         /\ \A j \in i + 1 .. n : file[j].key # key

ConfigInv ==
    /\ file \in Seq(Lines)
    /\ TypeOK
    /\ \A key \in NumberKeys : LastLine(key, line)
    /\ pc \in {"prepare", "ready"} => line = Len(file) /\ Acceptable
    /\ pc = "ready" => paths = StorePaths(config) \o ProcessPaths(config)

LEMMA FieldSizes ==
    /\ FieldSize("process_name") = 64 /\ FieldSize("runtime_root") = ULCR_MAX_PATH
    /\ \A key : FieldSize(key) \in {64, 256, ULCR_MAX_PATH}
<1>1. FieldSize("process_name") = 64
  BY Zenon DEF FieldSize
<1>2. FieldSize("runtime_root") = ULCR_MAX_PATH
  BY Zenon DEF FieldSize
<1>3. ASSUME NEW key PROVE FieldSize(key) \in {64, 256, ULCR_MAX_PATH}
  <2>1. CASE key = "process_name"
    BY <2>1, Zenon DEF FieldSize
  <2>2. CASE key = "workload_args"
    BY <2>2, Zenon DEF FieldSize
  <2>3. CASE key # "process_name" /\ key # "workload_args"
    BY <2>3, Zenon DEF FieldSize
  <2> QED
    BY <2>1, <2>2, <2>3
<1> QED
  BY <1>1, <1>2, <1>3

LEMMA InitInv == Init => ConfigInv
<1> SUFFICES ASSUME Init PROVE ConfigInv
  OBVIOUS
<1>1. file \in Seq(Lines)
  <2>1. PICK n \in 0 .. MaxLines : file \in [1 .. n -> Lines]
    BY DEF Init
  <2> QED
    BY <2>1, SeqDef, ConfigurationAssumption
<1>2. /\ DOMAIN config = TextKeys \cup NumberKeys
      /\ \A key \in TextKeys : config[key] \in 0 .. FieldSize(key) - 1
      /\ \A key \in NumberKeys : config[key] \in Int
  BY FieldSizes, ConfigurationAssumption DEF Init, Default, TextKeys, NumberKeys
<1>3. TypeOK
  BY <1>1, <1>2, LenProperties DEF Init, TypeOK
<1>4. \A key \in NumberKeys : LastLine(key, line)
  BY DEF Init, LastLine
<1> QED
  BY <1>1, <1>3, <1>4 DEF ConfigInv, Init

\* One line changes no field but its own, and leaves that one within its array.
LEMMA AssignedType ==
    ASSUME NEW c, NEW entry \in Lines,
           DOMAIN c = TextKeys \cup NumberKeys,
           \A key \in TextKeys : c[key] \in 0 .. FieldSize(key) - 1,
           \A key \in NumberKeys : c[key] \in Int
    PROVE  LET d == Assigned(c, entry) IN
           /\ DOMAIN d = TextKeys \cup NumberKeys
           /\ \A key \in TextKeys : d[key] \in 0 .. FieldSize(key) - 1
           /\ \A key \in NumberKeys : d[key] \in Int
           /\ \A key \in NumberKeys : d[key] = IF entry.key = key THEN entry.value ELSE c[key]
<1> DEFINE d == Assigned(c, entry)
<1>1. TextKeys \cap NumberKeys = {} /\ "" \notin TextKeys \cup NumberKeys
  BY DEF TextKeys, NumberKeys
<1>6. Ignored.key = ""
  BY DEF Ignored
<1>2. \A key \in TextKeys : FieldSize(key) \in Nat /\ FieldSize(key) > 0
  BY FieldSizes, ConfigurationAssumption
<1>3. CASE entry = Ignored
  BY <1>1, <1>3 DEF Assigned, Ignored
<1>4. CASE entry \in [key : TextKeys, value : Lengths]
  <2> DEFINE cut == IF entry.value >= FieldSize(entry.key) THEN FieldSize(entry.key) - 1 ELSE entry.value
  <2>1. entry.key \in TextKeys /\ entry.value \in Nat
    BY <1>4, ConfigurationAssumption
  <2>2. entry # Ignored
    BY <1>1, <1>6, <2>1
  <2>6. cut \in 0 .. FieldSize(entry.key) - 1
    BY <1>2, <2>1
  <2>3. d = [c EXCEPT ![entry.key] = cut]
    BY <2>1, <2>2 DEF Assigned
  <2> HIDE DEF cut, d
  <2>4. DOMAIN d = TextKeys \cup NumberKeys
    BY <2>3
  <2>5. \A key \in TextKeys \cup NumberKeys : d[key] = IF key = entry.key THEN cut ELSE c[key]
    BY <2>3
  <2> QED
    BY <1>1, <2>1, <2>6, <2>4, <2>5 DEF d
<1>5. CASE entry \in [key : NumberKeys, value : Numbers]
  <2>1. entry.key \in NumberKeys /\ entry.value \in Int
    BY <1>5, ConfigurationAssumption
  <2>2. entry # Ignored
    BY <1>1, <1>6, <2>1
  <2>6. entry.key \notin TextKeys
    BY <1>1, <2>1
  <2>3. d = [c EXCEPT ![entry.key] = entry.value]
    BY <2>1, <2>2, <2>6 DEF Assigned
  <2> HIDE DEF d
  <2>4. DOMAIN d = TextKeys \cup NumberKeys
    BY <2>3
  <2>5. \A key \in TextKeys \cup NumberKeys : d[key] = IF key = entry.key THEN entry.value ELSE c[key]
    BY <2>3
  <2> QED
    BY <1>1, <2>1, <2>2, <2>4, <2>5 DEF d
<1> QED
  BY <1>3, <1>4, <1>5 DEF Lines

LEMMA ReadLineInv == ConfigInv /\ ReadLine => ConfigInv'
<1> SUFFICES ASSUME ConfigInv, ReadLine PROVE ConfigInv'
  OBVIOUS
<1> USE DEF ConfigInv, ReadLine
<1>1. Len(file) \in Nat /\ line \in 0 .. Len(file) /\ line < Len(file)
  BY LenProperties DEF TypeOK
<1>2. line' \in 1 .. Len(file) /\ line' = line + 1 /\ file' = file
  BY <1>1
<1>3. file[line'] \in Lines
  BY <1>2, ElementOfSeq
<1>7. /\ DOMAIN config = TextKeys \cup NumberKeys
      /\ \A key \in TextKeys : config[key] \in 0 .. FieldSize(key) - 1
      /\ \A key \in NumberKeys : config[key] \in Int
      /\ config' = Assigned(config, file[line'])
  BY DEF TypeOK
<1>4. /\ DOMAIN config' = TextKeys \cup NumberKeys
      /\ \A key \in TextKeys : config'[key] \in 0 .. FieldSize(key) - 1
      /\ \A key \in NumberKeys : config'[key] \in Int
      /\ \A key \in NumberKeys :
           config'[key] = IF file[line'].key = key THEN file[line'].value ELSE config[key]
  <2> HIDE DEF ConfigInv, ReadLine
  <2> QED
    BY <1>3, <1>7, AssignedType
<1>5. TypeOK'
  BY <1>2, <1>4 DEF TypeOK
<1>6. ASSUME NEW key \in NumberKeys PROVE LastLine(key, line)'
  <2>1. CASE file[line'].key = key
    <3>1. file[line'] = [key |-> key, value |-> config'[key]]
      BY <1>3, <1>4, <2>1 DEF Lines, Ignored
    <3>2. \A j \in line' + 1 .. line' : FALSE
      BY <1>1, <1>2
    <3>3. \E i \in 1 .. line' :
            /\ file[i] = [key |-> key, value |-> config'[key]]
            /\ \A j \in i + 1 .. line' : file[j].key # key
      <4>1. line' \in 1 .. line'
        BY <1>1, <1>2
      <4> WITNESS line' \in 1 .. line'
      <4> QED
        BY <3>1, <3>2
    <3> QED
      BY <1>2, <3>3 DEF LastLine
  <2>2. CASE file[line'].key # key
    <3>1. config'[key] = config[key] /\ LastLine(key, line)
      BY <1>4, <2>2
    <3>2. \A i \in 1 .. line' : i \in 1 .. line \/ i = line'
      BY <1>1, <1>2
    <3>3. CASE config[key] = Default[key] /\ \A i \in 1 .. line : file[i].key # key
      BY <1>2, <2>2, <3>1, <3>2, <3>3 DEF LastLine
    <3>4. CASE \E i \in 1 .. line :
                 /\ file[i] = [key |-> key, value |-> config[key]]
                 /\ \A j \in i + 1 .. line : file[j].key # key
      <4>1. PICK i \in 1 .. line :
                 /\ file[i] = [key |-> key, value |-> config[key]]
                 /\ \A j \in i + 1 .. line : file[j].key # key
        BY <3>4
      <4>2. i \in 1 .. line' /\ \A j \in i + 1 .. line' : j \in i + 1 .. line \/ j = line'
        BY <1>1, <1>2
      <4>3. \A j \in i + 1 .. line' : file[j].key # key
        BY <2>2, <4>1, <4>2
      <4> QED
        BY <1>2, <3>1, <4>1, <4>2, <4>3 DEF LastLine
    <3> QED
      BY <3>1, <3>3, <3>4 DEF LastLine
  <2> QED
    BY <2>1, <2>2
<1> QED
  BY <1>2, <1>5, <1>6

LEMMA TypesReadable == TypeOK => Readable(config)
<1> SUFFICES ASSUME TypeOK PROVE Readable(config)
  OBVIOUS
<1>1. "process_name" \in TextKeys /\ "runtime_root" \in TextKeys
  BY DEF TextKeys
<1>2. /\ config["process_name"] \in 0 .. FieldSize("process_name") - 1
      /\ config["runtime_root"] \in 0 .. FieldSize("runtime_root") - 1
  BY <1>1 DEF TypeOK
<1>3. config["process_name"] \in Nat /\ config["runtime_root"] \in 0 .. ULCR_MAX_PATH - 1
  BY <1>2, FieldSizes, ConfigurationAssumption
<1> QED
  BY <1>3 DEF Readable

LEMMA PrepareInv == ConfigInv /\ Prepare => ConfigInv'
<1> SUFFICES ASSUME ConfigInv, Prepare PROVE ConfigInv'
  OBVIOUS
<1> USE DEF ConfigInv, Prepare
<1>1. Readable(config)
  BY TypesReadable
<1>2. paths' \in Seq(Path)
  BY <1>1, NamesArePaths
<1>3. \A i \in DOMAIN paths' : paths'[i].length < ULCR_MAX_PATH
  <2>1. \A i \in DOMAIN paths' : paths'[i] \in Path
    BY <1>2, ElementOfSeq, LenProperties
  <2> QED
    BY <2>1, ConfigurationAssumption DEF Path
<1>4. TypeOK'
  BY <1>3 DEF TypeOK
<1>5. \A key \in NumberKeys : LastLine(key, line)'
  BY DEF LastLine
<1>6. Acceptable'
  BY DEF Acceptable
<1>7. (StorePaths(config) \o ProcessPaths(config))' = StorePaths(config) \o ProcessPaths(config)
  BY DEF StorePaths, ProcessPaths, SlotPaths, SlotDir, CheckpointsDir, ProcessDir
<1> QED
  BY <1>4, <1>5, <1>6, <1>7

LEMMA StepInv == ConfigInv /\ [Next]_vars => ConfigInv'
<1> SUFFICES ASSUME ConfigInv, [Next]_vars PROVE ConfigInv'
  OBVIOUS
<1>1. CASE Open
  BY <1>1 DEF Open, ConfigInv, TypeOK, LastLine
<1>2. CASE OpenFails
  BY <1>2 DEF OpenFails, ConfigInv, TypeOK, LastLine
<1>3. CASE ReadLine
  BY <1>3, ReadLineInv
<1>4. CASE Check
  BY <1>4 DEF Check, ConfigInv, TypeOK, LastLine, Acceptable
<1>5. CASE Prepare
  BY <1>5, PrepareInv
<1>6. CASE UNCHANGED vars
  BY <1>6 DEF vars, ConfigInv, TypeOK, LastLine, Acceptable, StorePaths, ProcessPaths,
              SlotPaths, SlotDir, CheckpointsDir, ProcessDir
<1> QED
  BY <1>1, <1>2, <1>3, <1>4, <1>5, <1>6 DEF Next

LEMMA Invariant == Spec => []ConfigInv
<1>1. Init => ConfigInv
  BY InitInv
<1>2. ConfigInv /\ [Next]_vars => ConfigInv'
  BY StepInv
<1> QED
  BY <1>1, <1>2, PTL DEF Spec

-----------------------------------------------------------------------------

\* No field and no path outgrows its array, whatever the file says: each text is
\* cut off by ulcr_copy_string, each path by ulcr_path_join and snprintf.
THEOREM TypeCorrect == Spec => []TypeOK
<1>1. ConfigInv => TypeOK
  BY DEF ConfigInv
<1> QED
  BY <1>1, Invariant, PTL

\* The numbers of a configuration that ulcr_load_config accepts are those of the
\* last line with their key, or the default if no line has it.
THEOREM LastLines == Spec => []LastLineCounts
<1>1. ConfigInv => LastLineCounts
  <2> SUFFICES ASSUME ConfigInv, pc \in {"prepare", "ready"} PROVE LastLineCounts
    BY DEF LastLineCounts
  <2>1. config.checkpoint_interval_sec >= 1 /\ config.monitor_interval_sec >= 1
    BY DEF ConfigInv, Acceptable, NumberKeys
  <2>2. \A key \in NumberKeys : LastLine(key, Len(file))
    BY DEF ConfigInv
  <2>3. DOMAIN file = 1 .. Len(file)
    BY LenProperties DEF ConfigInv
  <2> QED
    BY <2>1, <2>2, <2>3 DEF LastLineCounts, LastLine
<1> QED
  BY <1>1, Invariant, PTL

\* Where the names fit, no two files of the store or of the process share one,
\* so a slot is never written over the other, a temporary file never over a
\* published one and the lock never over what it guards.
THEOREM NamesDiffer == Spec => []NamesDistinct
<1>1. ConfigInv => NamesDistinct
  <2> SUFFICES ASSUME ConfigInv, pc = "ready", Fits PROVE Distinct
    BY DEF NamesDistinct
  <2>1. Roomy(config)
    BY TypesReadable DEF ConfigInv, Acceptable, Fits, Roomy
  <2>2. paths = StorePaths(config) \o ProcessPaths(config)
    BY DEF ConfigInv
  <2> QED
    BY <2>1, <2>2, RoomyDistinct DEF Distinct
<1> QED
  BY <1>1, Invariant, PTL

=============================================================================
