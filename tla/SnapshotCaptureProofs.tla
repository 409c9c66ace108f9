------------------------ MODULE SnapshotCaptureProofs ------------------------
(***************************************************************************)
(* Proofs about SnapshotCapture for every memory map, every size of a      *)
(* region and every way a capture fails.                                   *)
(***************************************************************************)
EXTENDS SnapshotCapture, SequenceTheorems, TLAPS

\* The regions are numbered from one without gaps.
LEMMA RegionIdsRange ==
    /\ RegionIds \subseteq Nat \ {0}
    /\ \A i \in RegionIds, j \in Nat \ {0} : j <= i => j \in RegionIds
    /\ \A i \in RegionIds : Size(i) \in Nat \ {0} /\ Included(i) \in BOOLEAN
<1> USE CaptureAssumption
<1>1. Len(Maps) \in Nat /\ DOMAIN Maps = 1 .. Len(Maps)
  OBVIOUS
<1>2. \A i \in DOMAIN Maps : Maps[i] \in Mapping
  OBVIOUS
<1>3. \A i \in RegionIds : Size(i) \in Nat \ {0}
  BY <1>2 DEF Mapping, Size, RegionIds
<1>4. \A i \in RegionIds : Included(i) \in BOOLEAN
  BY DEF Included
<1> QED BY <1>1, <1>3, <1>4 DEF RegionIds

LEMMA ExcludedType == Excluded \in Region
BY DEF Excluded, Region

LEMMA LayoutType == Layout \in [RegionIds -> Region]
<1> SUFFICES ASSUME NEW i \in RegionIds
             PROVE  [Excluded EXCEPT !.include = Included(i)] \in Region
  BY DEF Layout
<1>1. Included(i) \in BOOLEAN
  BY RegionIdsRange
<1> QED BY <1>1 DEF Excluded, Region

LEMMA UnitType ==
    ASSUME TypeOK, index \in RegionIds
    PROVE  <<index, copied + 1, version>> \in Unit
BY DEF TypeOK, Unit

LEMMA InitType == Init => TypeOK
<1> SUFFICES ASSUME Init PROVE TypeOK
  OBVIOUS
<1>1. NoImage \in Image
  BY ExcludedType DEF NoImage, Image
<1>2. regions \in [RegionIds -> Region]
  BY ExcludedType DEF Init, NoImage
<1> QED BY <1>1, <1>2 DEF Init, TypeOK

LEMMA TypeStep == TypeOK /\ CaptureInv /\ [Next]_vars => TypeOK'
<1> SUFFICES ASSUME TypeOK, CaptureInv, [Next]_vars PROVE TypeOK'
  OBVIOUS
<1> USE DEF TypeOK, procVars, copyVars
<1>1. CASE Store
  BY <1>1 DEF Store
<1>2. CASE Kill
  BY <1>2 DEF Kill
<1>3. CASE Terminate
  BY <1>3 DEF Terminate, Signals
<1>4. ASSUME NEW signal \in Signals, Deliver(signal) PROVE TypeOK'
  BY <1>4 DEF Deliver
<1>5. CASE Attach
  <2>1. pending' \subseteq Signals
    BY <1>5 DEF Attach, Signals
  <2> QED BY <1>5, <2>1 DEF Attach
<1>6. CASE AttachFails
  BY <1>6 DEF AttachFails, Return
<1>7. CASE CollectLayout
  BY <1>7, LayoutType DEF CollectLayout
<1>8. CASE SkipRegion
  BY <1>8, RegionIdsRange DEF SkipRegion, NextRegion
<1>9. CASE CopyUnit
  <2>1. data' \in Seq(Unit)
    BY <1>9, UnitType, AppendProperties DEF CopyUnit
  <2> QED BY <1>9, <2>1 DEF CopyUnit
<1>10. CASE EndRegion
  <2>1. Len(data) - copied \in Int /\ index \in RegionIds /\ copied \in Nat
    BY <1>10 DEF EndRegion
  <2>2. copied <= Len(data)
    BY <1>10 DEF EndRegion, CaptureInv, TailCopied
  <2>3. [include |-> TRUE, offset |-> Len(data) - copied, size |-> copied] \in Region
    BY <2>1, <2>2 DEF Region
  <2> QED BY <1>10, <2>3, RegionIdsRange DEF EndRegion, NextRegion
<1>11. CASE LoseRegion
  <2>1. <<index, copied + 1, version>> \in Unit
    BY <1>11, UnitType DEF LoseRegion
  <2>2. data' \in Seq(Unit)
    <3>1. data' = data \/ data' = Append(data, <<index, copied + 1, version>>)
      BY <1>11 DEF LoseRegion
    <3>2. Append(data, <<index, copied + 1, version>>) \in Seq(Unit)
      BY <2>1, AppendProperties
    <3> QED BY <3>1, <3>2
  <2> QED BY <1>11, <2>2, ExcludedType, RegionIdsRange DEF LoseRegion, NextRegion
<1>12. CASE Publish
  <2>1. published' \in Image
    BY <1>12 DEF Publish, Image
  <2> QED BY <1>12, <2>1 DEF Publish, Return, ptrace_detach
<1>13. CASE Fail
  BY <1>13 DEF Fail, Return, ptrace_detach
<1>14. CASE UNCHANGED vars
  BY <1>14 DEF vars
<1> QED
  BY <1>1, <1>2, <1>3, <1>4, <1>5, <1>6, <1>7, <1>8, <1>9, <1>10, <1>11, <1>12, <1>13, <1>14
  DEF Next, Capture

-----------------------------------------------------------------------------
\* What holds of a file still holds when a unit is appended.
LEMMA HoldsAppended ==
    ASSUME NEW d \in Seq(Unit), NEW unit \in Unit, NEW r \in Region, NEW i \in RegionIds,
           NEW v, Holds(d, r, i, v)
    PROVE  Holds(Append(d, unit), r, i, v)
<1> SUFFICES ASSUME r.include
             PROVE  /\ r.size = Size(i) /\ r.offset + Size(i) <= Len(Append(d, unit))
                    /\ \A k \in 1 .. Size(i) : Append(d, unit)[r.offset + k] = <<i, k, v>>
  BY DEF Holds
<1>1. r.size = Size(i) /\ r.offset + Size(i) <= Len(d) /\ r.offset \in Nat
  BY DEF Holds, Region
<1>2. Size(i) \in Nat
  BY RegionIdsRange
<1>3. Len(d) \in Nat /\ Len(Append(d, unit)) = Len(d) + 1
  OBVIOUS
<1>4. ASSUME NEW k \in 1 .. Size(i)
      PROVE  Append(d, unit)[r.offset + k] = <<i, k, v>>
  <2>1. r.offset + k \in 1 .. Len(d)
    BY <1>1, <1>2, <1>3
  <2>2. Append(d, unit)[r.offset + k] = d[r.offset + k]
    BY <2>1
  <2> QED BY <2>2 DEF Holds
<1> QED BY <1>1, <1>2, <1>3, <1>4

\* The same for the units of the current region.
LEMMA TailAppended ==
    ASSUME TypeOK, TailCopied, data' = Append(data, <<index, copied + 1, instant>>),
           index \in RegionIds, copied' = copied + 1, UNCHANGED <<index, instant>>
    PROVE  TailCopied'
<1> DEFINE unit == <<index, copied + 1, instant>>
<1>1. unit \in Unit /\ data \in Seq(Unit) /\ copied \in Nat /\ copied <= Len(data)
  BY DEF TypeOK, Unit, TailCopied
<1> HIDE DEF unit
<1>2. /\ Len(data') = Len(data) + 1 /\ data'[Len(data) + 1] = unit
      /\ \A j \in 1 .. Len(data) : data'[j] = data[j]
  BY <1>1, AppendProperties DEF unit
<1>3. Len(data) \in Nat /\ Len(data') - copied' = Len(data) - copied
  BY <1>1, <1>2
<1>4. ASSUME NEW k \in 1 .. copied'
      PROVE  data'[Len(data) - copied + k] = <<index, k, instant>>
  <2>1. CASE k = copied + 1
    <3>1. Len(data) - copied + k = Len(data) + 1
      BY <1>1, <1>3, <2>1
    <3> QED BY <1>2, <2>1, <3>1 DEF unit
  <2>2. CASE k \in 1 .. copied
    <3>1. Len(data) - copied + k \in 1 .. Len(data)
      BY <1>1, <1>3, <2>2
    <3> QED BY <1>2, <2>2, <3>1 DEF TailCopied
  <2> QED BY <1>1, <2>1, <2>2
<1>5. copied' <= Len(data')
  BY <1>1, <1>2, <1>3
<1> QED BY <1>3, <1>4, <1>5 DEF TailCopied

\* A step that leaves the capture's own state alone.
LEMMA CaptureStutters ==
    ASSUME CaptureInv, UNCHANGED <<pc, copyVars, published, instant>>,
           \/ process' = process /\ (process = "stopped" => version' = version)
           \/ process' = "dead"
           \/ pc = "idle" /\ process' # "stopped"
    PROVE  CaptureInv'
<1> USE DEF CaptureInv, copyVars
<1>1. pc' = "dump" => TailCopied'
  BY DEF TailCopied
<1>2. pc' = "dump" => \A i \in RegionIds : i < index' => Holds(data', regions'[i], i, instant')
  OBVIOUS
<1>3. \A i \in RegionIds : Holds(published'.data, published'.regions[i], i, published'.instant)
  OBVIOUS
<1>4. /\ pc' = "idle" => process' # "stopped"
      /\ pc' # "idle" => process' \in {"stopped", "dead"}
      /\ process' = "stopped" => version' = instant'
  OBVIOUS
<1> QED BY <1>1, <1>2, <1>3, <1>4

\* A step that ends the capture and publishes nothing.
LEMMA CaptureEnds ==
    ASSUME CaptureInv, pc' = "idle", process' # "stopped", UNCHANGED published
    PROVE  CaptureInv'
BY DEF CaptureInv, Holds, Size, RegionIds

LEMMA InvStep == TypeOK /\ CaptureInv /\ [Next]_vars => CaptureInv'
<1> SUFFICES ASSUME TypeOK, TypeOK', CaptureInv, [Next]_vars PROVE CaptureInv'
  BY TypeStep
<1> DEFINE Told(d, r, n) == \A i \in RegionIds : i < n => Holds(d, r[i], i, instant)
<1>1. CASE Store
  BY <1>1, CaptureStutters DEF Store
<1>2. CASE Kill
  BY <1>2, CaptureStutters DEF Kill
<1>3. CASE Terminate
  BY <1>3, CaptureStutters DEF Terminate
<1>4. ASSUME NEW signal \in Signals, Deliver(signal) PROVE CaptureInv'
  <2>1. pc = "idle"
    BY <1>4 DEF Deliver, CaptureInv, TypeOK
  <2> QED BY <1>4, <2>1, CaptureStutters DEF Deliver
<1>5. CASE Attach
  BY <1>5 DEF Attach, CaptureInv, Holds, Size, RegionIds
<1>6. CASE AttachFails
  BY <1>6, CaptureEnds DEF AttachFails, Return, procVars, CaptureInv
<1>7. CASE CollectLayout
  <2>1. /\ pc' = "dump" /\ data' = <<>> /\ copied' = 0 /\ index' = 1
        /\ UNCHANGED <<process, version, published, instant>> /\ process = "stopped"
    BY <1>7 DEF CollectLayout, procVars
  <2>2. TailCopied'
    BY <2>1 DEF TailCopied
  <2>3. \A i \in RegionIds : ~(i < index')
    BY <2>1, RegionIdsRange
  <2> QED BY <2>1, <2>2, <2>3 DEF CaptureInv
<1>8. CASE SkipRegion
  <2>1. /\ pc = "dump" /\ index \in RegionIds /\ ~regions[index].include
        /\ index' = index + 1 /\ copied' = 0
        /\ UNCHANGED <<process, version, pc, regions, data, published, instant>>
    BY <1>8 DEF SkipRegion, NextRegion, procVars
  <2>2. TailCopied'
    BY <2>1 DEF TailCopied, TypeOK
  <2>3. Told(data', regions', index')
    <3> SUFFICES ASSUME NEW i \in RegionIds, i < index + 1
                 PROVE  Holds(data, regions[i], i, instant)
      BY <2>1
    <3>1. i < index \/ i = index
      BY RegionIdsRange, <2>1
    <3> QED BY <2>1, <3>1 DEF CaptureInv, Holds
  <2> QED BY <2>1, <2>2, <2>3 DEF CaptureInv
<1>9. CASE CopyUnit
  <2>1. /\ pc = "dump" /\ index \in RegionIds /\ process = "stopped"
        /\ data' = Append(data, <<index, copied + 1, version>>) /\ copied' = copied + 1
        /\ UNCHANGED <<process, version, pc, regions, index, published, instant>>
    BY <1>9 DEF CopyUnit, procVars
  <2>2. version = instant
    BY <2>1 DEF CaptureInv
  <2>3. TailCopied'
    BY <2>1, <2>2, TailAppended DEF CaptureInv
  <2>4. Told(data', regions', index')
    <3> SUFFICES ASSUME NEW i \in RegionIds, i < index
                 PROVE  Holds(data', regions[i], i, instant)
      BY <2>1
    <3>1. Holds(data, regions[i], i, instant) /\ regions[i] \in Region
      BY <2>1 DEF CaptureInv, TypeOK
    <3>2. <<index, copied + 1, version>> \in Unit /\ data \in Seq(Unit)
      BY <2>1, UnitType DEF TypeOK
    <3> QED BY <2>1, <3>1, <3>2, HoldsAppended
  <2> QED BY <2>1, <2>2, <2>3, <2>4 DEF CaptureInv
<1>10. CASE EndRegion
  <2> DEFINE entry == [include |-> TRUE, offset |-> Len(data) - copied, size |-> copied]
  <2>1. /\ pc = "dump" /\ index \in RegionIds /\ copied = Size(index)
        /\ regions' = [regions EXCEPT ![index] = entry]
        /\ index' = index + 1 /\ copied' = 0
        /\ UNCHANGED <<process, version, pc, data, published, instant>>
    BY <1>10 DEF EndRegion, NextRegion, procVars
  <2>2. TailCopied'
    BY <2>1 DEF TailCopied, TypeOK
  <2>3. Holds(data, entry, index, instant)
    <3>1. TailCopied /\ Len(data) \in Nat /\ copied \in Nat
      BY <2>1 DEF CaptureInv, TypeOK
    <3>2. entry.size = Size(index) /\ entry.offset + Size(index) <= Len(data)
      BY <2>1, <3>1 DEF TailCopied
    <3>3. \A k \in 1 .. Size(index) : data[entry.offset + k] = <<index, k, instant>>
      BY <2>1, <3>1 DEF TailCopied
    <3> QED BY <3>2, <3>3 DEF Holds
  <2> HIDE DEF entry
  <2>4. Told(data', regions', index')
    <3> SUFFICES ASSUME NEW i \in RegionIds, i < index + 1
                 PROVE  Holds(data, regions'[i], i, instant)
      BY <2>1
    <3>1. CASE i = index
      <4>1. regions'[i] = entry
        BY <2>1, <3>1 DEF TypeOK
      <4> QED BY <2>3, <3>1, <4>1
    <3>2. CASE i # index
      <4>1. i < index
        BY <2>1, <3>2, RegionIdsRange
      <4>2. regions'[i] = regions[i]
        BY <2>1, <3>2 DEF TypeOK
      <4> QED BY <2>1, <4>1, <4>2 DEF CaptureInv
    <3> QED BY <3>1, <3>2
  <2> QED BY <2>1, <2>2, <2>4 DEF CaptureInv
<1>11. CASE LoseRegion
  <2> DEFINE unit == <<index, copied + 1, version>>
  <2>1. /\ pc = "dump" /\ index \in RegionIds
        /\ regions' = [regions EXCEPT ![index] = Excluded]
        /\ data' = data \/ data' = Append(data, unit)
        /\ index' = index + 1 /\ copied' = 0
        /\ UNCHANGED <<process, version, pc, published, instant>>
    BY <1>11 DEF LoseRegion, NextRegion, procVars
  <2>2. TailCopied'
    BY <2>1 DEF TailCopied, TypeOK
  <2>3. unit \in Unit /\ data \in Seq(Unit)
    BY <2>1, UnitType DEF TypeOK
  <2> HIDE DEF unit
  <2>4. Told(data', regions', index')
    <3> SUFFICES ASSUME NEW i \in RegionIds, i < index + 1
                 PROVE  Holds(data', regions'[i], i, instant)
      BY <2>1
    <3>1. CASE i = index
      <4>1. regions'[i] = Excluded
        BY <2>1, <3>1 DEF TypeOK
      <4> QED BY <4>1 DEF Holds, Excluded
    <3>2. CASE i # index
      <4>1. i < index
        BY <2>1, <3>2, RegionIdsRange
      <4>2. regions'[i] = regions[i] /\ regions[i] \in Region
        BY <2>1, <3>2 DEF TypeOK
      <4>3. Holds(data, regions[i], i, instant)
        BY <2>1, <4>1 DEF CaptureInv
      <4>4. Holds(Append(data, unit), regions[i], i, instant)
        BY <2>3, <4>2, <4>3, HoldsAppended
      <4> QED BY <2>1, <4>2, <4>3, <4>4
    <3> QED BY <3>1, <3>2
  <2> QED BY <2>1, <2>2, <2>4 DEF CaptureInv
<1>12. CASE Publish
  <2>1. /\ pc = "dump" /\ index \notin RegionIds /\ pc' = "idle" /\ process' # "stopped"
        /\ published' = [regions |-> regions, data |-> data, instant |-> instant]
    BY <1>12 DEF Publish, Return, ptrace_detach
  <2>2. \A i \in RegionIds : i < index
    <3> SUFFICES ASSUME NEW i \in RegionIds, index <= i PROVE FALSE
      BY RegionIdsRange DEF TypeOK
    <3> QED BY <2>1, RegionIdsRange DEF TypeOK
  <2>3. \A i \in RegionIds : Holds(data, regions[i], i, instant)
    BY <2>1, <2>2 DEF CaptureInv
  <2> QED BY <2>1, <2>3 DEF CaptureInv
<1>13. CASE Fail
  BY <1>13, CaptureEnds DEF Fail, Return, ptrace_detach
<1>14. CASE UNCHANGED vars
  BY <1>14, CaptureStutters DEF vars, procVars
<1> QED
  BY <1>1, <1>2, <1>3, <1>4, <1>5, <1>6, <1>7, <1>8, <1>9, <1>10, <1>11, <1>12, <1>13, <1>14
  DEF Next, Capture

LEMMA InitInv == Init => CaptureInv
BY DEF Init, CaptureInv, NoImage, Excluded, Holds

\* What the table finds is the slice ImageExact speaks of.
LEMMA HoldsBytes ==
    ASSUME TypeOK, NEW i \in RegionIds, published.regions[i].include,
           Holds(published.data, published.regions[i], i, published.instant)
    PROVE  BytesOf(published, i) = [k \in 1 .. Size(i) |-> <<i, k, published.instant>>]
<1> DEFINE d == published.data
           r == published.regions[i]
           v == published.instant
           bytes == SubSeq(d, r.offset + 1, r.offset + r.size)
           wanted == [k \in 1 .. Size(i) |-> <<i, k, v>>]
<1>1. d \in Seq(Unit) /\ r \in Region /\ Size(i) \in Nat /\ v \in Nat
  BY RegionIdsRange DEF TypeOK, Image
<1>2. r.offset \in Nat /\ r.size = Size(i) /\ r.offset + Size(i) <= Len(d)
  BY <1>1 DEF Holds, Region
<1>3. \A k \in 1 .. Size(i) : d[r.offset + k] = <<i, k, v>>
  BY DEF Holds
<1> HIDE DEF d, r, v
<1>4. \A k \in r.offset + 1 .. r.offset + r.size : d[k] \in Unit
  BY <1>1, <1>2, ElementOfSeq
<1>5. /\ bytes \in Seq(Unit) /\ Len(bytes) = Size(i)
      /\ \A k \in 1 .. Size(i) : bytes[k] = d[r.offset + k]
  <2>1. /\ bytes \in Seq(Unit)
        /\ Len(bytes) = IF r.offset + 1 <= r.offset + r.size
                        THEN (r.offset + r.size) - (r.offset + 1) + 1 ELSE 0
        /\ \A k \in 1 .. (r.offset + r.size) - (r.offset + 1) + 1 :
               bytes[k] = d[(r.offset + 1) + k - 1]
    BY <1>1, <1>2, <1>4, SubSeqProperties
  <2>2. (r.offset + r.size) - (r.offset + 1) + 1 = Size(i)
    BY <1>1, <1>2
  <2>3. Len(bytes) = Size(i)
    BY <1>1, <1>2, <2>1, <2>2
  <2>4. \A k \in 1 .. Size(i) : (r.offset + 1) + k - 1 = r.offset + k
    BY <1>1, <1>2
  <2> QED BY <2>1, <2>2, <2>3, <2>4
<1>6. bytes \in [1 .. Size(i) -> Unit]
  BY <1>5, LenProperties
<1> HIDE DEF bytes
<1>7. bytes = wanted
  BY <1>3, <1>5, <1>6
<1> QED BY <1>7 DEF BytesOf, bytes, d, r, v

-----------------------------------------------------------------------------
\* Every variable of the capture keeps its type, for every memory map.
THEOREM TypeCorrect == Spec => []TypeOK
BY InitType, InitInv, TypeStep, InvStep, PTL DEF Spec

\* The table is right as far as the loop has come, at every instant.
THEOREM CaptureCorrect == Spec => []CaptureInv
BY InitType, InitInv, TypeStep, InvStep, PTL DEF Spec

\* Every image that reaches a slot is exact, for every memory map, every number
\* of units and every pattern of lost regions.
THEOREM ImagesExact == Spec => []ImageExact
<1>1. TypeOK /\ CaptureInv => ImageExact
  BY HoldsBytes DEF CaptureInv, ImageExact
<1> QED BY <1>1, InitType, InitInv, TypeStep, InvStep, PTL DEF Spec

-----------------------------------------------------------------------------
(***************************************************************************)
(* What an image may lack, and why.                                        *)
(***************************************************************************)

\* The table includes what parse_maps_line included.
CompleteInv ==
    /\ pc = "dump" => \A i \in RegionIds : regions[i].include = Included(i)
    /\ result = "ok" => \A i \in RegionIds : published.regions[i].include = Included(i)

LEMMA CompleteStep ==
    TypeOK /\ CompleteInv /\ [Next /\ ~LoseRegion]_vars => CompleteInv'
<1> SUFFICES ASSUME TypeOK, CompleteInv, [Next /\ ~LoseRegion]_vars PROVE CompleteInv'
  OBVIOUS
<1> USE DEF CompleteInv, procVars, copyVars
<1>1. ASSUME UNCHANGED <<pc, regions, published, result>> PROVE CompleteInv'
  BY <1>1 DEF RegionIds, Included
<1>2. ASSUME pc' = "layout" \/ pc' = "idle", published' = published, result' # "ok"
      PROVE  CompleteInv'
  BY <1>2
<1>3. CASE CollectLayout
  <2>1. \A i \in RegionIds : regions'[i].include = Included(i)
    BY <1>3 DEF CollectLayout, Layout, Excluded
  <2> QED BY <1>3, <2>1 DEF CollectLayout, RegionIds, Included
<1>4. CASE EndRegion
  <2>1. \A i \in RegionIds : regions'[i].include = regions[i].include
    BY <1>4 DEF EndRegion, TypeOK
  <2> QED BY <1>4, <2>1 DEF EndRegion, RegionIds, Included
<1>5. CASE Publish
  BY <1>5 DEF Publish, Return, RegionIds, Included
<1>6. CASE Store \/ Kill \/ Terminate \/ (\E signal \in Signals : Deliver(signal)) \/ SkipRegion \/ CopyUnit
  BY <1>1, <1>6 DEF Store, Kill, Terminate, Deliver, SkipRegion, CopyUnit
<1>7. CASE Attach \/ AttachFails \/ Fail
  BY <1>2, <1>7 DEF Attach, AttachFails, Fail, Return
<1>8. CASE UNCHANGED vars
  BY <1>1, <1>8 DEF vars
<1> QED
  BY <1>3, <1>4, <1>5, <1>6, <1>7, <1>8 DEF Next, Capture

\* A capture in which no region is lost and that returns 0 has in its table
\* exactly the regions parse_maps_line marked, out of those there was room for:
\* dump_region_bytes returning -1 is the only way a region goes missing.
THEOREM OnlyLossExcludes ==
    Init /\ [][Next /\ ~LoseRegion]_vars =>
        [](result = "ok" => \A i \in RegionIds : published.regions[i].include = Included(i))
<1>1. Init => CompleteInv
  BY DEF Init, CompleteInv
<1>2. TypeOK /\ CaptureInv /\ CompleteInv /\ [Next /\ ~LoseRegion]_vars
        => (TypeOK /\ CaptureInv /\ CompleteInv)'
  BY TypeStep, InvStep, CompleteStep
<1>3. CompleteInv => (result = "ok" => \A i \in RegionIds : published.regions[i].include = Included(i))
  BY DEF CompleteInv
<1> QED BY <1>1, <1>2, <1>3, InitType, InitInv, PTL

\* So where the managed mappings are readable and writable, as the runtime makes
\* them, and among the first ULCR_MAX_REGIONS, a capture in which no read and no
\* write fails holds all that a restore rebuilds when it returns 0.  The code
\* does not ask: LoseRegion makes the run capture_lost_region fail.
THEOREM OnlyLossLosesManaged ==
    ASSUME \A i \in DOMAIN Maps : Maps[i].managed => i \in RegionIds /\ Included(i)
    PROVE  Init /\ [][Next /\ ~LoseRegion]_vars => []ManagedCaptured
<1>1. (result = "ok" => \A i \in RegionIds : published.regions[i].include = Included(i))
        => ManagedCaptured
  BY DEF ManagedCaptured
<1> QED BY <1>1, OnlyLossExcludes, PTL

=============================================================================
