---------------------------- MODULE WarDiskProofs ----------------------------
(* Proofs about WarDisk, for disks, tables and files of every size. *)
EXTENDS WarDisk, FiniteSetTheorems, TLAPS

-----------------------------------------------------------------------------
(* Least and greatest elements. *)

\* A nonempty set of naturals has a least element, which Least names: the
\* first slot or block a table scan of the code meets.
LEMMA LeastIsIn ==
    ASSUME NEW S \in SUBSET Nat, S # {}
    PROVE  Least(S) \in S /\ \A y \in S : Least(S) <= y
<1> DEFINE R == {p \in Nat \X Nat : p[1] < p[2]}
<1>1. R = OpToRel(<, Nat)
  BY DEF OpToRel
<1>2. IsWellFoundedOn(R, Nat)
  BY <1>1, NatLessThanWellFounded, Zenon
<1> HIDE DEF R
<1>3. PICK x \in S : \A y \in S : ~(<<y, x>> \in R)
  BY <1>2, WFMin, Zenon
<1>4. \A a, b \in Nat : <<a, b>> \in R <=> a < b
  BY DEF R
<1>5. \A y \in S : x <= y
  <2> SUFFICES ASSUME NEW y \in S PROVE x <= y
    OBVIOUS
  <2>1. x \in Nat /\ y \in Nat
    OBVIOUS
  <2>2. ~(<<y, x>> \in R)
    BY <1>3
  <2>3. ~(y < x)
    BY <1>4, <2>1, <2>2
  <2> QED
    BY <2>1, <2>3
<1> QED
  BY <1>5, Zenon DEF Least

\* A nonempty bounded set of naturals has a greatest element.
LEMMA GreatestIsIn ==
    ASSUME NEW N \in Nat, NEW S \in SUBSET (0..N), S # {}
    PROVE  Greatest(S) \in S /\ \A y \in S : y <= Greatest(S)
<1> DEFINE T == {N - x : x \in S}
<1>1. T \in SUBSET Nat /\ T # {}
  <2>1. \A x \in S : N - x \in Nat
    OBVIOUS
  <2> QED
    BY <2>1, Zenon
<1>2. Least(T) \in T /\ \A t \in T : Least(T) <= t
  BY <1>1, LeastIsIn, Zenon
<1>3. PICK x \in S : Least(T) = N - x
  BY <1>2, Zenon
<1>4. \A y \in S : y <= x
  <2> SUFFICES ASSUME NEW y \in S PROVE y <= x
    OBVIOUS
  <2>1. N - x <= N - y
    BY <1>2, <1>3, Zenon
  <2> QED
    BY <2>1
<1> QED
  BY <1>4, Zenon DEF Greatest

-----------------------------------------------------------------------------
(* Files and their data. *)

\* The length of a file's data, in blocks, is at most MAX_FILE_SIZE.
LEMMA DataLength ==
    ASSUME NEW d \in Data
    PROVE  Len(d) \in 0..MaxLen /\ d \in [1..Len(d) -> Blk]
<1>1. PICK k \in 0..MaxLen : d \in [1..k -> Blk]
  BY DEF Data
<1>2. k \in Nat /\ d \in Seq(Blk)
  BY <1>1, SizesAssumption
<1>3. Len(d) = k
  BY <1>1, <1>2
<1> QED
  BY <1>1, <1>3

\* What the RAM list maps names to.
LEMMA FilesType ==
    ASSUME NEW f \in Files
    PROVE  DOMAIN f \subseteq Names /\ \A n \in DOMAIN f : f[n] \in Data
BY DEF Files

\* Writing a file leaves a well-formed RAM list.
LEMMA FilesWith ==
    ASSUME NEW f \in Files, NEW n \in Names, NEW d \in Data
    PROVE  With(f, n, d) \in Files
<1>1. DOMAIN f \cup {n} \in SUBSET Names
  BY FilesType
<1>2. With(f, n, d) \in [DOMAIN f \cup {n} -> Data]
  BY FilesType DEF With
<1> QED
  BY <1>1, <1>2 DEF Files

\* Deleting a file leaves a well-formed RAM list.
LEMMA FilesWithout ==
    ASSUME NEW f \in Files, NEW n \in Names
    PROVE  Without(f, n) \in Files
<1>1. DOMAIN f \ {n} \in SUBSET Names
  BY FilesType
<1>2. Without(f, n) \in [DOMAIN f \ {n} -> Data]
  BY FilesType DEF Without
<1> QED
  BY <1>1, <1>2 DEF Files

\* The empty RAM list.
LEMMA NoFilesType == NoFiles \in Files
<1>1. NoFiles \in [{} -> Data]
  BY DEF NoFiles
<1> QED
  BY <1>1 DEF Files

\* The fields of a table entry, whichever of the two kinds it is.
LEMMA EntryType ==
    ASSUME NEW e \in Entries
    PROVE  /\ e.active \in BOOLEAN
           /\ e.active => e.name \in Names
           /\ e.start \in 0..TotalBlocks /\ e.len \in 0..MaxLen
<1>1. CASE e = Inactive
  BY <1>1, SizesAssumption DEF Inactive
<1>2. CASE e # Inactive
  BY <1>2, Zenon DEF Entries
<1> QED
  BY <1>1, <1>2

\* The blocks of an active entry that ends on the disk hold a file.
LEMMA FileAtType ==
    ASSUME TypeOK, NEW i \in Slots, table[i].active,
           table[i].start + table[i].len <= TotalBlocks
    PROVE  FileAt(i) \in Data
<1>1. table[i].start \in Nat /\ table[i].len \in 0..MaxLen
  BY EntryType, SizesAssumption DEF TypeOK
<1>2. \A k \in 1..table[i].len : table[i].start + k - 1 \in 0..TotalBlocks - 1
  BY <1>1, SizesAssumption
<1>3. FileAt(i) \in [1..table[i].len -> Blk]
  BY <1>2 DEF FileAt, TypeOK
<1> QED
  BY <1>1, <1>3 DEF Data

\* load_filesystem puts well-formed files into RAM, however far it gets.
LEMMA LoadedType ==
    ASSUME TypeOK, NoSharedBlocks, NEW i
    PROVE  LoadedBelow(i) \in Files
<1> DEFINE read == {j \in Slots : j < i /\ table[j].active}
           names == {table[j].name : j \in read}
<1>1. names \in SUBSET Names
  BY EntryType DEF TypeOK
<1>2. \A n \in names : FileAt(Greatest({j \in read : table[j].name = n})) \in Data
  <2> SUFFICES ASSUME NEW n \in names
               PROVE  FileAt(Greatest({j \in read : table[j].name = n})) \in Data
    BY Zenon
  <2> DEFINE S == {j \in read : table[j].name = n}
  <2>1. S # {} /\ S \in SUBSET (0..MaxFiles)
    BY SizesAssumption DEF Slots
  <2>2. Greatest(S) \in S
    BY <2>1, GreatestIsIn, SizesAssumption, Zenon
  <2> QED
    BY <2>2, FileAtType DEF NoSharedBlocks
<1>3. LoadedBelow(i) \in [names -> Data]
  BY <1>2 DEF LoadedBelow
<1> QED
  BY <1>1, <1>3, Zenon DEF Files

-----------------------------------------------------------------------------
(* The inductive invariant. *)

\* An operation that saves a file has the file; from the moment it has chosen
\* its blocks until the entry is written, no other entry claims one of them.
FlightOK ==
    /\ op.todo \subseteq DOMAIN ram
    /\ pc \in {"plan", "data", "entry"} => op.name \in DOMAIN ram
    /\ pc \in {"data", "entry"} => Fits(op.start, Len(ram[op.name]), {op.slot})
    /\ pc = "data" => op.pos < Len(ram[op.name])
    /\ pc \in {"off", "idle"} => op = NoOp

IInv == TypeOK /\ NoSharedBlocks /\ FlightOK

-----------------------------------------------------------------------------
(* The allocator. *)

\* What it means that another slot's block is used.
LEMMA UsedByOther ==
    ASSUME NEW i \in Slots, NEW j \in Slots, i # j, table[j].active,
           NEW b \in BlocksOf(j)
    PROVE  b \in UsedBlocks({i})
BY DEF UsedBlocks

\* Free space stays free when one more entry is disregarded.
LEMMA FitsSkipsMore ==
    ASSUME NEW s, NEW count, NEW i, Fits(s, count, {})
    PROVE  Fits(s, count, {i})
BY DEF Fits, UsedBlocks

\* A file may be rewritten over its own blocks.
LEMMA InPlaceFits ==
    ASSUME TypeOK, NoSharedBlocks, NEW i \in Slots, table[i].active,
           NEW count \in Nat, count <= table[i].len
    PROVE  Fits(table[i].start, count, {i})
<1>1. table[i].start \in Nat /\ table[i].len \in Nat
  BY EntryType, SizesAssumption DEF TypeOK
<1>2. table[i].start + count <= TotalBlocks
  BY <1>1, SizesAssumption DEF NoSharedBlocks
<1>3. ASSUME NEW j \in Slots, j # i, table[j].active, NEW b \in BlocksOf(j)
      PROVE  b < table[i].start \/ table[i].start + count <= b
  <2>1. b \in 0..TotalBlocks - 1 /\ b \notin BlocksOf(i)
    BY <1>3 DEF BlocksOf, NoSharedBlocks
  <2> QED
    BY <2>1, <1>1, SizesAssumption DEF BlocksOf
<1> QED
  BY <1>2, <1>3 DEF Fits, UsedBlocks

\* Where upsert_file_entry puts a file, no other entry claims a block.
LEMMA PlaceFits ==
    ASSUME TypeOK, NoSharedBlocks, NEW n \in DOMAIN ram, PlacesFor(n) # {}
    PROVE  /\ Least(TargetSlots(n)) \in Slots
           /\ Least(PlacesFor(n)) \in 0..TotalBlocks
           /\ Fits(Least(PlacesFor(n)), Len(ram[n]), {Least(TargetSlots(n))})
<1> DEFINE i == Least(TargetSlots(n))
           s == Least(PlacesFor(n))
           size == Len(ram[n])
<1>1. size \in Nat
  BY FilesType, DataLength, SizesAssumption DEF TypeOK
<1>2. TargetSlots(n) # {} /\ PlacesFor(n) = Starts(i, n)
  BY DEF PlacesFor
<1>3. TargetSlots(n) \in SUBSET Nat
  BY SizesAssumption DEF TargetSlots, Named, Unused, Slots
<1>4. i \in TargetSlots(n)
  BY <1>2, <1>3, LeastIsIn
<1>5. i \in Slots
  BY <1>4 DEF TargetSlots, Named, Unused
<1> HIDE DEF i
<1>6. Starts(i, n) \in SUBSET (0..TotalBlocks)
  BY <1>5, EntryType, SizesAssumption DEF Starts, FitsAt, TypeOK
<1>7. s \in Starts(i, n)
  BY <1>2, <1>6, LeastIsIn, SizesAssumption
<1> HIDE DEF s
<1>8. \A t \in Starts(i, n) : Fits(t, size, {i})
  <2>1. CASE size = 0
    <3>1. Fits(0, 0, {i})
      BY SizesAssumption DEF Fits, UsedBlocks, BlocksOf
    <3> QED
      BY <2>1, <3>1 DEF Starts
  <2>2. CASE size # 0 /\ i \in Named(n) /\ table[i].len >= size
    BY <1>1, <1>5, <2>2, InPlaceFits, EntryType, SizesAssumption, Zenon
       DEF Starts, Named, TypeOK
  <2>3. CASE size # 0 /\ i \in Named(n) /\ ~(table[i].len >= size)
    BY <2>3 DEF Starts, FitsAt
  <2>4. CASE size # 0 /\ i \notin Named(n)
    BY <2>4, FitsSkipsMore, Zenon DEF Starts, FitsAt
  <2> QED
    BY <2>1, <2>2, <2>3, <2>4, Zenon
<1> QED
  BY <1>2, <1>5, <1>6, <1>7, <1>8, Zenon DEF i, s

-----------------------------------------------------------------------------
(* The steps. *)

\* The inactive entry and the idle operation.
LEMMA TableConstants == Inactive \in Entries /\ NoOp \in Ops
BY SizesAssumption DEF Entries, Ops, NoOp, Slots

\* sync_filesystem goes on with a file of the RAM list, or ends.
LEMMA NextFileType ==
    ASSUME op \in Ops, ram \in Files, NEW todo, todo \subseteq DOMAIN ram, NextFile(todo)
    PROVE  /\ op' \in Ops /\ pc' \in {"plan", "refresh"}
           /\ op'.todo \subseteq DOMAIN ram
           /\ pc' = "plan" => op'.name \in DOMAIN ram
<1>1. todo \in SUBSET Names
  BY FilesType
<1>2. CASE todo = {}
  BY <1>2, Zenon DEF NextFile, Ops
<1>3. CASE todo # {}
  <2>1. PICK m \in todo : m = Least(todo)
    BY <1>1, <1>3, LeastIsIn, NamesAssumption
  <2>2. pc' = "plan" /\ op' = [op EXCEPT !.name = m, !.todo = todo \ {m}]
    BY <1>3, <2>1 DEF NextFile
  <2>3. op' \in Ops
    BY <1>1, <2>2, Zenon DEF Ops
  <2> QED
    BY <2>2, <2>3 DEF Ops
<1> QED
  BY <1>2, <1>3

\* A new operation has no files left to do.
LEMMA StartType ==
    ASSUME NEW k \in {"save", "delete", "sync", "format", "init"},
           NEW n \in Names \cup {0}
    PROVE  /\ Start(k, n) \in Ops /\ Start(k, n).todo = {}
           /\ Start(k, n).name = n
BY TableConstants, Zenon DEF Start, Ops, NoOp

\* NoSharedBlocks depends on the file table alone.
LEMMA SameTable ==
    ASSUME NoSharedBlocks, UNCHANGED table
    PROVE  NoSharedBlocks'
BY DEF NoSharedBlocks, BlocksOf

\* Clearing an entry can only free blocks.
LEMMA ClearedSlot ==
    ASSUME TypeOK, NoSharedBlocks, NEW i,
           table' = [table EXCEPT ![i] = Inactive]
    PROVE  NoSharedBlocks' /\ table' \in [Slots -> Entries]
<1>1. table' \in [Slots -> Entries]
  BY TableConstants, Zenon DEF TypeOK
<1>2. \A j \in Slots : table'[j].active => table'[j] = table[j]
  BY DEF TypeOK, Inactive
<1> QED
  BY <1>1, <1>2 DEF NoSharedBlocks, BlocksOf

\* With no operation in progress FlightOK says nothing.
LEMMA AtRest ==
    ASSUME pc' \in {"off", "idle"}, op' = NoOp
    PROVE  FlightOK'
BY DEF FlightOK, NoOp

\* An operation that fails leaves the disk as it is.
LEMMA GiveUpInv ==
    ASSUME IInv, GiveUp
    PROVE  IInv'
BY SameTable, AtRest, TableConstants DEF IInv, GiveUp, TypeOK

\* upsert_file_entry chooses blocks that no other entry claims.
LEMMA PlanInv ==
    ASSUME IInv, Plan
    PROVE  IInv'
<1>1. CASE PlacesFor(op.name) = {}
  BY <1>1, GiveUpInv DEF Plan
<1>2. CASE PlacesFor(op.name) # {}
  <2>1. PICK i \in Slots, s \in 0..TotalBlocks :
           /\ i = Least(TargetSlots(op.name)) /\ s = Least(PlacesFor(op.name))
           /\ Fits(s, Len(ram[op.name]), {i})
    BY <1>2, PlaceFits, Zenon DEF IInv, FlightOK, Plan
  <2>2. /\ op' = [op EXCEPT !.slot = i, !.start = s, !.pos = 0]
        /\ pc' = IF Len(ram[op.name]) = 0 THEN "entry" ELSE "data"
        /\ UNCHANGED <<ram, mounted, super, table, blocks, behind>>
    BY <1>2, <2>1 DEF Plan
  <2>3. TypeOK'
    BY <2>2, Zenon DEF IInv, TypeOK, Ops
  <2>4. Len(ram[op.name]) \in Nat /\ op.name \in DOMAIN ram
    BY FilesType, DataLength, SizesAssumption DEF IInv, TypeOK, FlightOK, Plan
  <2>5. FlightOK'
    <3>1. op'.name = op.name /\ op'.todo = op.todo /\ op'.slot = i
             /\ op'.start = s /\ op'.pos = 0
      BY <2>2 DEF IInv, TypeOK, Ops
    <3>2. Fits(op.start, Len(ram[op.name]), {op.slot})'
      BY <2>1, <2>2, <3>1 DEF Fits, UsedBlocks, BlocksOf
    <3> QED
      BY <2>2, <2>4, <3>1, <3>2 DEF IInv, FlightOK
  <2> QED
    BY <2>2, <2>3, <2>5, SameTable DEF IInv
<1> QED
  BY <1>1, <1>2

\* write_file_data leaves the table alone.
LEMMA WriteBlockInv ==
    ASSUME IInv, WriteBlock
    PROVE  IInv'
<1>1. /\ op.name \in DOMAIN ram /\ op.pos \in Nat /\ op.start \in Nat
      /\ ram[op.name] \in [1..Len(ram[op.name]) -> Blk]
      /\ Len(ram[op.name]) \in Nat /\ op.pos < Len(ram[op.name])
  BY FilesType, DataLength, SizesAssumption
     DEF IInv, TypeOK, FlightOK, WriteBlock, Ops
<1>2. ram[op.name][op.pos + 1] \in Blk
  BY <1>1
<1>3. /\ op'.name = op.name /\ op'.todo = op.todo /\ op'.slot = op.slot
      /\ op'.start = op.start /\ op'.pos = op.pos + 1 /\ op' \in Ops
  <2>1. op \in Ops
    BY DEF IInv, TypeOK
  <2>2. op' = [op EXCEPT !.pos = op.pos + 1]
    BY DEF WriteBlock
  <2>3. op.pos + 1 \in Nat
    BY <1>1
  <2> QED
    BY <2>1, <2>2, <2>3 DEF Ops
<1>4. TypeOK'
  BY <1>2, <1>3, Zenon DEF IInv, TypeOK, WriteBlock
<1>5. Fits(op.start, Len(ram[op.name]), {op.slot})'
  BY <1>3 DEF IInv, FlightOK, WriteBlock, Fits, UsedBlocks, BlocksOf
<1>6. ram' = ram /\ pc' = IF op.pos + 1 = Len(ram[op.name]) THEN "entry" ELSE "data"
  BY DEF WriteBlock
<1>7. pc' = "data" => op'.pos < Len(ram'[op'.name])
  BY <1>1, <1>3, <1>6
<1>8. FlightOK'
  BY <1>1, <1>3, <1>5, <1>6, <1>7 DEF IInv, FlightOK
<1> QED
  BY <1>4, <1>8, SameTable DEF IInv, WriteBlock

\* upsert_file_entry's entry write: the blocks it claims are nobody else's.
LEMMA WriteEntryInv ==
    ASSUME IInv, WriteEntry
    PROVE  IInv'
<1> DEFINE e == [active |-> TRUE, name |-> StoredName[op.name],
                 start |-> op.start, len |-> Len(ram[op.name])]
<1>1. /\ op.name \in Names /\ op.slot \in Slots /\ op.start \in 0..TotalBlocks
      /\ Len(ram[op.name]) \in 0..MaxLen
      /\ Fits(op.start, Len(ram[op.name]), {op.slot})
      /\ op.todo \subseteq DOMAIN ram
  BY FilesType, DataLength DEF IInv, TypeOK, FlightOK, WriteEntry, Ops
<1>2. e \in Entries
  BY <1>1, StoredAssumption DEF Entries
<1>3. /\ table' = [table EXCEPT ![op.slot] = e]
      /\ UNCHANGED <<ram, mounted, super, blocks, behind>>
      /\ NextFile(op.todo)
  BY DEF WriteEntry
<1>4. /\ op' \in Ops /\ pc' \in {"plan", "refresh"}
      /\ op'.todo \subseteq DOMAIN ram
      /\ pc' = "plan" => op'.name \in DOMAIN ram
  BY <1>1, <1>3, NextFileType DEF IInv, TypeOK
<1>5. /\ table' \in [Slots -> Entries] /\ table'[op.slot] = e
      /\ \A j \in Slots \ {op.slot} : table'[j] = table[j]
  BY <1>1, <1>2, <1>3 DEF IInv, TypeOK
<1>6. TypeOK'
  BY <1>3, <1>4, <1>5 DEF IInv, TypeOK
<1>7. FlightOK'
  BY <1>3, <1>4 DEF FlightOK
<1>8. \A j \in Slots \ {op.slot} : BlocksOf(j)' = BlocksOf(j)
  BY <1>5 DEF BlocksOf
<1>0. PICK z \in Slots : z = op.slot
  BY <1>1
<1>9. ASSUME NEW b \in BlocksOf(z)', NEW j \in Slots \ {op.slot},
             table[j].active
      PROVE  b \notin BlocksOf(j)
  <2>1. b \in 0..TotalBlocks - 1 /\ op.start <= b
           /\ b < op.start + Len(ram[op.name])
    BY <1>0, <1>5, <1>9 DEF BlocksOf
  <2>2. b \notin UsedBlocks({op.slot})
    <3>1. \A c \in UsedBlocks({op.slot}) :
             c < op.start \/ op.start + Len(ram[op.name]) <= c
      BY <1>1 DEF Fits
    <3> HIDE DEF e
    <3>2. ~(b < op.start \/ op.start + Len(ram[op.name]) <= b)
      BY <1>1, <2>1, SizesAssumption
    <3> QED
      BY <3>1, <3>2, Zenon
  <2> QED
    BY <1>1, <1>9, <2>2, UsedByOther
<1>10. NoSharedBlocks'
  <2>1. op.start + Len(ram[op.name]) <= TotalBlocks
    BY <1>1 DEF Fits
  <2>2. \A i \in Slots : table'[i].active
                            => table'[i].start + table'[i].len <= TotalBlocks
    BY <1>5, <2>1 DEF IInv, NoSharedBlocks
  <2>3. ASSUME NEW i \in Slots, NEW j \in Slots, i # j,
               table'[i].active, table'[j].active
        PROVE  BlocksOf(i)' \cap BlocksOf(j)' = {}
    <3>1. CASE i = op.slot
      <4>1. table[j].active /\ j \in Slots \ {op.slot}
        BY <1>5, <2>3, <3>1
      <4>2. BlocksOf(j)' = BlocksOf(j)
        BY <1>8, <4>1
      <4> QED
        BY <1>0, <1>9, <3>1, <4>1, <4>2
    <3>2. CASE j = op.slot
      <4>1. table[i].active /\ i \in Slots \ {op.slot}
        BY <1>5, <2>3, <3>2
      <4>2. BlocksOf(i)' = BlocksOf(i)
        BY <1>8, <4>1
      <4> QED
        BY <1>0, <1>9, <3>2, <4>1, <4>2
    <3>3. CASE i # op.slot /\ j # op.slot
      BY <1>5, <1>8, <2>3, <3>3 DEF IInv, NoSharedBlocks
    <3> QED
      BY <3>1, <3>2, <3>3
  <2> QED
    BY <2>2, <2>3 DEF NoSharedBlocks
<1> QED
  BY <1>6, <1>7, <1>10 DEF IInv

\* delete_file_from_disk clears one entry.
LEMMA UnlinkInv ==
    ASSUME IInv, Unlink
    PROVE  IInv'
<1>1. CASE Named(op.name) = {}
  BY <1>1, GiveUpInv DEF Unlink
<1>2. CASE Named(op.name) # {}
  <2>1. /\ table' = [table EXCEPT ![Least(Named(op.name))] = Inactive]
        /\ pc' = "refresh" /\ op' = [op EXCEPT !.name = 0]
        /\ UNCHANGED <<ram, mounted, super, blocks, behind>>
    BY <1>2 DEF Unlink
  <2>2. NoSharedBlocks' /\ table' \in [Slots -> Entries]
    BY <2>1, ClearedSlot, Zenon DEF IInv
  <2>3. op' \in Ops /\ op'.todo = op.todo
    BY <2>1 DEF IInv, TypeOK, Ops
  <2>4. TypeOK'
    BY <2>1, <2>2, <2>3 DEF IInv, TypeOK
  <2>5. FlightOK'
    BY <2>1, <2>3 DEF IInv, FlightOK
  <2> QED
    BY <2>2, <2>4, <2>5 DEF IInv
<1> QED
  BY <1>1, <1>2

\* sync_filesystem's first loop clears entries, then picks the first file.
LEMMA PruneInv ==
    ASSUME IInv, Prune
    PROVE  IInv'
<1>1. UNCHANGED <<ram, mounted, super, blocks, behind>> /\ pc = "prune"
  BY DEF Prune
<1>2. CASE Stale # {}
  <2>1. /\ table' = [table EXCEPT ![Least(Stale)] = Inactive]
        /\ UNCHANGED <<pc, op>>
    BY <1>2 DEF Prune
  <2>2. NoSharedBlocks' /\ table' \in [Slots -> Entries]
    BY <2>1, ClearedSlot, Zenon DEF IInv
  <2>3. TypeOK'
    BY <1>1, <2>1, <2>2 DEF IInv, TypeOK
  <2>4. FlightOK'
    BY <1>1, <2>1 DEF IInv, FlightOK
  <2> QED
    BY <2>2, <2>3, <2>4 DEF IInv
<1>3. CASE Stale = {}
  <2>1. NextFile(DOMAIN ram) /\ UNCHANGED table
    BY <1>3 DEF Prune
  <2>2. /\ op' \in Ops /\ pc' \in {"plan", "refresh"}
        /\ op'.todo \subseteq DOMAIN ram
        /\ pc' = "plan" => op'.name \in DOMAIN ram
    BY <2>1, NextFileType DEF IInv, TypeOK
  <2>3. TypeOK'
    BY <1>1, <2>1, <2>2 DEF IInv, TypeOK
  <2>4. FlightOK'
    BY <1>1, <2>2 DEF FlightOK
  <2> QED
    BY <2>1, <2>3, <2>4, SameTable DEF IInv
<1> QED
  BY <1>2, <1>3

\* format_disk clears the entries one by one.
LEMMA EraseInv ==
    ASSUME IInv, Erase
    PROVE  IInv'
<1>1. /\ table' = [table EXCEPT ![op.pos] = Inactive]
      /\ UNCHANGED <<ram, super, blocks>> /\ pc = "erase"
  BY DEF Erase
<1>2. NoSharedBlocks' /\ table' \in [Slots -> Entries]
  BY <1>1, ClearedSlot, Zenon DEF IInv
<1>3. CASE op.pos + 1 < MaxFiles
  <2>1. op' = [op EXCEPT !.pos = op.pos + 1] /\ UNCHANGED <<pc, mounted, behind>>
    BY <1>3, SizesAssumption DEF Erase, IInv, TypeOK, Ops
  <2>2. op' \in Ops /\ op'.todo = op.todo
    BY <2>1 DEF IInv, TypeOK, Ops
  <2>3. TypeOK'
    BY <1>1, <1>2, <2>1, <2>2 DEF IInv, TypeOK
  <2>4. FlightOK'
    BY <1>1, <2>1, <2>2 DEF IInv, FlightOK
  <2> QED
    BY <1>2, <2>3, <2>4 DEF IInv
<1>4. CASE op.pos + 1 = MaxFiles
  <2>1. pc' = "idle" /\ op' = NoOp /\ mounted' = TRUE /\ behind' = (op.kind = "format")
    BY <1>4, SizesAssumption DEF Erase, IInv, TypeOK, Ops
  <2>2. TypeOK'
    BY <1>1, <1>2, <2>1, TableConstants DEF IInv, TypeOK
  <2> QED
    BY <1>2, <2>1, <2>2, AtRest DEF IInv
<1> QED
  BY <1>3, <1>4 DEF Erase

\* A change of the RAM list, with the operation it starts on a mounted disk.
LEMMA WriteInv ==
    ASSUME IInv, NEW n \in Names, NEW d \in Data, Write(n, d)
    PROVE  IInv'
<1>1. ram' = With(ram, n, d) /\ UNCHANGED <<mounted, table, blocks, behind>>
         /\ pc = "idle" /\ op = NoOp
  BY DEF Write, Begin, IInv, FlightOK
<1>2. ram' \in Files /\ n \in DOMAIN ram'
  BY <1>1, FilesWith, SMTT(60) DEF IInv, TypeOK, With
<1>3. CASE mounted
  <2>1. super' = "dirty" /\ pc' = "plan" /\ op' = Start("save", n)
    BY <1>3 DEF Write, Begin
  <2>2. op' \in Ops /\ op'.todo = {} /\ op'.name = n
    BY <2>1, StartType
  <2>3. TypeOK'
    BY <1>1, <1>2, <2>1, <2>2 DEF IInv, TypeOK
  <2>4. FlightOK'
    BY <1>2, <2>1, <2>2 DEF FlightOK
  <2> QED
    BY <1>1, <2>3, <2>4, SameTable DEF IInv
<1>4. CASE ~mounted
  <2>1. UNCHANGED <<super, pc, op>>
    BY <1>4 DEF Write
  <2>2. TypeOK'
    BY <1>1, <1>2, <2>1 DEF IInv, TypeOK
  <2> QED
    BY <1>1, <2>1, <2>2, SameTable, AtRest DEF IInv
<1> QED
  BY <1>3, <1>4

\* delete_as on a mounted disk starts delete_file_from_disk.
LEMMA DeleteInv ==
    ASSUME IInv, NEW n \in Names, Delete(n)
    PROVE  IInv'
<1>1. ram' = Without(ram, n) /\ UNCHANGED <<mounted, table, blocks, behind>>
         /\ pc = "idle" /\ op = NoOp
  BY DEF Delete, Begin, IInv, FlightOK
<1>2. ram' \in Files
  BY <1>1, FilesWithout DEF IInv, TypeOK
<1>3. CASE mounted
  <2>1. super' = "dirty" /\ pc' = "unlink" /\ op' = Start("delete", n)
    BY <1>3 DEF Delete, Begin
  <2>2. op' \in Ops /\ op'.todo = {}
    BY <2>1, StartType
  <2>3. TypeOK'
    BY <1>1, <1>2, <2>1, <2>2 DEF IInv, TypeOK
  <2>4. FlightOK'
    BY <2>1, <2>2 DEF FlightOK
  <2> QED
    BY <1>1, <2>3, <2>4, SameTable DEF IInv
<1>4. CASE ~mounted
  <2>1. UNCHANGED <<super, pc, op>>
    BY <1>4 DEF Delete
  <2>2. TypeOK'
    BY <1>1, <1>2, <2>1 DEF IInv, TypeOK
  <2> QED
    BY <1>1, <2>1, <2>2, SameTable, AtRest DEF IInv
<1> QED
  BY <1>3, <1>4

\* The operations that begin by writing the superblock only.
LEMMA BeginningInv ==
    ASSUME IInv, SyncAll \/ FormatActive \/ BootFormat
    PROVE  IInv'
<1>1. PICK k \in {"sync", "format", "init"} : op' = Start(k, 0)
  BY DEF SyncAll, Begin, FormatActive, BootFormat
<1>2. op' \in Ops /\ op'.todo = {}
  BY <1>1, StartType
<1>3. /\ UNCHANGED <<ram, mounted, table, blocks>> /\ pc' \in {"prune", "erase"}
      /\ super' \in {"clean", "dirty"} /\ behind' \in {behind, TRUE}
  BY Zenon DEF SyncAll, Begin, FormatActive, BootFormat
<1>4. TypeOK'
  BY <1>2, <1>3, Zenon DEF IInv, TypeOK
<1>5. FlightOK'
  BY <1>2, <1>3 DEF FlightOK
<1> QED
  BY <1>3, <1>4, <1>5, SameTable DEF IInv

\* Ends of operations, and what the machine does.
LEMMA RefreshInv ==
    ASSUME IInv, Refresh
    PROVE  IInv'
<1>1. TypeOK'
  BY TableConstants, Zenon DEF IInv, TypeOK, Refresh
<1> QED
  BY <1>1, SameTable, AtRest DEF IInv, Refresh

\* disk::init loads the files and ends with no operation in progress.
LEMMA BootInv ==
    ASSUME IInv, BootLoad \/ BootError
    PROVE  IInv'
<1>1. PICK i : ram' = LoadedBelow(i)
  BY DEF BootLoad, BootError, OnDisk
<1>2. ram' \in Files
  BY <1>1, LoadedType DEF IInv
<1>3. /\ UNCHANGED <<table, blocks, op>> /\ pc = "off" /\ pc' = "idle"
      /\ super' = "clean"
  BY DEF BootLoad, BootError
<1>4. mounted' \in BOOLEAN /\ behind' \in BOOLEAN
  BY Zenon DEF BootLoad, BootError, LoadsFully, IInv, TypeOK
<1>5. TypeOK'
  BY <1>2, <1>3, <1>4 DEF IInv, TypeOK
<1>6. op' = NoOp
  BY <1>3 DEF IInv, FlightOK
<1> QED
  BY <1>3, <1>5, <1>6, SameTable, AtRest DEF IInv

\* A crash keeps the disk and nothing else.
LEMMA CrashInv ==
    ASSUME IInv, Crash
    PROVE  IInv'
<1>1. TypeOK'
  BY TableConstants, NoFilesType, Zenon DEF IInv, TypeOK, Crash
<1> QED
  BY <1>1, SameTable, AtRest DEF IInv, Crash

-----------------------------------------------------------------------------
(* The theorems. *)

\* A machine with a blank disk satisfies the invariant.
LEMMA InitInv == Init => IInv
<1> SUFFICES ASSUME Init PROVE IInv
  OBVIOUS
<1>1. TypeOK
  BY NoFilesType, TableConstants, Zenon DEF Init, TypeOK
<1>2. NoSharedBlocks
  BY DEF Init, NoSharedBlocks, Inactive
<1>3. FlightOK
  BY DEF Init, FlightOK, NoOp
<1> QED
  BY <1>1, <1>2, <1>3 DEF IInv

\* Every step of the kernel and of the machine keeps the invariant.
LEMMA StepInv == IInv /\ [Next]_vars => IInv'
<1> SUFFICES ASSUME IInv, [Next]_vars PROVE IInv'
  OBVIOUS
<1>1. CASE UNCHANGED vars
  BY <1>1 DEF IInv, TypeOK, NoSharedBlocks, FlightOK, Fits, UsedBlocks,
              BlocksOf, vars
<1>2. CASE Next
  BY <1>2, WriteInv, DeleteInv, BeginningInv, PlanInv, WriteBlockInv,
     WriteEntryInv, UnlinkInv, PruneInv, RefreshInv, EraseInv, GiveUpInv,
     BootInv, CrashInv
     DEF Next, DeviceError
<1> QED
  BY <1>1, <1>2

\* The inductive invariant holds always.
LEMMA Invariance == Spec => []IInv
BY InitInv, StepInv, PTL DEF Spec

\* Every variable keeps its type: in particular no entry is ever half
\* written into the table and no block number leaves the disk.
THEOREM TypesHold == Spec => []TypeOK
BY Invariance, PTL DEF IInv

\* On a disk of any size, with any device errors and a crash before any
\* sector, no block is ever claimed by two entries of the file table.
THEOREM BlocksNeverShared == Spec => []NoSharedBlocks
BY Invariance, PTL DEF IInv

\* The single step behind OthersUntouched: write_file_data stays inside the
\* blocks that upsert_file_entry chose.
LEMMA StepTouchesOwnFile ==
    ASSUME IInv, [Next]_vars, NEW i \in Slots, table[i].active,
           table'[i] = table[i], ~(pc = "data" /\ op.slot = i)
    PROVE  FileAt(i)' = FileAt(i)
<1>1. CASE blocks' = blocks
  BY <1>1 DEF FileAt
<1>2. CASE WriteBlock
  <2>1. /\ op.start \in Nat /\ op.pos \in Nat /\ op.slot \in Slots /\ op.slot # i
        /\ op.pos < Len(ram[op.name]) /\ Len(ram[op.name]) \in Nat
        /\ Fits(op.start, Len(ram[op.name]), {op.slot})
    BY <1>2, FilesType, DataLength, SizesAssumption
       DEF WriteBlock, IInv, TypeOK, FlightOK, Ops
  <2>2. /\ table[i].start \in Nat /\ table[i].len \in Nat
        /\ table[i].start + table[i].len <= TotalBlocks
    BY EntryType, SizesAssumption DEF IInv, TypeOK, NoSharedBlocks
  <2>3. ASSUME NEW k \in 1..table[i].len
        PROVE  blocks'[table[i].start + k - 1] = blocks[table[i].start + k - 1]
    <3> DEFINE b == table[i].start + k - 1
    <3>1. b \in 0..TotalBlocks - 1 /\ table[i].start <= b
             /\ b < table[i].start + table[i].len
      BY <2>2, SizesAssumption
    <3>2. b \in UsedBlocks({op.slot})
      BY <2>1, <3>1, UsedByOther DEF BlocksOf
    <3>3. b < op.start \/ op.start + Len(ram[op.name]) <= b
      BY <2>1, <3>2 DEF Fits
    <3>4. b # op.start + op.pos
      BY <2>1, <3>1, <3>3, SizesAssumption
    <3> HIDE DEF b
    <3>5. blocks'[b] = blocks[b]
      BY <1>2, <3>1, <3>4 DEF WriteBlock, IInv, TypeOK
    <3> QED
      BY <3>5 DEF b
  <2> QED
    BY <2>3 DEF FileAt
<1>3. blocks' = blocks \/ WriteBlock
  BY Zenon DEF Next, vars, Write, Delete, SyncAll, FormatActive, GiveUp, Plan,
         WriteEntry, Unlink, Prune, Refresh, Erase, DeviceError, BootFormat,
         BootLoad, BootError, Crash
<1> QED
  BY <1>1, <1>2, <1>3

\* However large the disk and the files, a step that writes data changes no
\* block of a file other than the one it saves.
THEOREM FilesKeepTheirBlocks == Spec => OthersUntouched
<1>1. IInv /\ [Next]_vars =>
        [\A i \in Slots : table[i].active /\ table'[i] = table[i]
            => FileAt(i)' = FileAt(i) \/ (pc = "data" /\ op.slot = i)]_vars
  BY StepTouchesOwnFile
<1> QED
  BY <1>1, Invariance, PTL DEF Spec, OthersUntouched

-----------------------------------------------------------------------------
(* Counting blocks. *)

\* The blocks of a list of files, each tagged with the name of its file.
CellsOf(files) == UNION {{n} \X DOMAIN files[n] : n \in DOMAIN files}

\* The blocks of the disk that entries count as theirs, tagged in the same way.
Cells ==
    UNION {{table[i].name} \X (1..table[i].len) :
              i \in {j \in Slots : table[j].active}}

\* No two entries carry the same name.
OneEntryEach ==
    \A i, j \in Slots : table[i].active /\ table[j].active
                          /\ table[i].name = table[j].name => i = j

\* used_bytes of a finite list is a number of blocks.
LEMMA CellsFinite ==
    ASSUME NEW f \in Files, IsFiniteSet(DOMAIN f)
    PROVE  /\ IsFiniteSet(CellsOf(f))
           /\ Used(f) = Cardinality(CellsOf(f)) /\ Used(f) \in Nat
<1>1. IsFiniteSet(1..MaxLen)
  BY FS_Interval, SizesAssumption
<1>2. IsFiniteSet((DOMAIN f) \X (1..MaxLen))
  BY <1>1, FS_Product, Zenon
<1>3. \A n \in DOMAIN f : DOMAIN f[n] \subseteq 1..MaxLen
  <2> SUFFICES ASSUME NEW n \in DOMAIN f PROVE DOMAIN f[n] \subseteq 1..MaxLen
    OBVIOUS
  <2>1. Len(f[n]) \in 0..MaxLen /\ f[n] \in [1..Len(f[n]) -> Blk]
    BY FilesType, DataLength, Zenon
  <2>2. DOMAIN f[n] = 1..Len(f[n])
    BY <2>1, Zenon
  <2>3. 1..Len(f[n]) \subseteq 1..MaxLen
    BY <2>1, SizesAssumption
  <2> QED
    BY <2>2, <2>3, Zenon
<1>4. CellsOf(f) \in SUBSET ((DOMAIN f) \X (1..MaxLen))
  <2> SUFFICES ASSUME NEW c \in CellsOf(f) PROVE c \in (DOMAIN f) \X (1..MaxLen)
    BY Zenon
  <2>1. PICK n \in DOMAIN f : c \in {n} \X DOMAIN f[n]
    BY Zenon DEF CellsOf
  <2> QED
    BY <1>3, <2>1, Zenon
<1>5. IsFiniteSet(CellsOf(f))
  BY <1>2, <1>4, FS_Subset, Zenon
<1>6. Used(f) = Cardinality(CellsOf(f))
  BY DEF Used, CellsOf
<1> QED
  BY <1>5, <1>6, FS_CardinalityType

\* A file's blocks are as many as its data is long.
LEMMA FileCells ==
    ASSUME NEW n, NEW d \in Data
    PROVE  IsFiniteSet({n} \X DOMAIN d) /\ Cardinality({n} \X DOMAIN d) = Len(d)
<1>1. Len(d) \in Nat /\ DOMAIN d = 1..Len(d)
  BY DataLength, SizesAssumption
<1>2. IsFiniteSet(DOMAIN d) /\ Cardinality(DOMAIN d) = Len(d)
  <2>1. PICK k \in Nat : k = Len(d)
    BY <1>1, Zenon
  <2>2. IsFiniteSet(1..k) /\ Cardinality(1..k) = IF 1 > k THEN 0 ELSE k - 1 + 1
    BY FS_Interval
  <2>3. Cardinality(1..k) = k
    BY <2>2
  <2> QED
    BY <1>1, <2>1, <2>2, <2>3, Zenon
<1>3. IsFiniteSet({n}) /\ Cardinality({n}) = 1
  BY FS_Singleton, Zenon
<1>4. /\ IsFiniteSet({n} \X DOMAIN d)
      /\ Cardinality({n} \X DOMAIN d) = Cardinality({n}) * Cardinality(DOMAIN d)
  BY <1>2, <1>3, FS_Product, Zenon
<1> QED
  BY <1>1, <1>2, <1>3, <1>4

\* What the limit check of a write adds up is the size of the list after it.
LEMMA RoomForWith ==
    ASSUME NEW f \in Files, IsFiniteSet(DOMAIN f), NEW n \in Names, NEW d \in Data
    PROVE  /\ IsFiniteSet(DOMAIN With(f, n, d))
           /\ IsFiniteSet(DOMAIN Without(f, n))
           /\ Used(With(f, n, d)) = Used(Without(f, n)) + Len(d)
<1> DEFINE g == With(f, n, d)
           h == Without(f, n)
<1>1. DOMAIN g = DOMAIN f \cup {n} /\ DOMAIN h = DOMAIN f \ {n}
  BY DEF With, Without
<1>2. IsFiniteSet(DOMAIN g) /\ IsFiniteSet(DOMAIN h)
  BY <1>1, FS_AddElement, FS_RemoveElement
<1>3. g \in Files /\ h \in Files
  BY FilesWith, FilesWithout
<1>4. g[n] = d /\ \A m \in DOMAIN h : m \in DOMAIN g /\ g[m] = h[m] /\ m # n
  BY DEF With, Without
<1>5. DOMAIN g = DOMAIN h \cup {n}
  BY <1>1
<1> HIDE DEF g, h
<1>6. CellsOf(g) = CellsOf(h) \cup ({n} \X DOMAIN d)
  <2>1. ASSUME NEW c \in CellsOf(g) PROVE c \in CellsOf(h) \cup ({n} \X DOMAIN d)
    <3>1. PICK m \in DOMAIN g : c \in {m} \X DOMAIN g[m]
      BY <2>1, Zenon DEF CellsOf
    <3>2. CASE m = n
      BY <1>4, <3>1, <3>2, Zenon
    <3>3. CASE m # n
      <4>1. m \in DOMAIN h /\ g[m] = h[m]
        BY <1>4, <1>5, <3>3, Zenon
      <4> QED
        BY <3>1, <4>1, Zenon DEF CellsOf
    <3> QED
      BY <3>2, <3>3
  <2>2. ASSUME NEW c \in CellsOf(h) PROVE c \in CellsOf(g)
    <3>1. PICK m \in DOMAIN h : c \in {m} \X DOMAIN h[m]
      BY <2>2, Zenon DEF CellsOf
    <3> QED
      BY <1>4, <3>1, Zenon DEF CellsOf
  <2>3. ASSUME NEW c \in {n} \X DOMAIN d PROVE c \in CellsOf(g)
    <3>1. n \in DOMAIN g /\ c \in {n} \X DOMAIN g[n]
      BY <1>4, <1>5, Zenon
    <3> QED
      BY <3>1, Zenon DEF CellsOf
  <2> QED
    BY <2>1, <2>2, <2>3, Zenon
<1>7. CellsOf(h) \cap ({n} \X DOMAIN d) = {}
  <2> SUFFICES ASSUME NEW c \in CellsOf(h), c \in {n} \X DOMAIN d PROVE FALSE
    BY Zenon
  <2>1. PICK m \in DOMAIN h : c \in {m} \X DOMAIN h[m]
    BY Zenon DEF CellsOf
  <2>2. c[1] = m /\ c[1] = n
    BY <2>1
  <2> QED
    BY <1>4, <2>2, Zenon
<1>8. IsFiniteSet(CellsOf(h)) /\ Used(h) = Cardinality(CellsOf(h)) /\ Used(h) \in Nat
  BY <1>2, <1>3, CellsFinite, Zenon
<1>9. IsFiniteSet({n} \X DOMAIN d) /\ Cardinality({n} \X DOMAIN d) = Len(d)
  BY FileCells, Zenon
<1>10. Cardinality(CellsOf(g)) = Cardinality(CellsOf(h)) + Cardinality({n} \X DOMAIN d)
            - Cardinality(CellsOf(h) \cap ({n} \X DOMAIN d))
  BY <1>6, <1>8, <1>9, FS_Union, Zenon
<1>11. Used(g) = Cardinality(CellsOf(g)) /\ Len(d) \in Nat
  BY <1>2, <1>3, CellsFinite, DataLength, SizesAssumption
<1>12. Used(g) = Used(h) + Len(d)
  <2>1. Cardinality(CellsOf(h) \cap ({n} \X DOMAIN d)) = 0
    BY <1>7, FS_EmptySet, Zenon
  <2>2. Used(g) = Used(h) + Len(d) - 0
    BY <1>8, <1>9, <1>10, <1>11, <2>1, Zenon
  <2> QED
    BY <1>8, <1>11, <2>2
<1> QED
  BY <1>2, <1>12 DEF g, h

\* Fewer blocks count less.
LEMMA FewerCells ==
    ASSUME NEW S, NEW T, IsFiniteSet(T), S \subseteq T, Cardinality(T) <= Capacity
    PROVE  IsFiniteSet(S) /\ Cardinality(S) <= Capacity
<1>1. IsFiniteSet(S) /\ Cardinality(S) <= Cardinality(T)
  BY FS_Subset
<1>2. Cardinality(S) \in Nat /\ Cardinality(T) \in Nat
  BY <1>1, FS_CardinalityType
<1> QED
  BY <1>1, <1>2, SizesAssumption

-----------------------------------------------------------------------------
(* What load_filesystem finds. *)

\* Loading the slots below i gives at most i files, each from a slot.
LEMMA LoadedNames ==
    ASSUME NEW i \in 0..MaxFiles
    PROVE  /\ DOMAIN LoadedBelow(i)
                = {table[j].name : j \in {k \in Slots : k < i /\ table[k].active}}
           /\ IsFiniteSet(DOMAIN LoadedBelow(i))
           /\ Cardinality(DOMAIN LoadedBelow(i)) <= i
<1> DEFINE read == {k \in Slots : k < i /\ table[k].active}
           names == {table[j].name : j \in read}
           f == [j \in read |-> table[j].name]
<1>1. DOMAIN LoadedBelow(i) = names
  BY DEF LoadedBelow
<1>2. i \in Nat /\ i - 1 \in Int
  BY SizesAssumption
<1>3. read \in SUBSET (0..i-1)
  BY <1>2, SizesAssumption DEF Slots
<1>4. /\ IsFiniteSet(0..i-1)
      /\ Cardinality(0..i-1) = IF 0 > i - 1 THEN 0 ELSE (i - 1) - 0 + 1
  BY <1>2, FS_Interval
<1>5. Cardinality(0..i-1) = i
  BY <1>2, <1>4
<1> HIDE DEF read
<1>6. IsFiniteSet(read) /\ Cardinality(read) <= i
  BY <1>3, <1>4, <1>5, FS_Subset, ZenonT(60)
<1>7. f \in Surjection(read, names)
  BY Zenon DEF Surjection
<1>8. IsFiniteSet(names) /\ Cardinality(names) <= Cardinality(read)
  BY <1>6, <1>7, FS_Surjection, Zenon
<1>9. Cardinality(names) \in Nat /\ Cardinality(read) \in Nat
  BY <1>6, <1>8, FS_CardinalityType, Zenon
<1>10. Cardinality(names) <= i
  <2> HIDE DEF names
  <2> QED
    BY <1>2, <1>6, <1>8, <1>9
<1> QED
  BY <1>1, <1>8, <1>10, Zenon DEF read

\* With one entry per name, each file is loaded from its own slot.
LEMMA LoadedFile ==
    ASSUME OneEntryEach, NEW i \in 0..MaxFiles, NEW j \in Slots, j < i, table[j].active
    PROVE  /\ table[j].name \in DOMAIN LoadedBelow(i)
           /\ LoadedBelow(i)[table[j].name] = FileAt(j)
<1> DEFINE read == {k \in Slots : k < i /\ table[k].active}
           S == {k \in read : table[k].name = table[j].name}
<1>1. table[j].name \in DOMAIN LoadedBelow(i)
  BY LoadedNames, Zenon
<1>2. S = {j}
  BY Zenon DEF OneEntryEach
<1>3. Greatest(S) = j
  <2>1. j <= j
    BY SizesAssumption DEF Slots
  <2> QED
    BY <1>2, <2>1, Zenon DEF Greatest
<1>4. LoadedBelow(i)[table[j].name] = FileAt(Greatest(S))
  BY <1>1, Zenon DEF LoadedBelow
<1> QED
  BY <1>1, <1>3, <1>4, Zenon

\* The blocks loaded from the slots below i are blocks of the entries there.
LEMMA LoadedCells ==
    ASSUME OneEntryEach, NEW i \in 0..MaxFiles, NEW c \in CellsOf(LoadedBelow(i))
    PROVE  \E j \in Slots : j < i /\ table[j].active
                              /\ c \in {table[j].name} \X (1..table[j].len)
<1>1. PICK n \in DOMAIN LoadedBelow(i) : c \in {n} \X DOMAIN LoadedBelow(i)[n]
  BY Zenon DEF CellsOf
<1>2. PICK j \in Slots : j < i /\ table[j].active /\ table[j].name = n
  BY LoadedNames, Zenon
<1>3. LoadedBelow(i)[n] = FileAt(j)
  BY <1>2, LoadedFile, Zenon
<1>4. DOMAIN FileAt(j) = 1..table[j].len
  BY Zenon DEF FileAt
<1> QED
  BY <1>1, <1>2, <1>3, <1>4, Zenon

\* The blocks that the entries count as theirs are finitely many.
LEMMA DiskCellsFinite ==
    ASSUME IInv
    PROVE  IsFiniteSet(Cells)
<1> DEFINE live == {j \in Slots : table[j].active}
           names == {table[j].name : j \in live}
           f == [j \in live |-> table[j].name]
<1>1. IsFiniteSet(Slots)
  BY FS_Interval, SizesAssumption DEF Slots
<1>2. IsFiniteSet(live)
  BY <1>1, FS_Subset, Zenon
<1>3. f \in Surjection(live, names)
  BY Zenon DEF Surjection
<1>4. IsFiniteSet(names)
  BY <1>2, <1>3, FS_Surjection, Zenon
<1>5. IsFiniteSet(1..MaxLen)
  BY FS_Interval, SizesAssumption
<1>6. IsFiniteSet(names \X (1..MaxLen))
  BY <1>4, <1>5, FS_Product, Zenon
<1>7. Cells \in SUBSET (names \X (1..MaxLen))
  <2> SUFFICES ASSUME NEW c \in Cells PROVE c \in names \X (1..MaxLen)
    BY Zenon
  <2>1. PICK j \in live : c \in {table[j].name} \X (1..table[j].len)
    BY Zenon DEF Cells
  <2>2. 1..table[j].len \subseteq 1..MaxLen
    BY EntryType, SizesAssumption DEF IInv, TypeOK
  <2>3. table[j].name \in names
    BY Zenon
  <2> QED
    BY <2>1, <2>2, <2>3, Zenon
<1> QED
  BY <1>6, <1>7, FS_Subset, Zenon

\* load_filesystem loads every file of a table whose files fit into RAM.
LEMMA FittingTableLoads ==
    ASSUME IInv, OneEntryEach, Cardinality(Cells) <= Capacity
    PROVE  LoadsFully
<1> SUFFICES ASSUME NEW j \in Slots, table[j].active
             PROVE  HasRoom(LoadedBelow(j), table[j].name, FileAt(j))
  BY Zenon DEF LoadsFully, Rejected
<1> DEFINE f == LoadedBelow(j)
           m == table[j].name
           d == FileAt(j)
<1>1. j \in 0..MaxFiles /\ j \in Nat /\ j < MaxFiles
  BY SizesAssumption DEF Slots
<1>2. f \in Files /\ m \in Names /\ d \in Data
  BY LoadedType, EntryType, FileAtType DEF IInv, TypeOK, NoSharedBlocks
<1>3. IsFiniteSet(DOMAIN f) /\ Cardinality(DOMAIN f) <= j
  BY <1>1, LoadedNames, Zenon
<1>4. Cardinality(DOMAIN f) < MaxFiles
  <2>1. Cardinality(DOMAIN f) \in Nat
    BY <1>3, FS_CardinalityType, Zenon
  <2> HIDE DEF f
  <2> QED
    BY <1>1, <1>3, <2>1, SizesAssumption
<1>5. CellsOf(With(f, m, d)) \subseteq Cells
  <2> SUFFICES ASSUME NEW c \in CellsOf(With(f, m, d)) PROVE c \in Cells
    BY Zenon
  <2>1. PICK k \in DOMAIN With(f, m, d) : c \in {k} \X DOMAIN With(f, m, d)[k]
    BY Zenon DEF CellsOf
  <2>2. CASE k = m
    <3>1. With(f, m, d)[k] = d
      BY <2>1, <2>2, Zenon DEF With
    <3>2. DOMAIN d = 1..table[j].len
      BY Zenon DEF FileAt
    <3> QED
      BY <2>1, <2>2, <3>1, <3>2, Zenon DEF Cells
  <2>3. CASE k # m
    <3>1. k \in DOMAIN f /\ With(f, m, d)[k] = f[k]
      BY <2>1, <2>3, Zenon DEF With
    <3>2. c \in CellsOf(f)
      BY <2>1, <3>1, Zenon DEF CellsOf
    <3> QED
      BY <1>1, <3>2, LoadedCells, Zenon DEF Cells
  <2> QED
    BY <2>2, <2>3
<1>6. /\ IsFiniteSet(CellsOf(With(f, m, d)))
      /\ Cardinality(CellsOf(With(f, m, d))) <= Capacity
  BY <1>5, DiskCellsFinite, FewerCells, Zenon
<1> HIDE DEF f, m, d
<1>7. /\ IsFiniteSet(DOMAIN With(f, m, d))
      /\ Used(With(f, m, d)) = Used(Without(f, m)) + Len(d)
  BY <1>2, <1>3, RoomForWith, Zenon
<1>8. Used(With(f, m, d)) <= Capacity
  BY <1>2, <1>6, <1>7, FilesWith, CellsFinite, Zenon
<1>9. Used(Without(f, m)) + Len(d) <= Capacity
  BY <1>7, <1>8, Zenon
<1> QED
  BY <1>4, <1>9, Zenon DEF HasRoom, f, m, d

\* What a complete load puts into RAM fits there, and is all of the disk.
LEMMA LoadedFits ==
    ASSUME IInv, OneEntryEach, LoadsFully
    PROVE  /\ OnDisk = LoadedBelow(MaxFiles)
           /\ IsFiniteSet(DOMAIN OnDisk) /\ Used(OnDisk) <= Capacity
           /\ Cardinality(Cells) <= Capacity
<1> DEFINE f == LoadedBelow(MaxFiles)
           live == {j \in Slots : table[j].active}
<1>1. OnDisk = f
  BY Zenon DEF OnDisk
<1>2. MaxFiles \in 0..MaxFiles /\ \A j \in Slots : j < MaxFiles
  BY SizesAssumption DEF Slots
<1>3. f \in Files /\ IsFiniteSet(DOMAIN f)
  BY <1>2, LoadedType, LoadedNames, Zenon DEF IInv
<1>4. Cells \subseteq CellsOf(f)
  <2> SUFFICES ASSUME NEW c \in Cells PROVE c \in CellsOf(f)
    BY Zenon
  <2>1. PICK j \in live : c \in {table[j].name} \X (1..table[j].len)
    BY Zenon DEF Cells
  <2>2. table[j].name \in DOMAIN f /\ f[table[j].name] = FileAt(j)
    BY <1>2, LoadedFile, Zenon
  <2>3. DOMAIN FileAt(j) = 1..table[j].len
    BY Zenon DEF FileAt
  <2> QED
    BY <2>1, <2>2, <2>3, Zenon DEF CellsOf
<1>5. Used(f) <= Capacity
  <2>1. CASE live = {}
    <3>1. CellsOf(f) = {}
      <4> SUFFICES ASSUME NEW c \in CellsOf(f) PROVE FALSE
        BY Zenon
      <4> QED
        BY <1>2, <2>1, LoadedCells, Zenon
    <3>2. Used(f) = 0
      BY <1>3, <3>1, CellsFinite, FS_EmptySet, Zenon
    <3> QED
      BY <3>2, SizesAssumption
  <2>2. CASE live # {}
    <3>1. live \in SUBSET (0..MaxFiles) /\ MaxFiles \in Nat
      BY SizesAssumption DEF Slots
    <3>2. PICK j \in live : \A k \in live : k <= j
      BY <2>2, <3>1, GreatestIsIn, Zenon
    <3> DEFINE g == LoadedBelow(j)
               m == table[j].name
               d == FileAt(j)
    <3>3. j \in Slots /\ j \in 0..MaxFiles /\ \A k \in live : k = j \/ k < j
      BY <3>2, SizesAssumption DEF Slots
    <3>4. HasRoom(g, m, d)
      BY Zenon DEF LoadsFully, Rejected
    <3>5. g \in Files /\ m \in Names /\ d \in Data
      BY <3>3, LoadedType, EntryType, FileAtType DEF IInv, TypeOK, NoSharedBlocks
    <3>6. IsFiniteSet(DOMAIN g)
      BY <3>3, LoadedNames, Zenon
    <3>7. CellsOf(f) \subseteq CellsOf(With(g, m, d))
      <4> SUFFICES ASSUME NEW c \in CellsOf(f) PROVE c \in CellsOf(With(g, m, d))
        BY Zenon
      <4>1. PICK k \in live : c \in {table[k].name} \X (1..table[k].len)
        BY <1>2, LoadedCells, Zenon
      <4>2. DOMAIN FileAt(k) = 1..table[k].len
        BY Zenon DEF FileAt
      <4>3. CASE k = j
        <5>1. m \in DOMAIN With(g, m, d) /\ With(g, m, d)[m] = d
          BY Zenon DEF With
        <5> QED
          BY <4>1, <4>2, <4>3, <5>1, ZenonT(60) DEF CellsOf
      <4>4. CASE k # j
        <5>1. k < j /\ table[k].name # m
          BY <3>3, <4>4, Zenon DEF OneEntryEach
        <5>2. table[k].name \in DOMAIN g /\ g[table[k].name] = FileAt(k)
          BY <3>3, <5>1, LoadedFile, Zenon
        <5>3. table[k].name \in DOMAIN With(g, m, d)
                 /\ With(g, m, d)[table[k].name] = FileAt(k)
          BY <5>1, <5>2, Zenon DEF With
        <5> QED
          BY <4>1, <4>2, <5>3, Zenon DEF CellsOf
      <4> QED
        BY <4>3, <4>4
    <3> HIDE DEF f, g, m, d
    <3>8. /\ IsFiniteSet(DOMAIN With(g, m, d))
          /\ Used(With(g, m, d)) = Used(Without(g, m)) + Len(d)
      BY <3>5, <3>6, RoomForWith, Zenon
    <3>9. Used(With(g, m, d)) <= Capacity
      BY <3>4, <3>8, Zenon DEF HasRoom
    <3>10. /\ IsFiniteSet(CellsOf(With(g, m, d)))
           /\ Cardinality(CellsOf(With(g, m, d))) <= Capacity
      BY <3>5, <3>8, <3>9, FilesWith, CellsFinite, Zenon
    <3>11. Cardinality(CellsOf(f)) <= Capacity
      BY <3>7, <3>10, FewerCells, Zenon
    <3> QED
      BY <1>3, <3>11, CellsFinite, Zenon
  <2> QED
    BY <2>1, <2>2
<1> HIDE DEF f
<1>6. IsFiniteSet(CellsOf(f)) /\ Cardinality(CellsOf(f)) <= Capacity
  BY <1>3, <1>5, CellsFinite, Zenon
<1>7. Cardinality(Cells) <= Capacity
  BY <1>4, <1>6, FewerCells, Zenon
<1> QED
  BY <1>1, <1>3, <1>5, <1>7, Zenon DEF f

-----------------------------------------------------------------------------
(* What the disk holds: the second inductive invariant. *)

\* Every path fits the 95 bytes of an entry's name field.
NamesFit == \A n \in Names : StoredName[n] = n

\* The disk holds what RAM holds under the name n.
Kept(n) ==
    IF n \in DOMAIN ram
    THEN \E i \in Named(n) : FileAt(i) = ram[n]
    ELSE Named(n) = {}

\* Which operation takes which step, and in what state of the mount.
KindOK ==
    /\ pc \in {"plan", "data", "entry"} => op.kind \in {"save", "sync"}
    /\ pc = "unlink" => op.kind = "delete" /\ op.name \notin DOMAIN ram
    /\ pc = "prune" => op.kind = "sync"
    /\ pc \in {"prune", "refresh", "erase"} => op.name = 0
    /\ pc = "refresh" => op.kind \in {"save", "sync", "delete"} /\ op.todo = {}
    /\ pc = "erase" => op.kind \in {"format", "init"}
    /\ op.kind # "sync" => op.todo = {}
    /\ op.kind = "sync" => super = "dirty"
    /\ op.kind \in {"save", "sync", "delete", "format"} => mounted
    /\ op.kind = "format" => behind
    /\ op.kind = "init" \/ pc = "off" => ~mounted /\ ram = NoFiles

\* format_disk has cleared the entries it has passed.
ErasedOK ==
    pc = "erase" =>
        op.pos \in Slots /\ \A i \in Slots : i < op.pos => ~table[i].active

\* From the plan to the entry write, the chosen slot is the file's own or free,
\* and the blocks written so far hold the file's data.
SlotOK ==
    pc \in {"data", "entry"} =>
        /\ \A i \in Slots : table[i].active
                              => (table[i].name = op.name <=> i = op.slot)
        /\ \A k \in 1..Len(ram[op.name]) :
              pc = "entry" \/ k <= op.pos => blocks[op.start + k - 1] = ram[op.name][k]

\* The RAM list is finite and, while the disk is mounted, within its limit.
RamOK == IsFiniteSet(DOMAIN ram) /\ (mounted => Used(ram) <= Capacity)

\* DiskHoldsRam, said of the table.
DiskOK ==
    mounted /\ ~behind => /\ Cardinality(Cells) <= Capacity
                          /\ \A n \in Names \ {op.name} : Kept(n)

\* A sync has stored every file it has passed, whatever was wrong before it.
SyncOK ==
    op.kind = "sync" /\ pc # "prune"
        => \A n \in Names \ (op.todo \cup {op.name}) : Kept(n)

\* What a reader of the disk finds, and what the running operation owes it.
SInv == OneEntryEach /\ KindOK /\ ErasedOK /\ SlotOK /\ RamOK /\ DiskOK /\ SyncOK

\* The files of a disk that holds what RAM holds fit into RAM, so a mount
\* loads all of them.
LEMMA KeptFits ==
    IInv /\ OneEntryEach /\ RamOK /\ mounted /\ (\A n \in Names : Kept(n))
        => Cardinality(Cells) <= Capacity
<1> SUFFICES ASSUME IInv, OneEntryEach, RamOK, mounted, \A n \in Names : Kept(n)
             PROVE  Cardinality(Cells) <= Capacity
  BY Zenon
<1>1. Cells \subseteq CellsOf(ram)
  <2> SUFFICES ASSUME NEW c \in Cells PROVE c \in CellsOf(ram)
    BY Zenon
  <2>1. PICK j \in Slots : table[j].active /\ c \in {table[j].name} \X (1..table[j].len)
    BY Zenon DEF Cells
  <2> DEFINE m == table[j].name
  <2>2. m \in Names
    BY <2>1, EntryType DEF IInv, TypeOK
  <2>3. j \in Named(m) /\ Kept(m)
    BY <2>1, <2>2, Zenon DEF Named
  <2>4. m \in DOMAIN ram /\ \E i \in Named(m) : FileAt(i) = ram[m]
    BY <2>3, Zenon DEF Kept
  <2>5. FileAt(j) = ram[m]
    BY <2>1, <2>4, Zenon DEF Named, OneEntryEach
  <2>6. DOMAIN FileAt(j) = 1..table[j].len
    BY Zenon DEF FileAt
  <2> QED
    BY <2>1, <2>4, <2>5, <2>6, Zenon DEF CellsOf
<1>2. IsFiniteSet(CellsOf(ram)) /\ Cardinality(CellsOf(ram)) <= Capacity
  BY CellsFinite, Zenon DEF IInv, TypeOK, RamOK
<1> QED
  BY <1>1, <1>2, FewerCells, Zenon

\* The same of the state after a step.
LEMMA KeptFitsNext ==
    IInv' /\ OneEntryEach' /\ RamOK' /\ mounted' /\ (\A n \in Names : Kept(n))'
        => (Cardinality(Cells) <= Capacity)'
BY KeptFits, PTL

\* A step keeps a file on the disk if it leaves the file in RAM alone, does not
\* write its data, and changes none of its entries.
LEMMA KeptStep ==
    ASSUME IInv, SlotOK, [Next]_vars, NEW n \in Names, Kept(n),
           n # op.name \/ pc # "data",
           n \in DOMAIN ram' <=> n \in DOMAIN ram,
           n \in DOMAIN ram => /\ ram'[n] = ram[n]
                               /\ \A i \in Named(n) : table'[i] = table[i],
           n \notin DOMAIN ram => Named(n)' \subseteq Named(n)
    PROVE  Kept(n)'
<1>1. CASE n \in DOMAIN ram
  <2>1. PICK i \in Named(n) : FileAt(i) = ram[n]
    BY <1>1, Zenon DEF Kept
  <2>2. i \in Slots /\ table[i].active /\ table[i].name = n /\ table'[i] = table[i]
    BY <1>1, <2>1, Zenon DEF Named
  <2>3. ~(pc = "data" /\ op.slot = i)
    BY <2>2, Zenon DEF SlotOK
  <2>4. FileAt(i)' = FileAt(i)
    BY <2>2, <2>3, StepTouchesOwnFile, Zenon
  <2>5. i \in Named(n)'
    BY <2>2, Zenon DEF Named
  <2>6. n \in DOMAIN ram' /\ FileAt(i)' = ram'[n]
    BY <1>1, <2>1, <2>4, Zenon
  <2> QED
    BY <2>5, <2>6, Zenon DEF Kept
<1>2. CASE n \notin DOMAIN ram
  <2>1. Named(n) = {} /\ n \notin DOMAIN ram'
    BY <1>2, Zenon DEF Kept
  <2>2. Named(n)' = {}
    BY <1>2, <2>1, Zenon
  <2> QED
    BY <2>1, <2>2, Zenon DEF Kept
<1> QED
  BY <1>1, <1>2

\* A step that changes neither the list nor the table.
LEMMA KeptFrame ==
    ASSUME IInv, SlotOK, [Next]_vars, NEW n \in Names, Kept(n),
           n # op.name \/ pc # "data", UNCHANGED <<ram, table>>
    PROVE  Kept(n)'
<1>1. Named(n)' = Named(n)
  BY Zenon DEF Named
<1>2. ram' = ram /\ table' = table
  BY Zenon
<1> QED
  BY <1>1, <1>2, KeptStep, Zenon

\* A step that does not change the table changes nothing said of the table.
LEMMA TableFrame ==
    ASSUME OneEntryEach, UNCHANGED table
    PROVE  OneEntryEach' /\ Cells' = Cells
<1>1. OneEntryEach'
  BY DEF OneEntryEach
<1>2. Cells' = Cells
  BY DEF Cells
<1> QED
  BY <1>1, <1>2

\* Clearing an entry.
LEMMA ClearedFacts ==
    ASSUME IInv, OneEntryEach, NEW i \in Slots, table' = [table EXCEPT ![i] = Inactive]
    PROVE  /\ \A j \in Slots : j # i => table'[j] = table[j]
           /\ ~table'[i].active
           /\ OneEntryEach' /\ Cells' \subseteq Cells
           /\ Cardinality(Cells) <= Capacity => (Cardinality(Cells) <= Capacity)'
           /\ \A n : Named(n)' = Named(n) \ {i}
<1>1. (\A j \in Slots : j # i => table'[j] = table[j]) /\ table'[i] = Inactive
  BY DEF IInv, TypeOK
<1>2. ~table'[i].active
  BY <1>1 DEF Inactive
<1>3. \A j \in Slots : table'[j].active => j # i /\ table'[j] = table[j] /\ table[j].active
  BY <1>1, <1>2, Zenon
<1>4. OneEntryEach'
  BY <1>3, Zenon DEF OneEntryEach
<1>5. Cells' \subseteq Cells
  <2> SUFFICES ASSUME NEW c \in Cells' PROVE c \in Cells
    BY Zenon
  <2>1. PICK j \in Slots : table'[j].active
                             /\ c \in {table'[j].name} \X (1..table'[j].len)
    BY Zenon DEF Cells
  <2>2. table'[j] = table[j] /\ table[j].active
    BY <1>3, <2>1, Zenon
  <2> QED
    BY <2>1, <2>2, Zenon DEF Cells
<1>6. Cardinality(Cells) <= Capacity => (Cardinality(Cells) <= Capacity)'
  BY <1>5, DiskCellsFinite, FewerCells, Zenon
<1>7. \A n : Named(n)' = Named(n) \ {i}
  <2> SUFFICES ASSUME NEW n PROVE Named(n)' = Named(n) \ {i}
    BY Zenon
  <2>1. \A j \in Slots : j # i => (j \in Named(n)' <=> j \in Named(n))
    BY <1>1, Zenon DEF Named
  <2>2. i \notin Named(n)'
    BY <1>2, Zenon DEF Named
  <2>3. Named(n)' \subseteq Slots /\ Named(n) \subseteq Slots
    BY Zenon DEF Named
  <2> QED
    BY <2>1, <2>2, <2>3, Zenon
<1> QED
  BY <1>1, <1>2, <1>4, <1>5, <1>6, <1>7, Zenon

\* Between operations most of the invariant says nothing.
LEMMA RestFacts ==
    ASSUME pc' = "idle", op' = NoOp
    PROVE  KindOK' /\ ErasedOK' /\ SlotOK' /\ SyncOK' /\ op'.name = 0
BY DEF KindOK, ErasedOK, SlotOK, SyncOK, NoOp

\* Names are not 0, the name of no file.
LEMMA NoNameZero == 0 \notin Names
BY NamesAssumption

-----------------------------------------------------------------------------
(* The steps, again. *)

\* An operation that fails leaves the disk behind.
LEMMA GiveUpHolds ==
    ASSUME SInv, GiveUp
    PROVE  SInv'
<1>1. pc' = "idle" /\ op' = NoOp /\ behind' = TRUE
         /\ UNCHANGED <<ram, mounted, table>>
  BY Zenon DEF GiveUp
<1>2. KindOK' /\ ErasedOK' /\ SlotOK' /\ SyncOK'
  BY <1>1, RestFacts, Zenon
<1>3. OneEntryEach'
  BY <1>1, TableFrame, Zenon DEF SInv
<1>4. RamOK'
  BY <1>1 DEF SInv, RamOK, Used
<1>5. DiskOK'
  BY <1>1, Zenon DEF DiskOK
<1> QED
  BY <1>2, <1>3, <1>4, <1>5, Zenon DEF SInv

\* upsert_file_entry takes the file's own slot or a free one.
LEMMA PlanHolds ==
    ASSUME IInv, SInv, [Next]_vars, Plan
    PROVE  SInv'
<1>1. CASE PlacesFor(op.name) = {}
  BY <1>1, GiveUpHolds, Zenon DEF Plan
<1>2. CASE PlacesFor(op.name) # {}
  <2> DEFINE i == Least(TargetSlots(op.name))
  <2>1. /\ op' = [op EXCEPT !.slot = i, !.start = Least(PlacesFor(op.name)), !.pos = 0]
        /\ pc' = IF Len(ram[op.name]) = 0 THEN "entry" ELSE "data"
        /\ UNCHANGED <<ram, mounted, super, table, blocks, behind>> /\ pc = "plan"
    BY <1>2, Zenon DEF Plan
  <2>2. TargetSlots(op.name) # {} /\ TargetSlots(op.name) \in SUBSET Nat
    <3>1. Named(op.name) \subseteq Slots /\ Unused \subseteq Slots
      BY Zenon DEF Named, Unused
    <3>2. TargetSlots(op.name) \subseteq Slots
      BY <3>1, Zenon DEF TargetSlots
    <3>3. Slots \subseteq Nat
      BY SizesAssumption DEF Slots
    <3> QED
      BY <1>2, <3>2, <3>3, Zenon DEF PlacesFor
  <2>3. i \in TargetSlots(op.name)
    BY <2>2, LeastIsIn, Zenon
  <2> HIDE DEF i
  <2>4. /\ op'.name = op.name /\ op'.todo = op.todo /\ op'.slot = i
        /\ op'.kind = op.kind /\ op'.pos = 0
    BY <2>1 DEF IInv, TypeOK, Ops
  <2>5. pc' \in {"data", "entry"} /\ (pc' = "entry" => Len(ram[op.name]) = 0)
    BY <2>1, Zenon
  <2>6. KindOK'
    BY <2>1, <2>4, <2>5 DEF SInv, KindOK
  <2>7. \A j \in Slots : table[j].active => (table[j].name = op.name <=> j = i)
    <3>1. CASE Named(op.name) # {}
      BY <2>3, <3>1, Zenon DEF TargetSlots, Named, SInv, OneEntryEach
    <3>2. CASE Named(op.name) = {}
      BY <2>3, <3>2, Zenon DEF TargetSlots, Named, Unused
    <3> QED
      BY <3>1, <3>2
  <2>8. \A k \in 1..Len(ram[op.name]) : ~(pc' = "entry" \/ k <= 0)
    BY <2>5
  <2>9. SlotOK'
    BY <2>1, <2>4, <2>7, <2>8, Zenon DEF SlotOK
  <2>10. ErasedOK'
    BY <2>5 DEF ErasedOK
  <2>11. OneEntryEach' /\ Cells' = Cells
    BY <2>1, TableFrame, Zenon DEF SInv
  <2>12. RamOK'
    BY <2>1 DEF SInv, RamOK, Used
  <2>13. \A n \in Names : Kept(n) => Kept(n)'
    BY <2>1, KeptFrame, Zenon DEF SInv
  <2>14. DiskOK'
    BY <2>1, <2>4, <2>11, <2>13, Zenon DEF SInv, DiskOK
  <2>15. SyncOK'
    BY <2>1, <2>4, <2>13, Zenon DEF SInv, SyncOK
  <2> QED
    BY <2>6, <2>9, <2>10, <2>11, <2>12, <2>14, <2>15, Zenon DEF SInv
<1> QED
  BY <1>1, <1>2

\* write_file_data puts one more block of the file in place.
LEMMA WriteBlockHolds ==
    ASSUME IInv, SInv, [Next]_vars, WriteBlock
    PROVE  SInv'
<1> DEFINE size == Len(ram[op.name])
<1>1. /\ op.pos \in Nat /\ op.start \in Nat /\ size \in Nat /\ op.pos < size
      /\ op.start + size <= TotalBlocks /\ op \in Ops
      /\ blocks \in [0..TotalBlocks - 1 -> Blk]
  BY FilesType, DataLength, SizesAssumption
     DEF IInv, TypeOK, FlightOK, WriteBlock, Ops, Fits
<1>2. /\ blocks' = [blocks EXCEPT ![op.start + op.pos] = ram[op.name][op.pos + 1]]
      /\ op' = [op EXCEPT !.pos = op.pos + 1]
      /\ pc' = IF op.pos + 1 = size THEN "entry" ELSE "data"
      /\ UNCHANGED <<ram, mounted, super, table, behind>> /\ pc = "data"
  BY Zenon DEF WriteBlock
<1>3. /\ op'.name = op.name /\ op'.todo = op.todo /\ op'.slot = op.slot
      /\ op'.kind = op.kind /\ op'.start = op.start /\ op'.pos = op.pos + 1
  BY <1>1, <1>2 DEF Ops
<1>4. pc' \in {"data", "entry"} /\ (pc' = "entry" => op.pos + 1 = size)
  BY <1>2, Zenon
<1>5. KindOK'
  BY <1>2, <1>3, <1>4 DEF SInv, KindOK
<1>6. ASSUME NEW k \in 1..size, pc' = "entry" \/ k <= op.pos + 1
      PROVE  blocks'[op.start + k - 1] = ram[op.name][k]
  <2>1. k <= op.pos + 1 /\ op.start + k - 1 \in 0..TotalBlocks - 1
    BY <1>1, <1>4, <1>6, SizesAssumption, SMTT(30)
  <2>2. CASE k = op.pos + 1
    <3>1. op.start + k - 1 = op.start + op.pos
      BY <1>1, <2>2
    <3> QED
      BY <1>1, <1>2, <2>1, <2>2, <3>1, Zenon
  <2>3. CASE k # op.pos + 1
    <3>1. k <= op.pos /\ op.start + k - 1 # op.start + op.pos
      BY <1>1, <2>1, <2>3
    <3>2. blocks'[op.start + k - 1] = blocks[op.start + k - 1]
      BY <1>1, <1>2, <2>1, <3>1, Zenon
    <3> QED
      BY <1>2, <3>1, <3>2, Zenon DEF SInv, SlotOK
  <2> QED
    BY <2>2, <2>3
<1>7. SlotOK'
  BY <1>2, <1>3, <1>6, ZenonT(60) DEF SInv, SlotOK
<1>8. ErasedOK'
  BY <1>4 DEF ErasedOK
<1>9. OneEntryEach' /\ Cells' = Cells
  BY <1>2, TableFrame, Zenon DEF SInv
<1>10. RamOK'
  BY <1>2 DEF SInv, RamOK, Used
<1>11. \A n \in Names : n # op.name /\ Kept(n) => Kept(n)'
  BY <1>2, KeptFrame, Zenon DEF SInv
<1>12. DiskOK'
  BY <1>2, <1>3, <1>9, <1>11, Zenon DEF SInv, DiskOK
<1>13. SyncOK'
  BY <1>2, <1>3, <1>11, Zenon DEF SInv, SyncOK
<1> QED
  BY <1>5, <1>7, <1>8, <1>9, <1>10, <1>12, <1>13, Zenon DEF SInv

\* How sync_filesystem goes on after a file.
LEMMA NextFileFacts ==
    ASSUME op \in Ops, NEW todo \in SUBSET Names, NextFile(todo)
    PROVE  /\ op'.kind = op.kind
           /\ \/ pc' = "plan" /\ op'.todo \cup {op'.name} = todo
              \/ pc' = "refresh" /\ op'.name = 0 /\ op'.todo = {} /\ todo = {}
<1>1. CASE todo = {}
  BY <1>1, Zenon DEF NextFile, Ops
<1>2. CASE todo # {}
  <2>1. PICK m \in todo : m = Least(todo)
    BY <1>2, LeastIsIn, NamesAssumption, Zenon
  <2>2. pc' = "plan" /\ op' = [op EXCEPT !.name = m, !.todo = todo \ {m}]
    BY <1>2, <2>1, Zenon DEF NextFile
  <2>3. op'.kind = op.kind /\ op'.name = m /\ op'.todo = todo \ {m}
    BY <2>2 DEF Ops
  <2>4. op'.todo \cup {op'.name} = todo
    <3>1. (todo \ {m}) \cup {m} = todo
      BY <2>1, Zenon
    <3> QED
      BY <2>3, <3>1, Zenon
  <2> QED
    BY <2>2, <2>3, <2>4, Zenon
<1> QED
  BY <1>1, <1>2

\* upsert_file_entry's entry write makes the file's data the file's.
LEMMA WriteEntryHolds ==
    ASSUME NamesFit, IInv, SInv, IInv', [Next]_vars, WriteEntry
    PROVE  SInv'
<1> DEFINE size == Len(ram[op.name])
           e == [active |-> TRUE, name |-> StoredName[op.name],
                 start |-> op.start, len |-> size]
<1>1. /\ op.name \in Names /\ op.slot \in Slots /\ op \in Ops
      /\ op.name \in DOMAIN ram /\ ram[op.name] \in [1..size -> Blk]
      /\ op.todo \in SUBSET Names /\ table \in [Slots -> Entries] /\ size \in Nat
  BY FilesType, DataLength, SizesAssumption DEF IInv, TypeOK, FlightOK, WriteEntry, Ops
<1>2. /\ table' = [table EXCEPT ![op.slot] = e]
      /\ UNCHANGED <<ram, mounted, super, blocks, behind>> /\ pc = "entry"
      /\ NextFile(op.todo)
  BY Zenon DEF WriteEntry
<1>3. /\ \A j \in Slots : j # op.slot => table'[j] = table[j]
      /\ table'[op.slot] = e
  BY <1>1, <1>2, Zenon
<1>4. /\ table'[op.slot].active /\ table'[op.slot].name = op.name
      /\ table'[op.slot].start = op.start /\ table'[op.slot].len = size
  BY <1>1, <1>3 DEF NamesFit
<1>5. /\ \A j \in Slots : table[j].active => (table[j].name = op.name <=> j = op.slot)
      /\ \A k \in 1..size : blocks[op.start + k - 1] = ram[op.name][k]
  BY <1>2, Zenon DEF SInv, SlotOK
<1>6. /\ op'.kind = op.kind
      /\ \/ pc' = "plan" /\ op'.todo \cup {op'.name} = op.todo
         \/ pc' = "refresh" /\ op'.name = 0 /\ op'.todo = {} /\ op.todo = {}
  BY <1>1, <1>2, NextFileFacts, Zenon
<1>7. OneEntryEach'
  <2> SUFFICES ASSUME NEW i \in Slots, NEW j \in Slots, table'[i].active,
                      table'[j].active, table'[i].name = table'[j].name
               PROVE  i = j
    BY Zenon DEF OneEntryEach
  <2>1. CASE i = op.slot
    BY <1>3, <1>4, <1>5, <2>1, Zenon
  <2>2. CASE j = op.slot
    BY <1>3, <1>4, <1>5, <2>2, Zenon
  <2>3. CASE i # op.slot /\ j # op.slot
    BY <1>3, <2>3, Zenon DEF SInv, OneEntryEach
  <2> QED
    BY <2>1, <2>2, <2>3
<1>0. PICK m \in Names, s \in Slots : m = op.name /\ s = op.slot
  BY <1>1, Zenon
<1>8. Kept(m)'
  <2>1. FileAt(s)' = [k \in 1..table'[s].len |-> blocks'[table'[s].start + k - 1]]
    BY Zenon DEF FileAt
  <2>2. FileAt(s)' = [k \in 1..size |-> blocks[op.start + k - 1]]
    <3>1. table'[s].len = size /\ table'[s].start = op.start /\ blocks' = blocks
      BY <1>0, <1>2, <1>4, Zenon
    <3> QED
      BY <2>1, <3>1
  <2>3. ram[op.name] = [k \in 1..size |-> ram[op.name][k]]
    BY <1>1, Zenon
  <2>4. [k \in 1..size |-> blocks[op.start + k - 1]] = [k \in 1..size |-> ram[op.name][k]]
    BY <1>5, Zenon
  <2>6. FileAt(s)' = ram[op.name]
    BY <2>2, <2>3, <2>4, Zenon
  <2>7. FileAt(s)' = ram'[m]
    BY <1>0, <1>2, <2>6, Zenon
  <2>5. s \in Named(m)'
    BY <1>0, <1>4, Zenon DEF Named
  <2> QED
    BY <1>0, <1>1, <1>2, <2>5, <2>7, Zenon DEF Kept
<1>9. \A n \in Names : n # op.name /\ Kept(n) => Kept(n)'
  <2> SUFFICES ASSUME NEW n \in Names, n # op.name, Kept(n) PROVE Kept(n)'
    BY Zenon
  <2>1. \A j \in Named(n) : j # op.slot
    BY <1>5, Zenon DEF Named
  <2>2. \A j \in Named(n) : table'[j] = table[j]
    BY <1>3, <2>1, Zenon DEF Named
  <2>3. Named(n)' \subseteq Named(n)
    BY <1>3, <1>4, Zenon DEF Named
  <2> QED
    BY <1>2, <2>2, <2>3, KeptStep, Zenon DEF SInv
<1>10. KindOK'
  BY <1>2, <1>6 DEF SInv, KindOK
<1>11. ErasedOK' /\ SlotOK'
  BY <1>6 DEF ErasedOK, SlotOK
<1>12. RamOK'
  BY <1>2 DEF SInv, RamOK, Used
<1>13. SyncOK'
  <2> SUFFICES ASSUME op'.kind = "sync",
                      NEW n \in Names, n \notin op'.todo, n # op'.name
               PROVE  Kept(n)'
    BY Zenon DEF SyncOK
  <2>1. n \notin op.todo /\ op.kind = "sync"
    BY <1>6, Zenon
  <2> QED
    BY <1>0, <1>2, <1>8, <1>9, <2>1, Zenon DEF SInv, SyncOK
<1>14. DiskOK'
  <2> SUFFICES ASSUME mounted', ~behind'
               PROVE  (Cardinality(Cells) <= Capacity)' /\ \A n \in Names : Kept(n)'
    BY Zenon DEF DiskOK
  <2>1. \A n \in Names : Kept(n)'
    BY <1>0, <1>2, <1>8, <1>9, Zenon DEF SInv, DiskOK
  <2> QED
    BY <1>7, <1>12, <2>1, KeptFitsNext, Zenon
<1> QED
  BY <1>7, <1>10, <1>11, <1>12, <1>13, <1>14, Zenon DEF SInv

\* delete_file_from_disk clears the only entry of its file.
LEMMA UnlinkHolds ==
    ASSUME IInv, SInv, [Next]_vars, Unlink
    PROVE  SInv'
<1>1. CASE Named(op.name) = {}
  BY <1>1, GiveUpHolds, Zenon DEF Unlink
<1>2. CASE Named(op.name) # {}
  <2>1. /\ table' = [table EXCEPT ![Least(Named(op.name))] = Inactive]
        /\ pc' = "refresh" /\ op' = [op EXCEPT !.name = 0] /\ pc = "unlink"
        /\ UNCHANGED <<ram, mounted, super, blocks, behind>>
    BY <1>2, Zenon DEF Unlink
  <2>2. Named(op.name) \in SUBSET Slots /\ Slots \subseteq Nat
    BY SizesAssumption DEF Named, Slots
  <2>3. PICK i \in Slots : i = Least(Named(op.name)) /\ i \in Named(op.name)
    BY <1>2, <2>2, LeastIsIn, Zenon
  <2>4. table' = [table EXCEPT ![i] = Inactive]
    BY <2>1, <2>3, Zenon
  <2>5. /\ OneEntryEach' /\ \A j \in Slots : j # i => table'[j] = table[j]
        /\ Cardinality(Cells) <= Capacity => (Cardinality(Cells) <= Capacity)'
        /\ \A n : Named(n)' = Named(n) \ {i}
    BY <2>4, ClearedFacts, Zenon DEF SInv
  <2>6. op'.kind = op.kind /\ op'.name = 0 /\ op'.todo = op.todo
    BY <2>1 DEF IInv, TypeOK, Ops
  <2>7. op.kind = "delete" /\ op.name \notin DOMAIN ram /\ op.todo = {} /\ mounted
    BY <2>1 DEF SInv, KindOK
  <2>8. KindOK'
    BY <2>1, <2>6, <2>7 DEF KindOK
  <2>9. ErasedOK' /\ SlotOK' /\ SyncOK'
    BY <2>1, <2>6, <2>7 DEF ErasedOK, SlotOK, SyncOK
  <2>10. RamOK'
    BY <2>1 DEF SInv, RamOK, Used
  <2>11. ASSUME NEW n \in Names, n # op.name, Kept(n) PROVE Kept(n)'
    <3>1. \A j \in Named(n) : j # i /\ table'[j] = table[j]
      BY <2>3, <2>5, <2>11, Zenon DEF Named
    <3>2. Named(n)' \subseteq Named(n)
      BY <2>5, Zenon
    <3> QED
      BY <2>1, <2>11, <3>1, <3>2, KeptStep, Zenon DEF SInv
  <2>12. ASSUME NEW n \in Names, n = op.name PROVE Kept(n)'
    <3>1. Named(n) = {i}
      BY <2>3, <2>12, Zenon DEF Named, SInv, OneEntryEach
    <3>2. Named(n)' = {} /\ n \notin DOMAIN ram'
      BY <2>1, <2>5, <2>7, <2>12, <3>1, Zenon
    <3> QED
      BY <3>2, Zenon DEF Kept
  <2>13. DiskOK'
    BY <2>1, <2>5, <2>11, <2>12, Zenon DEF SInv, DiskOK
  <2> QED
    BY <2>5, <2>8, <2>9, <2>10, <2>13, Zenon DEF SInv
<1> QED
  BY <1>1, <1>2

\* sync_filesystem's first loop takes only entries of no file in RAM.
LEMMA PruneHolds ==
    ASSUME IInv, SInv, [Next]_vars, Prune
    PROVE  SInv'
<1>1. /\ UNCHANGED <<ram, mounted, super, blocks, behind>> /\ pc = "prune"
      /\ op.kind = "sync" /\ op.name = 0 /\ mounted /\ super = "dirty"
  BY DEF Prune, SInv, KindOK
<1>2. RamOK'
  BY <1>1 DEF SInv, RamOK, Used
<1>3. CASE Stale # {}
  <2>1. table' = [table EXCEPT ![Least(Stale)] = Inactive] /\ UNCHANGED <<pc, op>>
    BY <1>3, Zenon DEF Prune
  <2>2. Stale \in SUBSET Slots /\ Slots \subseteq Nat
    BY SizesAssumption DEF Stale, Slots
  <2>3. PICK i \in Slots : i = Least(Stale) /\ i \in Stale
    BY <1>3, <2>2, LeastIsIn, Zenon
  <2>4. table' = [table EXCEPT ![i] = Inactive]
    BY <2>1, <2>3, Zenon
  <2>5. /\ OneEntryEach' /\ \A j \in Slots : j # i => table'[j] = table[j]
        /\ Cardinality(Cells) <= Capacity => (Cardinality(Cells) <= Capacity)'
        /\ \A n : Named(n)' = Named(n) \ {i}
    BY <2>4, ClearedFacts, Zenon DEF SInv
  <2>6. KindOK'
    BY <1>1, <2>1 DEF SInv, KindOK
  <2>7. ErasedOK' /\ SlotOK' /\ SyncOK'
    BY <1>1, <2>1 DEF ErasedOK, SlotOK, SyncOK
  <2>8. ASSUME NEW n \in Names, Kept(n) PROVE Kept(n)'
    <3>1. n \in DOMAIN ram => \A j \in Named(n) : j # i /\ table'[j] = table[j]
      BY <2>3, <2>5, Zenon DEF Named, Stale
    <3>2. Named(n)' \subseteq Named(n)
      BY <2>5, Zenon
    <3> QED
      BY <1>1, <2>8, <3>1, <3>2, KeptStep, Zenon DEF SInv
  <2>9. DiskOK'
    BY <1>1, <2>1, <2>5, <2>8, Zenon DEF SInv, DiskOK
  <2> QED
    BY <1>2, <2>5, <2>6, <2>7, <2>9, Zenon DEF SInv
<1>4. CASE Stale = {}
  <2>1. NextFile(DOMAIN ram) /\ UNCHANGED table
    BY <1>4, Zenon DEF Prune
  <2>2. op \in Ops /\ DOMAIN ram \in SUBSET Names
    BY FilesType DEF IInv, TypeOK
  <2>3. /\ op'.kind = op.kind
        /\ \/ pc' = "plan" /\ op'.todo \cup {op'.name} = DOMAIN ram
           \/ pc' = "refresh" /\ op'.name = 0 /\ op'.todo = {} /\ DOMAIN ram = {}
    BY <2>1, <2>2, NextFileFacts, Zenon
  <2>4. KindOK'
    BY <1>1, <2>3 DEF KindOK
  <2>5. ErasedOK' /\ SlotOK'
    BY <2>3 DEF ErasedOK, SlotOK
  <2>6. OneEntryEach' /\ Cells' = Cells
    BY <2>1, TableFrame, Zenon DEF SInv
  <2>7. \A n \in Names : Kept(n) => Kept(n)'
    BY <1>1, <2>1, KeptFrame, Zenon DEF SInv
  <2>8. ASSUME NEW n \in Names, n \notin DOMAIN ram PROVE Kept(n)
    BY <1>4, <2>8, Zenon DEF Kept, Named, Stale
  <2>9. SyncOK'
    BY <2>3, <2>7, <2>8, Zenon DEF SyncOK
  <2>10. DiskOK'
    BY <1>1, <2>3, <2>6, <2>7, NoNameZero, Zenon DEF SInv, DiskOK
  <2> QED
    BY <1>2, <2>4, <2>5, <2>6, <2>9, <2>10, Zenon DEF SInv
<1> QED
  BY <1>3, <1>4

\* The end of a sync: every file of RAM is on the disk, and nothing else.
LEMMA RefreshHolds ==
    ASSUME IInv, SInv, IInv', [Next]_vars, Refresh
    PROVE  SInv'
<1>1. /\ pc = "refresh" /\ pc' = "idle" /\ op' = NoOp
      /\ behind' = IF op.kind = "sync" THEN FALSE ELSE behind
      /\ UNCHANGED <<ram, mounted, table, blocks>>
  BY Zenon DEF Refresh
<1>2. op.name = 0 /\ op.todo = {}
  BY <1>1 DEF SInv, KindOK
<1>3. KindOK' /\ ErasedOK' /\ SlotOK' /\ SyncOK' /\ op'.name = 0
  BY <1>1, RestFacts, Zenon
<1>4. OneEntryEach' /\ Cells' = Cells
  BY <1>1, TableFrame, Zenon DEF SInv
<1>5. RamOK'
  BY <1>1 DEF SInv, RamOK, Used
<1>6. \A n \in Names : Kept(n) => Kept(n)'
  BY <1>1, KeptFrame, Zenon DEF SInv
<1>7. DiskOK'
  <2>1. CASE op.kind = "sync"
    <3>1. \A n \in Names : Kept(n)
      BY <1>1, <1>2, <2>1, NoNameZero, Zenon DEF SInv, SyncOK
    <3>2. mounted' /\ \A n \in Names : Kept(n)'
      BY <1>1, <1>6, <2>1, <3>1, Zenon DEF SInv, KindOK
    <3>3. (Cardinality(Cells) <= Capacity)'
      BY <1>4, <1>5, <3>2, KeptFitsNext, Zenon
    <3> QED
      BY <3>2, <3>3, Zenon DEF DiskOK
  <2>2. CASE op.kind # "sync"
    BY <1>1, <1>2, <1>3, <1>4, <1>6, <2>2, Zenon DEF SInv, DiskOK
  <2> QED
    BY <2>1, <2>2
<1> QED
  BY <1>3, <1>4, <1>5, <1>7, Zenon DEF SInv

\* The empty RAM list takes no block.
LEMMA NoFilesFit ==
    /\ DOMAIN NoFiles = {} /\ IsFiniteSet(DOMAIN NoFiles) /\ Used(NoFiles) <= Capacity
<1>1. DOMAIN NoFiles = {}
  BY DEF NoFiles
<1>2. CellsOf(NoFiles) = {}
  BY <1>1, Zenon DEF CellsOf
<1>3. Used(NoFiles) = 0
  BY <1>2, FS_EmptySet, Zenon DEF Used, CellsOf
<1> QED
  BY <1>1, <1>3, FS_EmptySet, SizesAssumption

\* format_disk: a fresh disk holds the empty list; a reformatted one is behind.
LEMMA EraseHolds ==
    ASSUME IInv, SInv, Erase
    PROVE  SInv'
<1>1. /\ table' = [table EXCEPT ![op.pos] = Inactive]
      /\ UNCHANGED <<ram, super, blocks>> /\ pc = "erase"
  BY Zenon DEF Erase
<1>2. /\ op.pos \in Slots /\ op.name = 0 /\ op.todo = {}
      /\ \/ op.kind = "format" /\ mounted /\ behind
         \/ op.kind = "init" /\ ~mounted /\ ram = NoFiles
  BY <1>1 DEF SInv, KindOK, ErasedOK
<1>3. PICK i \in Slots : i = op.pos
  BY <1>2, Zenon
<1>4. /\ OneEntryEach' /\ \A j \in Slots : j # i => table'[j] = table[j]
      /\ ~table'[i].active
  <2>1. table' = [table EXCEPT ![i] = Inactive]
    BY <1>1, <1>3, Zenon
  <2> QED
    BY <2>1, ClearedFacts, Zenon DEF SInv
<1>5. \A j \in Slots : j <= i => ~table'[j].active
  <2> SUFFICES ASSUME NEW j \in Slots, j <= i PROVE ~table'[j].active
    BY Zenon
  <2>1. j = i \/ j < i
    BY SizesAssumption DEF Slots
  <2> QED
    BY <1>1, <1>3, <1>4, <2>1, Zenon DEF SInv, ErasedOK
<1>6. i \in Nat /\ MaxFiles \in Nat /\ op \in Ops
  BY SizesAssumption DEF Slots, IInv, TypeOK
<1>7. CASE op.pos + 1 < MaxFiles
  <2>1. op' = [op EXCEPT !.pos = op.pos + 1] /\ UNCHANGED <<pc, mounted, behind>>
    BY <1>3, <1>6, <1>7 DEF Erase
  <2>2. op'.kind = op.kind /\ op'.name = op.name /\ op'.todo = op.todo
           /\ op'.pos = i + 1
    BY <1>3, <1>6, <2>1 DEF Ops
  <2>3. KindOK'
    BY <1>1, <1>2, <2>1, <2>2 DEF KindOK
  <2>4. ErasedOK'
    <3>1. i + 1 \in Slots /\ \A j \in Slots : j < i + 1 => j <= i
      BY <1>3, <1>6, <1>7 DEF Slots
    <3> QED
      BY <1>5, <2>2, <3>1, Zenon DEF ErasedOK
  <2>5. SlotOK' /\ SyncOK'
    BY <1>1, <1>2, <2>1, <2>2 DEF SlotOK, SyncOK
  <2>6. RamOK'
    BY <1>1, <2>1 DEF SInv, RamOK, Used
  <2>7. DiskOK'
    BY <1>2, <2>1, Zenon DEF DiskOK
  <2> QED
    BY <1>4, <2>3, <2>4, <2>5, <2>6, <2>7, Zenon DEF SInv
<1>8. CASE op.pos + 1 = MaxFiles
  <2>1. pc' = "idle" /\ op' = NoOp /\ mounted' = TRUE /\ behind' = (op.kind = "format")
    BY <1>3, <1>6, <1>8 DEF Erase
  <2>2. KindOK' /\ ErasedOK' /\ SlotOK' /\ SyncOK' /\ op'.name = 0
    BY <2>1, RestFacts, Zenon
  <2>3. RamOK'
    BY <1>1, <1>2, NoFilesFit, Zenon DEF SInv, RamOK, Used
  <2>4. DiskOK'
    <3>1. CASE op.kind = "format"
      BY <2>1, <3>1, Zenon DEF DiskOK
    <3>2. CASE op.kind # "format"
      <4>1. ram' = NoFiles
        BY <1>1, <1>2, <3>2, Zenon
      <4>2. \A j \in Slots : j <= i
        BY <1>3, <1>6, <1>8 DEF Slots
      <4>3. \A j \in Slots : ~table'[j].active
        BY <1>5, <4>2, Zenon
      <4>4. \A n \in Names : Kept(n)'
        BY <4>1, <4>3, NoFilesFit, Zenon DEF Kept, Named
      <4>5. Cells' = {}
        BY <4>3, Zenon DEF Cells
      <4>6. (Cardinality(Cells) <= Capacity)'
        <5>1. Cardinality({}) <= Capacity
          BY FS_EmptySet, SizesAssumption
        <5> QED
          BY <4>5, <5>1, Zenon
      <4> QED
        BY <4>4, <4>6, Zenon DEF DiskOK
    <3> QED
      BY <3>1, <3>2
  <2> QED
    BY <1>4, <2>2, <2>3, <2>4, Zenon DEF SInv
<1> QED
  BY <1>7, <1>8 DEF Erase

\* A write within the limits of the RAM list changes one file.
LEMMA WriteHolds ==
    ASSUME IInv, SInv, [Next]_vars, NEW n \in Names, NEW d \in Data, Write(n, d)
    PROVE  SInv'
<1>1. /\ ram' = With(ram, n, d) /\ UNCHANGED <<mounted, table, blocks, behind>>
      /\ pc = "idle" /\ op = NoOp /\ HasRoom(ram, n, d)
  BY Zenon DEF Write, Begin, IInv, FlightOK
<1>2. OneEntryEach' /\ Cells' = Cells
  BY <1>1, TableFrame, Zenon DEF SInv
<1>3. RamOK'
  <2>1. ram \in Files /\ IsFiniteSet(DOMAIN ram)
    BY Zenon DEF IInv, TypeOK, SInv, RamOK
  <2>2. /\ IsFiniteSet(DOMAIN With(ram, n, d))
        /\ Used(With(ram, n, d)) = Used(Without(ram, n)) + Len(d)
    BY <2>1, RoomForWith, Zenon
  <2>3. Used(With(ram, n, d)) <= Capacity
    BY <1>1, <2>2, Zenon DEF HasRoom
  <2>4. IsFiniteSet(DOMAIN ram') /\ Used(ram') <= Capacity
    BY <1>1, <2>2, <2>3, Zenon
  <2> QED
    BY <2>4 DEF RamOK, Used
<1>4. CASE mounted
  <2>1. super' = "dirty" /\ pc' = "plan" /\ op' = Start("save", n)
    BY <1>4, Zenon DEF Write, Begin
  <2>2. op'.kind = "save" /\ op'.name = n /\ op'.todo = {}
    BY <2>1 DEF Start, NoOp
  <2>3. KindOK' /\ ErasedOK' /\ SlotOK' /\ SyncOK'
    BY <1>1, <1>4, <2>1, <2>2 DEF KindOK, ErasedOK, SlotOK, SyncOK
  <2>4. ASSUME NEW m \in Names, m # n, Kept(m) PROVE Kept(m)'
    <3>1. /\ m \in DOMAIN ram' <=> m \in DOMAIN ram
          /\ m \in DOMAIN ram => ram'[m] = ram[m]
      BY <1>1, <2>4, Zenon DEF With
    <3>2. Named(m)' = Named(m) /\ table' = table
      BY <1>1, Zenon DEF Named
    <3>3. pc # "data"
      BY <1>1
    <3> QED
      BY <2>4, <3>1, <3>2, <3>3, KeptStep, Zenon DEF SInv
  <2>5. op.name = 0
    BY <1>1 DEF NoOp
  <2>6. DiskOK'
    BY <1>1, <1>2, <2>2, <2>4, <2>5, NoNameZero, Zenon DEF SInv, DiskOK
  <2> QED
    BY <1>2, <1>3, <2>3, <2>6, Zenon DEF SInv
<1>5. CASE ~mounted
  <2>1. pc' = "idle" /\ op' = NoOp /\ ~mounted'
    BY <1>1, <1>5 DEF Write
  <2>2. KindOK' /\ ErasedOK' /\ SlotOK' /\ SyncOK'
    BY <2>1, RestFacts, Zenon
  <2>3. DiskOK'
    BY <2>1, Zenon DEF DiskOK
  <2> QED
    BY <1>2, <1>3, <2>2, <2>3, Zenon DEF SInv
<1> QED
  BY <1>4, <1>5

\* delete_as makes room in RAM.
LEMMA DeleteHolds ==
    ASSUME IInv, SInv, [Next]_vars, NEW n \in Names, Delete(n)
    PROVE  SInv'
<1>1. /\ ram' = Without(ram, n) /\ UNCHANGED <<mounted, table, blocks, behind>>
      /\ pc = "idle" /\ op = NoOp
  BY Zenon DEF Delete, Begin, IInv, FlightOK
<1>2. OneEntryEach' /\ Cells' = Cells
  BY <1>1, TableFrame, Zenon DEF SInv
<1>3. RamOK'
  <2>1. ram \in Files /\ IsFiniteSet(DOMAIN ram) /\ ram' \in Files
    BY <1>1, FilesWithout, Zenon DEF IInv, TypeOK, SInv, RamOK
  <2>2. DOMAIN ram' = DOMAIN ram \ {n} /\ \A m \in DOMAIN ram' : ram'[m] = ram[m]
    BY <1>1, Zenon DEF Without
  <2>3. IsFiniteSet(DOMAIN ram')
    BY <2>1, <2>2, FS_RemoveElement, Zenon
  <2>4. CellsOf(ram') \subseteq CellsOf(ram)
    BY <2>2, Zenon DEF CellsOf
  <2>5. IsFiniteSet(CellsOf(ram)) /\ Used(ram) = Cardinality(CellsOf(ram))
    BY <2>1, CellsFinite, Zenon
  <2>6. Used(ram') = Cardinality(CellsOf(ram'))
    BY <2>1, <2>3, CellsFinite, Zenon
  <2>7. mounted' => Used(ram') <= Capacity
    BY <1>1, <2>4, <2>5, <2>6, FewerCells, Zenon DEF SInv, RamOK
  <2> QED
    BY <2>3, <2>7 DEF RamOK, Used
<1>4. CASE mounted
  <2>1. super' = "dirty" /\ pc' = "unlink" /\ op' = Start("delete", n)
    BY <1>4, Zenon DEF Delete, Begin
  <2>2. op'.kind = "delete" /\ op'.name = n /\ op'.todo = {}
    BY <2>1 DEF Start, NoOp
  <2>3. n \notin DOMAIN ram'
    BY <1>1, Zenon DEF Without
  <2>4. KindOK' /\ ErasedOK' /\ SlotOK' /\ SyncOK'
    BY <1>1, <1>4, <2>1, <2>2, <2>3 DEF KindOK, ErasedOK, SlotOK, SyncOK
  <2>5. ASSUME NEW m \in Names, m # n, Kept(m) PROVE Kept(m)'
    <3>1. /\ m \in DOMAIN ram' <=> m \in DOMAIN ram
          /\ m \in DOMAIN ram => ram'[m] = ram[m]
      BY <1>1, <2>5, Zenon DEF Without
    <3>2. Named(m)' = Named(m) /\ table' = table
      BY <1>1, Zenon DEF Named
    <3>3. pc # "data"
      BY <1>1
    <3> QED
      BY <2>5, <3>1, <3>2, <3>3, KeptStep, Zenon DEF SInv
  <2>6. op.name = 0
    BY <1>1 DEF NoOp
  <2>7. DiskOK'
    BY <1>1, <1>2, <2>2, <2>5, <2>6, NoNameZero, Zenon DEF SInv, DiskOK
  <2> QED
    BY <1>2, <1>3, <2>4, <2>7, Zenon DEF SInv
<1>5. CASE ~mounted
  <2>1. pc' = "idle" /\ op' = NoOp /\ ~mounted'
    BY <1>1, <1>5 DEF Delete
  <2>2. KindOK' /\ ErasedOK' /\ SlotOK' /\ SyncOK'
    BY <2>1, RestFacts, Zenon
  <2>3. DiskOK'
    BY <2>1, Zenon DEF DiskOK
  <2> QED
    BY <1>2, <1>3, <2>2, <2>3, Zenon DEF SInv
<1> QED
  BY <1>4, <1>5

\* The operations that begin by writing the superblock only.
LEMMA BeginningHolds ==
    ASSUME IInv, SInv, [Next]_vars, SyncAll \/ FormatActive \/ BootFormat
    PROVE  SInv'
<1>1. UNCHANGED <<ram, mounted, table, blocks>> /\ pc \in {"idle", "off"}
  BY Zenon DEF SyncAll, Begin, FormatActive, BootFormat
<1>2. OneEntryEach' /\ Cells' = Cells
  BY <1>1, TableFrame, Zenon DEF SInv
<1>3. RamOK'
  BY <1>1 DEF SInv, RamOK, Used
<1>4. op.name = 0
  BY <1>1 DEF IInv, FlightOK, NoOp
<1>5. CASE SyncAll
  <2>1. /\ mounted /\ super' = "dirty" /\ pc' = "prune" /\ op' = Start("sync", 0)
        /\ UNCHANGED behind
    BY <1>5, Zenon DEF SyncAll, Begin
  <2>2. op'.kind = "sync" /\ op'.name = 0 /\ op'.todo = {}
    BY <2>1 DEF Start, NoOp
  <2>3. KindOK' /\ ErasedOK' /\ SlotOK' /\ SyncOK'
    BY <1>1, <2>1, <2>2 DEF KindOK, ErasedOK, SlotOK, SyncOK
  <2>4. pc # "data"
    BY <1>1
  <2>5. \A n \in Names : Kept(n) => Kept(n)'
    BY <1>1, <2>4, KeptFrame, Zenon DEF SInv
  <2>6. DiskOK'
    BY <1>1, <1>2, <1>4, <2>1, <2>2, <2>5, Zenon DEF SInv, DiskOK
  <2> QED
    BY <1>2, <1>3, <2>3, <2>6, Zenon DEF SInv
<1>6. CASE FormatActive \/ BootFormat
  <2>1. PICK k \in {"format", "init"} :
           /\ op' = Start(k, 0) /\ pc' = "erase"
           /\ k = "format" => mounted /\ behind' = TRUE
           /\ k = "init" => pc = "off"
    BY <1>6 DEF FormatActive, BootFormat
  <2>2. op'.kind = k /\ op'.name = 0 /\ op'.todo = {} /\ op'.pos = 0
    BY <2>1 DEF Start, NoOp
  <2>3. k = "init" => ~mounted /\ ram = NoFiles
    BY <2>1, Zenon DEF SInv, KindOK
  <2>4. KindOK' /\ SlotOK' /\ SyncOK'
    BY <1>1, <2>1, <2>2, <2>3 DEF KindOK, SlotOK, SyncOK
  <2>5. ErasedOK'
    <3>1. 0 \in Slots /\ \A i \in Slots : ~(i < 0)
      BY SizesAssumption DEF Slots
    <3> QED
      BY <2>2, <3>1, Zenon DEF ErasedOK
  <2>6. DiskOK'
    BY <1>1, <2>1, <2>3 DEF DiskOK
  <2> QED
    BY <1>2, <1>3, <2>4, <2>5, <2>6, Zenon DEF SInv
<1> QED
  BY <1>5, <1>6

\* What a mount loads is what the disk holds.
LEMMA OnDiskFiles ==
    ASSUME IInv, OneEntryEach, LoadsFully
    PROVE  \A n : /\ n \in DOMAIN OnDisk <=> Named(n) # {}
                  /\ \A i \in Named(n) : OnDisk[n] = FileAt(i)
<1>1. OnDisk = LoadedBelow(MaxFiles)
  BY LoadedFits, Zenon
<1>2. MaxFiles \in 0..MaxFiles /\ \A j \in Slots : j < MaxFiles
  BY SizesAssumption DEF Slots
<1>3. DOMAIN OnDisk =
        {table[j].name : j \in {k \in Slots : k < MaxFiles /\ table[k].active}}
  BY <1>1, <1>2, LoadedNames, Zenon
<1>4. \A j \in Slots : table[j].active => OnDisk[table[j].name] = FileAt(j)
  BY <1>1, <1>2, LoadedFile, Zenon
<1> QED
  BY <1>2, <1>3, <1>4, Zenon DEF Named

\* disk::init mounts only what it has loaded in full.
LEMMA BootHolds ==
    ASSUME IInv, SInv, BootLoad \/ BootError
    PROVE  SInv'
<1>1. /\ UNCHANGED <<table, blocks, op>> /\ pc = "off" /\ pc' = "idle"
  BY Zenon DEF BootLoad, BootError
<1>2. op = NoOp /\ ~mounted /\ op' = NoOp
  BY <1>1, Zenon DEF IInv, FlightOK, SInv, KindOK
<1>3. KindOK' /\ ErasedOK' /\ SlotOK' /\ SyncOK' /\ op'.name = 0
  BY <1>1, <1>2, RestFacts, Zenon
<1>4. OneEntryEach' /\ Cells' = Cells
  BY <1>1, TableFrame, Zenon DEF SInv
<1>5. CASE BootLoad /\ LoadsFully
  <2>1. ram' = OnDisk
    BY <1>5, Zenon DEF BootLoad
  <2>2. /\ IsFiniteSet(DOMAIN OnDisk) /\ Used(OnDisk) <= Capacity
        /\ Cardinality(Cells) <= Capacity
    BY <1>5, LoadedFits, Zenon DEF SInv
  <2>3. RamOK'
    <3>1. IsFiniteSet(DOMAIN ram') /\ Used(ram') <= Capacity
      BY <2>1, <2>2, Zenon
    <3> QED
      BY <3>1 DEF RamOK, Used
  <2>4. ASSUME NEW n \in Names PROVE Kept(n)'
    <3>1. Named(n)' = Named(n) /\ \A i \in Slots : FileAt(i)' = FileAt(i)
      BY <1>1 DEF Named, FileAt
    <3>2. /\ n \in DOMAIN ram' <=> Named(n) # {}
          /\ \A i \in Named(n) : ram'[n] = FileAt(i)
      BY <1>5, <2>1, OnDiskFiles, Zenon DEF SInv
    <3>3. Named(n) \subseteq Slots
      BY Zenon DEF Named
    <3> QED
      BY <3>1, <3>2, <3>3, Zenon DEF Kept
  <2>5. DiskOK'
    BY <1>4, <2>2, <2>4, Zenon DEF DiskOK
  <2> QED
    BY <1>3, <1>4, <2>3, <2>5, Zenon DEF SInv
<1>6. CASE ~(BootLoad /\ LoadsFully)
  <2>1. mounted' = FALSE
    BY <1>2, <1>6 DEF BootLoad, BootError
  <2>2. PICK i \in Slots : ram' = LoadedBelow(i)
    <3>1. CASE BootError
      BY <3>1, Zenon DEF BootError, Slots
    <3>2. CASE BootLoad
      <4>1. Rejected # {} /\ ram' = LoadedBelow(Least(Rejected))
        BY <1>6, <3>2, Zenon DEF BootLoad, OnDisk, LoadsFully
      <4>2. Rejected \subseteq Slots /\ Slots \subseteq Nat
        BY SizesAssumption DEF Rejected, Slots
      <4>3. Least(Rejected) \in Slots
        BY <4>1, <4>2, LeastIsIn, Zenon
      <4> QED
        BY <4>1, <4>3, Zenon
    <3> QED
      BY <3>1, <3>2
  <2>3. i \in 0..MaxFiles
    BY SizesAssumption DEF Slots
  <2>4. IsFiniteSet(DOMAIN ram')
    BY <2>2, <2>3, LoadedNames, Zenon
  <2>5. RamOK' /\ DiskOK'
    BY <2>1, <2>4, Zenon DEF RamOK, DiskOK
  <2> QED
    BY <1>3, <1>4, <2>5, Zenon DEF SInv
<1> QED
  BY <1>5, <1>6

\* A crash empties RAM and unmounts the disk.
LEMMA CrashHolds ==
    ASSUME SInv, Crash
    PROVE  SInv'
<1>1. /\ pc' = "off" /\ op' = NoOp /\ ram' = NoFiles /\ mounted' = FALSE
      /\ UNCHANGED table
  BY Zenon DEF Crash
<1>2. KindOK' /\ ErasedOK' /\ SlotOK' /\ SyncOK'
  BY <1>1 DEF KindOK, ErasedOK, SlotOK, SyncOK, NoOp
<1>3. RamOK' /\ DiskOK'
  BY <1>1, NoFilesFit, Zenon DEF RamOK, DiskOK
<1>4. OneEntryEach'
  BY <1>1, TableFrame, Zenon DEF SInv
<1> QED
  BY <1>2, <1>3, <1>4, Zenon DEF SInv

-----------------------------------------------------------------------------
(* The theorems about what the disk holds. *)

\* A machine with a blank disk satisfies the second invariant.
LEMMA InitHolds == Init => SInv
<1> SUFFICES ASSUME Init PROVE SInv
  BY Zenon
<1>1. /\ ram = NoFiles /\ mounted = FALSE /\ pc = "off" /\ op = NoOp
      /\ \A i \in Slots : ~table[i].active
  BY DEF Init, Inactive
<1>2. KindOK /\ ErasedOK /\ SlotOK /\ SyncOK
  BY <1>1 DEF KindOK, ErasedOK, SlotOK, SyncOK, NoOp
<1>3. RamOK /\ DiskOK
  BY <1>1, NoFilesFit, Zenon DEF RamOK, DiskOK
<1>4. OneEntryEach
  BY <1>1, Zenon DEF OneEntryEach
<1> QED
  BY <1>2, <1>3, <1>4, Zenon DEF SInv

\* Where names fit their field, every step keeps the second invariant.
LEMMA StepHolds ==
    NamesFit /\ IInv /\ SInv /\ IInv' /\ [Next]_vars => SInv'
<1> SUFFICES ASSUME NamesFit, IInv, SInv, IInv', [Next]_vars PROVE SInv'
  BY Zenon
<1>1. CASE UNCHANGED vars
  <2>1. UNCHANGED <<ram, mounted, super, table, blocks, pc, op, behind>>
    BY <1>1, Zenon DEF vars
  <2>2. OneEntryEach' /\ KindOK' /\ ErasedOK' /\ SlotOK'
    BY <2>1, Zenon DEF SInv, OneEntryEach, KindOK, ErasedOK, SlotOK
  <2>3. RamOK' /\ UNCHANGED Cells /\ \A n : Kept(n)' = Kept(n)
    BY <2>1 DEF SInv, RamOK, Used, Cells, Kept, Named, FileAt
  <2>4. DiskOK' /\ SyncOK'
    BY <2>1, <2>3, Zenon DEF SInv, DiskOK, SyncOK
  <2> QED
    BY <2>2, <2>3, <2>4, Zenon DEF SInv
<1>2. CASE Next
  BY <1>2, WriteHolds, DeleteHolds, BeginningHolds, PlanHolds, WriteBlockHolds,
     WriteEntryHolds, UnlinkHolds, PruneHolds, RefreshHolds, EraseHolds,
     GiveUpHolds, BootHolds, CrashHolds, Zenon
     DEF Next, DeviceError
<1> QED
  BY <1>1, <1>2

\* The second invariant holds always.
LEMMA DiskInvariance ==
    ASSUME NamesFit
    PROVE  Spec => []SInv
<1>1. IInv /\ SInv /\ IInv' /\ [Next]_vars => SInv'
  BY StepHolds, Zenon
<1> QED
  BY <1>1, InitHolds, Invariance, PTL DEF Spec

\* Why the second invariant gives DiskHoldsRam.
LEMMA DiskHolds ==
    IInv /\ SInv => DiskHoldsRam
<1> SUFFICES ASSUME IInv, SInv, mounted, ~behind
             PROVE  /\ LoadsFully
                    /\ \A n \in Names \ {op.name} :
                          /\ n \in DOMAIN ram <=> n \in DOMAIN OnDisk
                          /\ n \in DOMAIN ram => ram[n] = OnDisk[n]
  BY Zenon DEF DiskHoldsRam
<1>1. OneEntryEach /\ Cardinality(Cells) <= Capacity
         /\ \A n \in Names \ {op.name} : Kept(n)
  BY Zenon DEF SInv, DiskOK
<1>2. LoadsFully
  BY <1>1, FittingTableLoads, Zenon
<1>3. ASSUME NEW n \in Names, n # op.name
      PROVE  /\ n \in DOMAIN ram <=> n \in DOMAIN OnDisk
             /\ n \in DOMAIN ram => ram[n] = OnDisk[n]
  BY <1>1, <1>2, <1>3, OnDiskFiles, Zenon DEF Kept
<1> QED
  BY <1>2, <1>3, Zenon

\* On a disk of any size, whatever fails and wherever the machine stops: as
\* long as no operation has failed since the mount or the last complete sync,
\* the disk loads in full and holds the files of RAM and nothing else, except
\* for the one file that is being saved or deleted.  For this the names have to
\* fit their field; a name that is cut there can be another file's.
THEOREM DiskHoldsRamHolds ==
    ASSUME NamesFit
    PROVE  Spec => []DiskHoldsRam
BY DiskInvariance, DiskHolds, Invariance, PTL

\* The step that ends a sync.
LEMMA SyncStep ==
    ASSUME IInv, SInv, [Next]_vars, op.kind = "sync", pc = "refresh",
           super' = "clean", pc' = "idle"
    PROVE  OnDisk' = ram
<1>1. super = "dirty" /\ op.name = 0 /\ op.todo = {} /\ mounted
  BY DEF SInv, KindOK
<1>2. UNCHANGED <<table, blocks>>
  <2>1. Refresh
    BY <1>1 DEF Next, vars, Write, Delete, SyncAll, FormatActive, GiveUp, Plan,
       WriteBlock, WriteEntry, Unlink, Prune, Erase, DeviceError, BootFormat,
       BootLoad, BootError, Crash
  <2> QED
    BY <2>1, Zenon DEF Refresh
<1>3. OneEntryEach /\ RamOK /\ \A n \in Names : Kept(n)
  BY <1>1, NoNameZero, Zenon DEF SInv, SyncOK
<1>4. Cardinality(Cells) <= Capacity
  BY <1>1, <1>3, KeptFits, Zenon
<1>5. LoadsFully
  BY <1>3, <1>4, FittingTableLoads, Zenon
<1>6. OnDisk \in Files /\ ram \in Files
  BY <1>5, LoadedFits, LoadedType, <1>3, Zenon DEF IInv, TypeOK
<1>7. \A n \in Names : /\ n \in DOMAIN OnDisk <=> n \in DOMAIN ram
                       /\ n \in DOMAIN ram => OnDisk[n] = ram[n]
  BY <1>3, <1>5, OnDiskFiles, Zenon DEF Kept
<1>8. DOMAIN OnDisk \subseteq Names /\ DOMAIN ram \subseteq Names
  BY <1>6, FilesType, Zenon
<1>9. OnDisk = ram
  <2>1. OnDisk = [n \in DOMAIN OnDisk |-> OnDisk[n]]
    BY <1>6 DEF Files
  <2>2. ram = [n \in DOMAIN ram |-> ram[n]]
    BY <1>6 DEF Files
  <2>3. DOMAIN OnDisk = DOMAIN ram
    BY <1>7, <1>8, Zenon
  <2> QED
    BY <1>7, <1>8, <2>1, <2>2, <2>3
<1>10. OnDisk' = OnDisk
  <2>1. \A i : LoadedBelow(i)' = LoadedBelow(i) /\ FileAt(i)' = FileAt(i)
    BY <1>2 DEF LoadedBelow, FileAt
  <2>2. Rejected' = Rejected
    BY <1>2, <2>1 DEF Rejected
  <2>3. (LoadsFully <=> Rejected = {}) /\ (LoadsFully' <=> Rejected' = {})
    BY DEF LoadsFully
  <2>4. OnDisk' = LoadedBelow(IF LoadsFully THEN MaxFiles ELSE Least(Rejected))
    BY <2>1, <2>2, <2>3, Zenon DEF OnDisk, LoadsFully
  <2> QED
    BY <2>4, Zenon DEF OnDisk
<1> QED
  BY <1>9, <1>10, Zenon

\* What the sync command reports is true on a disk of any size, also after
\* operations that failed and a format under the files in RAM, as long as every
\* name fits its field: WarDiskLongName.cfg shows what happens where one
\* does not.
THEOREM SyncStoresFilesHolds ==
    ASSUME NamesFit
    PROVE  Spec => SyncStoresFiles
<1>1. IInv /\ SInv /\ [Next]_vars =>
        [op.kind = "sync" /\ pc = "refresh" /\ super' = "clean" /\ pc' = "idle"
            => OnDisk' = ram]_vars
  BY SyncStep, Zenon
<1> QED
  BY <1>1, DiskInvariance, Invariance, PTL DEF Spec, SyncStoresFiles
=============================================================================
