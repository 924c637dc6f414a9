-------------------------- MODULE AllocatorProofs --------------------------
(***************************************************************************)
(* The two allocators that look for the first fit.  The frame allocator    *)
(* keeps its accounts for every memory map, heap size and sequence of      *)
(* requests: the free count is the number of clear bits, no frame has two  *)
(* owners, none is lost, a frame that is free is found, and the windows on *)
(* device registers never overlap.  allocate_blocks finds the first fit    *)
(* for every file table and every disk: its loop keeps LoopInv, and        *)
(* LoopInv gives the answer its meaning when the loop ends.                *)
(***************************************************************************)
EXTENDS FrameAllocator, BlockAlloc, FiniteSetTheorems, TLAPS

\* The part of the inductive invariant about frames and their owners.  What is
\* not in the properties: a frame that is clear in the bitmap is usable, and
\* the usable frames lie below the index the scans stop at.
Accounts ==
  /\ map \in MemoryMaps
  /\ allocated \subseteq 0..(MaxFrames - 1)
  /\ top \in 1..MaxFrames /\ hint \in 1..top
  /\ total = Cardinality(Usable) /\ free = Cardinality(Usable \ allocated)
  /\ Usable \subseteq 1..(top - 1)
  /\ (0..(MaxFrames - 1)) \ allocated \subseteq Usable
  /\ dma \subseteq [start : Nat \ {0}, count : Nat \ {0}]
  /\ HeldApart /\ NothingLost

\* The part about the windows.
Mappings ==
  /\ heapTables \subseteq Nat /\ mmioTables \subseteq Nat /\ nextMmio \in 0..MmioEnd
  /\ windows \subseteq [base : Nat, count : Nat]
  /\ holder \in {"heap", "heapmap", "mmio", "nobody", "halted"}
  /\ at \in [base : Nat, index : Nat, count : Nat]
  /\ MmioApart

IInv == Accounts /\ Mappings

-----------------------------------------------------------------------------
\* What is usable only depends on the memory map.
LEMMA UsableStays == ASSUME UNCHANGED map PROVE Usable' = Usable
    BY DEF Usable, Start, RegionEnd

\* The usable frames are finitely many, and so are the clear ones.
LEMMA FramesFinite ==
    ASSUME top \in Nat, Usable \subseteq 1..(top - 1)
    PROVE  /\ IsFiniteSet(Usable) /\ IsFiniteSet(Usable \ allocated)
           /\ Cardinality(Usable) \in Nat /\ Cardinality(Usable \ allocated) \in Nat
           /\ Cardinality(Usable \ allocated) <= Cardinality(Usable)
<1>1. IsFiniteSet(1..(top - 1))
    BY FS_Interval
<1>2. IsFiniteSet(Usable)
    BY <1>1, FS_Subset, Zenon
<1>3. Usable \ allocated \in SUBSET Usable
    OBVIOUS
<1> QED
    BY <1>2, <1>3, FS_Subset, FS_CardinalityType

\* A frame the scan gives out is usable and was free.
LEMMA ClearIsUsable ==
    ASSUME Accounts, NEW f \in 1..(top - 1), f \notin allocated
    PROVE  f \in Usable \ allocated
    BY FrameAssumption DEF Accounts

\* Allocate gives out a frame that is clear.
LEMMA AllocateGivesClear ==
    ASSUME NEW f, Allocate(f)
    PROVE  f \notin allocated
    BY DEF Allocate, Scan

\* Frames that move from the clear ones to an owner leave the count true.
LEMMA CountAfterTaking ==
    ASSUME Accounts, NEW taken, taken \subseteq Usable \ allocated
    PROVE  Cardinality(Usable \ (allocated \cup taken)) = free - Cardinality(taken)
<1>1. IsFiniteSet(Usable \ allocated)
    BY FramesFinite DEF Accounts
<1>2. (Usable \ allocated) \cap taken = taken
    OBVIOUS
<1>3. Usable \ (allocated \cup taken) = (Usable \ allocated) \ taken
    OBVIOUS
<1> QED
    BY <1>1, <1>2, <1>3, FS_Difference, ZenonT(60) DEF Accounts

\* So do frames that an owner gives back.
LEMMA CountAfterGiving ==
    ASSUME Accounts, NEW given, given \subseteq Usable \cap allocated
    PROVE  Cardinality(Usable \ (allocated \ given)) = free + Cardinality(given)
<1>1. IsFiniteSet(Usable \ allocated) /\ IsFiniteSet(Usable)
    BY FramesFinite DEF Accounts
<1>2. IsFiniteSet(given)
    BY <1>1, FS_Subset
<1>3. Usable \ (allocated \ given) = (Usable \ allocated) \cup given
    OBVIOUS
<1>4. (Usable \ allocated) \cap given = {}
    OBVIOUS
<1>5. Cardinality(Usable \ allocated) \in Nat /\ Cardinality(given) \in Nat
    BY <1>1, <1>2, FS_CardinalityType
<1>6. Cardinality((Usable \ allocated) \cup given)
        = Cardinality(Usable \ allocated) + Cardinality(given)
          - Cardinality((Usable \ allocated) \cap given)
    BY <1>1, <1>2, FS_Union
<1>7. Cardinality((Usable \ allocated) \cap given) = 0
    BY <1>4, FS_EmptySet
<1>8. free = Cardinality(Usable \ allocated)
    BY DEF Accounts
<1>9. Cardinality(Usable \ (allocated \ given)) = Cardinality((Usable \ allocated) \cup given)
    BY <1>3, Zenon
<1> QED
    BY <1>5, <1>6, <1>7, <1>8, <1>9

-----------------------------------------------------------------------------
\* A frame is held exactly when a region, a program or the kernel holds it.
LEMMA HeldBy ==
    \A f : f \in Held <=> \/ \E r \in dma : f \in DmaFrames(r)
                         \/ f \in pages \/ f \in kept
<1> SUFFICES ASSUME NEW f
             PROVE  f \in Held <=> \/ \E r \in dma : f \in DmaFrames(r)
                                  \/ f \in pages \/ f \in kept
    OBVIOUS
<1>1. f \in UNION {DmaFrames(r) : r \in dma} <=> \E r \in dma : f \in DmaFrames(r)
    OBVIOUS
<1> QED
    BY <1>1 DEF Held

\* The accounts after one frame went to a program or to the kernel.
LEMMA TakeOne ==
    ASSUME Accounts, UNCHANGED map, UNCHANGED dma, NEW f \in 1..(top - 1), Allocate(f),
           \/ pages' = pages \cup {f} /\ UNCHANGED kept
           \/ kept' = kept \cup {f} /\ UNCHANGED pages
    PROVE  Accounts'
<1>1. f \in Usable \ allocated
    BY AllocateGivesClear, ClearIsUsable
<1>2. Usable' = Usable
    BY UsableStays
<1>3. allocated' = allocated \cup {f} /\ free' = free - 1 /\ hint' = f + 1
      /\ total' = total /\ top' = top
    BY DEF Allocate
<1>4. f \notin Held
    BY <1>1 DEF Accounts, NothingLost
<1>5. free' = Cardinality(Usable' \ allocated')
  <2>1. Cardinality({f}) = 1 /\ {f} \subseteq Usable \ allocated
    BY <1>1, FS_Singleton
  <2>2. Cardinality(Usable \ (allocated \cup {f})) = free - 1
    BY <2>1, CountAfterTaking
  <2> QED
    BY <1>2, <1>3, <2>2
<1>6. HeldApart'
    BY <1>4, HeldBy DEF Accounts, HeldApart, DmaFrames, FrameRun
<1>7. NothingLost'
  <2>1. UNION {DmaFrames(r) : r \in dma}' = UNION {DmaFrames(r) : r \in dma}
    BY DEF DmaFrames, FrameRun
  <2>2. Held' = Held \cup {f}
    BY <2>1 DEF Held
  <2> QED
    BY <1>1, <1>2, <1>3, <2>2 DEF Accounts, NothingLost
<1>8. hint' \in 1..top' /\ top' \in 1..MaxFrames
    BY <1>3, FrameAssumption DEF Accounts
<1>9. allocated' \subseteq 0..(MaxFrames - 1)
    BY <1>3, FrameAssumption DEF Accounts
<1> QED
    BY <1>2, <1>3, <1>5, <1>6, <1>7, <1>8, <1>9 DEF Accounts

\* The accounts after a DMA region was taken.
LEMMA TakeRun ==
    ASSUME Accounts, UNCHANGED <<map, pages, kept>>,
           NEW size \in Nat, NEW first \in 1..(top - 1), AllocateContiguous(first, size),
           dma' = dma \cup {[start |-> first, count |-> size]}
    PROVE  Accounts'
<1>1. size \in Nat \ {0} /\ first + size <= top /\ RunFree(first, size)
    BY FrameAssumption DEF AllocateContiguous, Runs, Accounts
<1>2. FrameRun(first, size) \subseteq Usable \ allocated
    BY <1>1, FrameAssumption DEF FrameRun, RunFree, Accounts
<1>3. Usable' = Usable
    BY UsableStays
<1>4. allocated' = allocated \cup FrameRun(first, size) /\ free' = free - size
      /\ hint' = first + size /\ total' = total /\ top' = top
    BY DEF AllocateContiguous
<1>5. FrameRun(first, size) \cap Held = {}
    BY <1>2 DEF Accounts, NothingLost
<1>6. Cardinality(FrameRun(first, size)) = size
    BY <1>1, FS_Interval DEF FrameRun
<1>7. free' = Cardinality(Usable' \ allocated')
    BY <1>2, <1>3, <1>4, <1>6, CountAfterTaking
<1> DEFINE new == [start |-> first, count |-> size]
<1>8. DmaFrames(new) = FrameRun(first, size)
    BY DEF DmaFrames
<1>9. \A r \in dma' : r \in dma \/ r = new
    OBVIOUS
<1>10. HeldApart'
  <2>1. \A r \in dma : DmaFrames(r) \cap DmaFrames(new) = {}
    BY <1>5, <1>8, HeldBy
  <2>2. DmaFrames(new) \cap (pages \cup kept) = {}
    BY <1>5, <1>8, HeldBy
  <2>3. \A r : DmaFrames(r)' = DmaFrames(r)
    BY DEF DmaFrames, FrameRun
  <2> QED
    BY <1>9, <2>1, <2>2, <2>3 DEF Accounts, HeldApart
<1>11. NothingLost'
  <2>1. Held' = Held \cup FrameRun(first, size)
    BY <1>8, Zenon DEF Held, DmaFrames, FrameRun
  <2> QED
    BY <1>2, <1>3, <1>4, <2>1 DEF Accounts, NothingLost
<1>12. hint' \in 1..top' /\ top' \in 1..MaxFrames
    BY <1>1, <1>4, FrameAssumption DEF Accounts
<1>13. allocated' \subseteq 0..(MaxFrames - 1)
    BY <1>1, <1>4, FrameAssumption DEF Accounts, FrameRun
<1>14. dma' \subseteq [start : Nat \ {0}, count : Nat \ {0}]
    BY <1>1, FrameAssumption DEF Accounts
<1> QED
    BY <1>3, <1>4, <1>7, <1>10, <1>11, <1>12, <1>13, <1>14 DEF Accounts

\* The accounts after a DMA region was dropped: every frame of it goes back.
LEMMA GiveRun ==
    ASSUME Accounts, UNCHANGED <<map, pages, kept>>, NEW r \in dma,
           FreeContiguous(r.start, r.count), dma' = dma \ {r}
    PROVE  Accounts'
<1>1. r.start \in Nat \ {0} /\ r.count \in Nat \ {0}
    BY DEF Accounts
<1>2. DmaFrames(r) \subseteq Usable \cap allocated
    BY HeldBy DEF Accounts, NothingLost
<1>3. Given(r.start, r.count) = DmaFrames(r)
  <2>1. Given(r.start, r.count) = {f \in DmaFrames(r) : f < top} \cap allocated
    BY <1>1 DEF Given, DmaFrames
  <2>2. \A f \in DmaFrames(r) : f < top /\ f \in allocated
    <3>1. \A f \in DmaFrames(r) : f \in 1..(top - 1) /\ f \in allocated
      BY <1>2, Zenon DEF Accounts
    <3>2. top \in Nat
      BY FrameAssumption DEF Accounts
    <3> QED
      BY <3>1, <3>2
  <2> QED
    BY <2>1, <2>2
<1>4. Usable' = Usable
    BY UsableStays
<1>5. allocated' = allocated \ DmaFrames(r) /\ free' = free + Cardinality(DmaFrames(r))
      /\ hint' = hint /\ total' = total /\ top' = top
    BY <1>3 DEF FreeContiguous
<1>6. free' = Cardinality(Usable' \ allocated')
    BY <1>2, <1>4, <1>5, CountAfterGiving
<1>7. \A q : DmaFrames(q)' = DmaFrames(q)
    BY DEF DmaFrames, FrameRun
<1>8. HeldApart'
    BY <1>7 DEF Accounts, HeldApart
<1>9. NothingLost'
  <2>1. ASSUME NEW f
        PROVE  f \in Held' <=> f \in Held /\ f \notin DmaFrames(r)
    <3>1. f \in Held' <=> \/ \E q \in dma' : f \in DmaFrames(q)'
                          \/ f \in pages' \/ f \in kept'
      <4>1. f \in (UNION {DmaFrames(q) : q \in dma})' <=> \E q \in dma' : f \in DmaFrames(q)'
        OBVIOUS
      <4> QED
        BY <4>1 DEF Held
    <3>2. f \in Held' <=> \/ \E q \in dma : q # r /\ f \in DmaFrames(q)
                          \/ f \in pages \/ f \in kept
      BY <3>1, <1>7
    <3>3. \A q \in dma : q # r => DmaFrames(q) \cap DmaFrames(r) = {}
      BY DEF Accounts, HeldApart
    <3>4. DmaFrames(r) \cap (pages \cup kept) = {}
      BY DEF Accounts, HeldApart
    <3> QED
      BY <3>2, <3>3, <3>4, HeldBy
  <2>2. Held' = Held \ DmaFrames(r)
    BY <2>1
  <2> QED
    BY <1>4, <1>5, <2>2 DEF Accounts, NothingLost
<1>10. (0..(MaxFrames - 1)) \ allocated' \subseteq Usable'
    BY <1>2, <1>4, <1>5 DEF Accounts
<1> QED
    BY <1>4, <1>5, <1>6, <1>8, <1>9, <1>10, Zenon DEF Accounts

\* The accounts after a page of a program was unmapped.
LEMMA GivePage ==
    ASSUME Accounts, UNCHANGED <<map, dma, kept>>, NEW f \in pages,
           FreeFrame(f), pages' = pages \ {f}
    PROVE  Accounts'
<1>1. f \in Usable \cap allocated
    BY HeldBy DEF Accounts, NothingLost
<1>2. f # 0 /\ ~(f >= top)
    BY <1>1 DEF Accounts
<1>3. Usable' = Usable
    BY UsableStays
<1>4. {f} \cap allocated = {f}
    BY <1>1
<1>5. allocated' = allocated \ {f} /\ free' = free + Cardinality({f})
      /\ hint' = hint /\ total' = total /\ top' = top
    BY <1>2, <1>4 DEF FreeFrame
<1>6. free' = Cardinality(Usable' \ allocated')
  <2>1. {f} \subseteq Usable \cap allocated
    BY <1>1
  <2> QED
    BY <1>3, <1>5, <2>1, CountAfterGiving
<1>7. HeldApart'
    BY DEF Accounts, HeldApart, DmaFrames, FrameRun
<1>8. NothingLost'
  <2>1. (UNION {DmaFrames(r) : r \in dma})' = UNION {DmaFrames(r) : r \in dma}
    BY DEF DmaFrames, FrameRun
  <2>2. f \notin UNION {DmaFrames(r) : r \in dma} /\ f \notin kept
    BY DEF Accounts, HeldApart
  <2>3. Held' = Held \ {f}
    BY <2>1, <2>2 DEF Held
  <2> QED
    BY <1>3, <1>5, <2>3 DEF Accounts, NothingLost
<1>9. (0..(MaxFrames - 1)) \ allocated' \subseteq Usable'
    BY <1>1, <1>3, <1>5 DEF Accounts
<1> QED
    BY <1>3, <1>5, <1>6, <1>7, <1>8, <1>9, Zenon DEF Accounts

\* The accounts when nothing is allocated or given back.
LEMMA AccountsStay ==
    ASSUME Accounts, UNCHANGED <<map, allocator, dma, pages, kept>>
    PROVE  Accounts'
<1>1. Usable' = Usable
    BY UsableStays
<1>2. HeldApart' /\ NothingLost'
    BY <1>1 DEF Accounts, HeldApart, NothingLost, Held, DmaFrames, FrameRun, allocator
<1> QED
    BY <1>1, <1>2 DEF Accounts, allocator

\* The state the boot leaves the allocator in.
LEMMA AccountsInit == FramesInit => Accounts
<1> SUFFICES ASSUME FramesInit PROVE Accounts
    OBVIOUS
<1> USE DEF FramesInit, InitAllocator
<1>1. ASSUME NEW f \in Usable PROVE f \in 1..(top - 1)
  <2>1. PICK r \in map : r.usable /\ f \in Start(r)..(RegionEnd(r) - 1)
    BY DEF Usable
  <2>2. r \in [start : Nat, end : Nat, usable : BOOLEAN]
    BY FrameAssumption
  <2>3. Start(r) \in Nat /\ Start(r) >= 1 /\ RegionEnd(r) \in Nat /\ RegionEnd(r) <= top
    BY <2>1, <2>2, FrameAssumption DEF Start, RegionEnd
  <2> QED
    BY <2>1, <2>3, FrameAssumption
<1>2. Usable \subseteq 0..(MaxFrames - 1)
    BY <1>1, FrameAssumption
<1>3. Usable \ allocated = Usable
    BY <1>2
<1>4. hint \in 1..top /\ top \in 1..MaxFrames
    BY FrameAssumption
<1>5. HeldApart
    BY DEF HeldApart
<1>6. NothingLost
  <2>1. Held = {}
    BY DEF Held
  <2> QED
    BY <2>1 DEF NothingLost
<1> QED
    BY <1>1, <1>2, <1>3, <1>4, <1>5, <1>6, Zenon DEF Accounts

-----------------------------------------------------------------------------
\* The windows after each of the steps that touch them.

LEMMA MappingsInit == FramesInit => Mappings
<1> SUFFICES ASSUME FramesInit PROVE Mappings
    OBVIOUS
<1> QED
    BY FrameAssumption DEF FramesInit, Mappings, MmioApart

LEMMA MappingsStay == ASSUME Mappings, UNCHANGED mapping PROVE Mappings'
    BY DEF Mappings, MmioApart, Window, mapping

\* The quotient of two natural numbers is one.
LEMMA DivNat == ASSUME NEW a \in Nat, NEW b \in Nat \ {0} PROVE a \div b \in Nat
    OBVIOUS

\* A step of a loop leaves the windows, and the range being mapped, alone.
LEMMA LoopKeepsMappings ==
    ASSUME Mappings, UNCHANGED <<nextMmio, windows>>,
           heapTables' \subseteq Nat, mmioTables' \subseteq Nat,
           at' = at \/ at' = [at EXCEPT !.index = @ + 1],
           holder' \in {"heap", "heapmap", "mmio", "nobody", "halted"}, holder' = "mmio" => holder = "mmio"
    PROVE  Mappings'
<1>1. at' \in [base : Nat, index : Nat, count : Nat] /\ at'.base = at.base /\ at'.count = at.count
    BY DEF Mappings
<1>2. Window(at)' = Window(at)
    BY <1>1 DEF Window
<1> QED
    BY <1>1, <1>2 DEF Mappings, MmioApart, Window

LEMMA BeginKeepsMappings == ASSUME Mappings, MmioBegin PROVE Mappings'
<1>1. PICK w \in Registers : /\ nextMmio + MappingLen(w) <= MmioEnd
                            /\ nextMmio' = nextMmio + MappingLen(w)
                            /\ at' = [base |-> nextMmio, index |-> 0, count |-> MappingLen(w)]
    BY DEF MmioBegin, Reserve
<1>2. MappingLen(w) \in Nat
  <2>1. w.offset \in Nat /\ w.size \in Nat /\ PageSize \in Nat \ {0}
    BY FrameAssumption
  <2>2. w.offset + w.size + PageSize - 1 \in Nat
    BY <2>1
  <2> QED
    BY <2>1, <2>2, DivNat DEF MappingLen
<1>3. nextMmio \in Nat /\ nextMmio' \in 0..MmioEnd
    BY <1>1, <1>2, FrameAssumption DEF Mappings
<1>4. at' \in [base : Nat, index : Nat, count : Nat]
    BY <1>1, <1>2, <1>3
<1>5. \A w2 \in windows : w2.base \in Nat /\ w2.count \in Nat /\ w2.base + w2.count <= nextMmio
    BY DEF Mappings, MmioApart
<1>6. \A w2 \in windows : Window(w2) \cap Window(at') = {}
    BY <1>1, <1>2, <1>3, <1>5 DEF Window
<1>7. at'.base + at'.count <= nextMmio'
    BY <1>1
<1>8. \A w2 \in windows : w2.base + w2.count <= nextMmio'
    BY <1>1, <1>2, <1>3, <1>5
<1>9. windows' = windows /\ heapTables' = heapTables /\ mmioTables' = mmioTables /\ holder' = "mmio"
    BY DEF MmioBegin
<1>10. MmioApart'
    BY <1>6, <1>7, <1>8, <1>9 DEF Mappings, MmioApart, Window
<1> QED
    BY <1>3, <1>4, <1>9, <1>10 DEF Mappings

LEMMA EndKeepsMappings == ASSUME Mappings, MmioEnds PROVE Mappings'
<1>1. windows' = windows \cup {[base |-> at.base, count |-> at.count]} /\ holder' = "nobody"
      /\ UNCHANGED <<nextMmio, heapTables, mmioTables, at>>
    BY DEF MmioEnds
<1> DEFINE new == [base |-> at.base, count |-> at.count]
<1>2. Window(new) = Window(at) /\ new.base + new.count <= nextMmio
      /\ \A w \in windows : Window(w) \cap Window(at) = {}
    BY DEF MmioEnds, Mappings, MmioApart, Window
<1>3. new \in [base : Nat, count : Nat]
    BY DEF Mappings
<1>4. \A w \in windows' : w \in windows \/ w = new
    BY <1>1
<1>5. MmioApart'
    BY <1>1, <1>2, <1>4 DEF Mappings, MmioApart, Window
<1> QED
    BY <1>1, <1>3, <1>5 DEF Mappings

-----------------------------------------------------------------------------
\* Every step keeps the accounts: one case per action.
LEMMA StepKeepsAccounts == ASSUME Accounts, FramesNext PROVE Accounts'
<1>1. UNCHANGED map
    BY DEF FramesNext
<1>2. CASE HeapFrame
  <2>1. CASE \E f \in 1..(top - 1) : Allocate(f) /\ kept' = kept \cup {f}
    BY <1>1, <1>2, <2>1, TakeOne DEF HeapFrame
  <2>2. CASE UNCHANGED <<allocator, kept>>
    BY <1>1, <1>2, <2>2, AccountsStay DEF HeapFrame
  <2> QED
    BY <1>2, <2>1, <2>2 DEF HeapFrame
<1>3. CASE HeapMap
  <2>1. CASE \E f \in 1..(top - 1) : Allocate(f) /\ kept' = kept \cup {f}
    BY <1>1, <1>3, <2>1, TakeOne DEF HeapMap
  <2>2. CASE UNCHANGED <<allocator, kept>>
    BY <1>1, <1>3, <2>2, AccountsStay DEF HeapMap
  <2> QED
    BY <1>3, <2>1, <2>2 DEF HeapMap
<1>4. CASE HeapReady
    BY <1>1, <1>4, AccountsStay DEF HeapReady
<1>5. CASE DmaAllocate
  <2>1. PICK size \in Counts, first \in 1..(top - 1) :
          AllocateContiguous(first, size) /\ dma' = dma \cup {[start |-> first, count |-> size]}
    BY <1>5 DEF DmaAllocate
  <2>2. size \in Nat
    BY FrameAssumption
  <2> QED
    BY <1>1, <1>5, <2>1, <2>2, TakeRun DEF DmaAllocate
<1>6. CASE DmaDrop
  <2>1. PICK r \in dma : FreeContiguous(r.start, r.count) /\ dma' = dma \ {r}
    BY <1>6 DEF DmaDrop
  <2> QED
    BY <1>1, <1>6, <2>1, GiveRun DEF DmaDrop
<1>7. CASE PageAllocate
    BY <1>1, <1>7, TakeOne DEF PageAllocate
<1>8. CASE PageFree
    BY <1>1, <1>8, GivePage DEF PageFree
<1>9. CASE MmioBegin
    BY <1>1, <1>9, AccountsStay DEF MmioBegin
<1>10. CASE MmioStep
  <2>1. CASE \E f \in 1..(top - 1) : Allocate(f) /\ kept' = kept \cup {f}
    BY <1>1, <1>10, <2>1, TakeOne DEF MmioStep
  <2>2. CASE UNCHANGED <<allocator, kept>>
    BY <1>1, <1>10, <2>2, AccountsStay DEF MmioStep
  <2> QED
    BY <1>10, <2>1, <2>2 DEF MmioStep
<1>11. CASE MmioEnds
    BY <1>1, <1>11, AccountsStay DEF MmioEnds
<1> QED
    BY <1>2, <1>3, <1>4, <1>5, <1>6, <1>7, <1>8, <1>9, <1>10, <1>11 DEF FramesNext

\* Every step keeps the windows apart.
LEMMA StepKeepsMappings == ASSUME Mappings, FramesNext PROVE Mappings'
<1>1. at.index \in Nat /\ at.base \in Nat /\ heapTables \subseteq Nat /\ mmioTables \subseteq Nat
    BY DEF Mappings
<1>2. at.index \div TablePages \in Nat
    BY <1>1, DivNat, FrameAssumption
<1>3. TableAt \in Nat
  <2>1. at.base + at.index \in Nat
    BY <1>1
  <2> QED
    BY <2>1, DivNat, FrameAssumption DEF TableAt
<1>4. CASE HeapFrame
    BY <1>1, <1>4, LoopKeepsMappings DEF HeapFrame
<1>5. CASE HeapMap
  <2>1. heapTables' \subseteq Nat /\ (at' = at \/ at' = [at EXCEPT !.index = @ + 1])
        /\ holder' \in {"heap", "halted"}
    BY <1>1, <1>2, <1>5 DEF HeapMap
  <2> QED
    BY <1>1, <1>5, <2>1, LoopKeepsMappings DEF HeapMap
<1>6. CASE HeapReady
    BY <1>1, <1>6, LoopKeepsMappings DEF HeapReady
<1>7. CASE DmaAllocate \/ DmaDrop \/ PageAllocate \/ PageFree
    BY <1>7, MappingsStay DEF DmaAllocate, DmaDrop, PageAllocate, PageFree
<1>8. CASE MmioBegin
    BY <1>8, BeginKeepsMappings
<1>9. CASE MmioStep
  <2>1. mmioTables' \subseteq Nat /\ (at' = at \/ at' = [at EXCEPT !.index = @ + 1])
        /\ holder' \in {"mmio", "nobody"} /\ holder = "mmio"
    BY <1>1, <1>3, <1>9 DEF MmioStep
  <2> QED
    BY <1>1, <1>9, <2>1, LoopKeepsMappings DEF MmioStep
<1>10. CASE MmioEnds
    BY <1>10, EndKeepsMappings
<1> QED
    BY <1>4, <1>5, <1>6, <1>7, <1>8, <1>9, <1>10 DEF FramesNext

\* The inductive invariant holds in every reachable state.
THEOREM FramesInductive == FramesSpec => []IInv
<1>1. FramesInit => IInv
    BY AccountsInit, MappingsInit DEF IInv
<1>2. IInv /\ [FramesNext]_framevars => IInv'
  <2> SUFFICES ASSUME IInv, [FramesNext]_framevars PROVE IInv'
    OBVIOUS
  <2>1. CASE FramesNext
    BY <2>1, StepKeepsAccounts, StepKeepsMappings DEF IInv
  <2>2. CASE UNCHANGED framevars
    BY <2>2, AccountsStay, MappingsStay DEF IInv, framevars
  <2> QED
    BY <2>1, <2>2
<1> QED
    BY <1>1, <1>2, PTL DEF FramesSpec

-----------------------------------------------------------------------------
\* The counter of free frames is the number of clear bits, for every memory map
\* and every sequence of allocations and releases.
THEOREM FreeCountHolds == FramesSpec => []FreeCountIsTrue
<1>1. IInv => FreeCountIsTrue
  <2> SUFFICES ASSUME IInv PROVE FreeCountIsTrue
    OBVIOUS
  <2>1. {f \in 1..(top - 1) : f \notin allocated} = Usable \ allocated
    <3>1. \A f \in 1..(top - 1) : f \notin allocated => f \in Usable
      BY ClearIsUsable DEF IInv
    <3>2. Usable \subseteq 1..(top - 1)
      BY DEF IInv, Accounts
    <3> QED
      BY <3>1, <3>2, Zenon
  <2> QED
    BY <2>1, Zenon DEF IInv, Accounts, FreeCountIsTrue
<1> QED
    BY <1>1, FramesInductive, PTL

\* No frame ever has two owners.
THEOREM OwnersHold == FramesSpec => []HeldApart
<1>1. IInv => HeldApart
    BY DEF IInv, Accounts
<1> QED
    BY <1>1, FramesInductive, PTL

\* Every usable frame is free or owned, whatever allocations failed.
THEOREM NothingLostHolds == FramesSpec => []NothingLost
<1>1. IInv => NothingLost
    BY DEF IInv, Accounts
<1> QED
    BY <1>1, FramesInductive, PTL

\* The windows on device registers never overlap.
THEOREM WindowsHold == FramesSpec => []MmioApart
<1>1. IInv => MmioApart
    BY DEF IInv, Mappings
<1> QED
    BY <1>1, FramesInductive, PTL

\* The scan comes round to every frame: from a hint between 1 and top it meets
\* frame f at one of the offsets 0 to top - 1.
LEMMA ScanComesRound ==
    ASSUME NEW m \in Nat \ {0}, NEW h \in 1..m, NEW f \in 1..(m - 1)
    PROVE  \E o \in 0..(m - 1) : (h + o) % m = f
<1>1. CASE f >= h
  <2>1. f - h \in 0..(m - 1) /\ h + (f - h) = f
    BY <1>1
  <2>2. f % m = f
    OBVIOUS
  <2> QED
    BY <2>1, <2>2
<1>2. CASE f < h
  <2>1. f + m - h \in 0..(m - 1) /\ h + (f + m - h) = f + m
    BY <1>2
  <2>2. (f + m) % m = f
    OBVIOUS
  <2> QED
    BY <2>1, <2>2
<1> QED
    BY <1>1, <1>2

\* allocate_frame finds a frame whenever the counter is not zero.
THEOREM FindsFreeHolds == FramesSpec => []AllocationFindsFree
<1>1. IInv => AllocationFindsFree
  <2> SUFFICES ASSUME IInv, free # 0 PROVE Scan # {}
    BY DEF AllocationFindsFree
  <2>1. Usable \ allocated # {}
    BY FS_EmptySet DEF IInv, Accounts
  <2>2. PICK f \in Usable : f \notin allocated
    BY <2>1
  <2>3. f \in 1..(top - 1) /\ top \in Nat \ {0} /\ hint \in 1..top
    <3>1. f \in 1..(top - 1) /\ hint \in 1..top
      BY <2>2, Zenon DEF IInv, Accounts
    <3>2. top \in Nat \ {0}
      BY FrameAssumption DEF IInv, Accounts
    <3> QED
      BY <3>1, <3>2
  <2>4. PICK o \in 0..(top - 1) : (hint + o) % top = f
    BY <2>3, ScanComesRound, Zenon
  <2>5. o \in Scan
    BY <2>2, <2>3, <2>4 DEF Scan
  <2> QED
    BY <2>5
<1> QED
    BY <1>1, FramesInductive, PTL

\* The types hold in every reachable state.
THEOREM TypesHold == FramesSpec => []FramesTypeOK
<1>1. IInv => FramesTypeOK
  <2> SUFFICES ASSUME IInv PROVE FramesTypeOK
    OBVIOUS
  <2>1. total \in Nat /\ free \in 0..total
    BY FramesFinite, FrameAssumption DEF IInv, Accounts
  <2>2. pages \subseteq Usable /\ kept \subseteq Usable
    BY DEF IInv, Accounts, NothingLost, Held
  <2> QED
    BY <2>1, <2>2 DEF IInv, Accounts, Mappings, FramesTypeOK
<1> QED
    BY <1>1, FramesInductive, PTL

\* Nothing is given out twice, frames or pages of the device range: what
\* allocate_frame, allocate_contiguous and map_mmio_region return together.
THEOREM GivenOutOnceHolds == FramesSpec => []GivenOutOnce
BY OwnersHold, WindowsHold, PTL DEF GivenOutOnce

\* The allocator's books are right: counter, owners and search.
THEOREM AccountsHold == FramesSpec => []FramesAccounted
BY FreeCountHolds, NothingLostHolds, FindsFreeHolds, PTL DEF FramesAccounted


-----------------------------------------------------------------------------
(* allocate_blocks. *)

\* The loop starts with nothing passed and the candidate at block 0.
LEMMA LoopInvInit == AllocInit => LoopInv /\ FirstFit
<1> SUFFICES ASSUME AllocInit PROVE LoopInv /\ FirstFit
    OBVIOUS
<1>1. count \in [Entries -> Nat] /\ wanted \in Nat
    BY BlocksAssumption DEF AllocInit
<1>2. n \in Nat /\ next \in 1..n + 1 /\ candidate \in Nat
    BY BlocksAssumption DEF AllocInit
<1>3. \A s \in 0..candidate : ~(s < candidate)
    BY DEF AllocInit
<1> QED
    BY <1>1, <1>2, <1>3 DEF AllocInit, LoopInv, FirstFit

\* If the run from the candidate ends before the next range, no range is in its
\* way: those passed end before it, those to come start after it.
LEMMA GapIsFree ==
    ASSUME LoopInv, next <= n, candidate + wanted <= start[ranges[next]]
    PROVE  Fits(candidate)
<1>1. next \in 1..n /\ ranges[next] \in InUse
    BY DEF LoopInv, Sorted
<1>2. start[ranges[next]] \in 0..TotalBlocks
    BY <1>1 DEF LoopInv, InUse
<1>3. ASSUME NEW i \in InUse
      PROVE  candidate + wanted <= start[i] \/ End(i) <= candidate
  <2>1. PICK k \in 1..n : ranges[k] = i
    BY DEF LoopInv, Sorted
  <2>2. CASE k < next
    BY <2>1, <2>2 DEF LoopInv
  <2>3. CASE ~(k < next)
    <3>1. start[ranges[next]] <= start[i]
      <4>1. k = next \/ next < k
        BY <1>1, <2>3
      <4>2. start[i] \in Nat
        BY BlocksAssumption DEF LoopInv, InUse
      <4> QED
        BY <1>1, <1>2, <2>1, <4>1, <4>2, BlocksAssumption DEF LoopInv, Sorted
    <3>2. start[i] \in Nat /\ candidate \in Nat /\ wanted \in Nat
      BY BlocksAssumption DEF LoopInv, InUse
    <3> QED
      BY <1>2, <3>1, <3>2, BlocksAssumption
  <2> QED
    BY <2>2, <2>3
<1>4. candidate + wanted <= TotalBlocks
    BY <1>2, BlocksAssumption DEF LoopInv
<1> QED
    BY <1>3, <1>4 DEF Fits, Free

\* Past the last range the candidate is free as far as the disk goes.
LEMMA RestIsFree ==
    ASSUME LoopInv, next > n
    PROVE  Free(candidate)
<1>1. ASSUME NEW i \in InUse PROVE End(i) <= candidate
  <2>1. PICK k \in 1..n : ranges[k] = i
    BY DEF LoopInv, Sorted
  <2>2. k < next
    BY DEF LoopInv
  <2> QED
    BY <2>1, <2>2 DEF LoopInv
<1> QED
    BY <1>1 DEF Free

\* A fit is never before the candidate.
LEMMA NothingBefore ==
    ASSUME LoopInv, NEW s \in 0..TotalBlocks, Fits(s)
    PROVE  candidate <= s
BY BlocksAssumption DEF LoopInv, Fits

\* Skipping a range keeps the loop invariant: a run that starts between the old
\* and the new candidate would touch the range skipped.
LEMMA SkipKeeps ==
    ASSUME LoopInv, Skip
    PROVE  LoopInv'
<1> DEFINE r == ranges[next]
<1>1. next \in 1..n /\ r \in InUse
    BY DEF LoopInv, Sorted, Skip
<1>2. start[r] \in Nat /\ count[r] \in Nat /\ End(r) \in Nat
    BY <1>1, BlocksAssumption DEF LoopInv, InUse, End
<1>3. candidate' \in Nat /\ candidate <= candidate' /\ End(r) <= candidate'
    BY <1>2 DEF Skip, LoopInv
<1>4. UNCHANGED <<start, count, wanted, ignored, ranges, n>> /\ next' = next + 1
    BY DEF Skip, input
<1>5. \A k \in 1..n : k < next + 1 => End(ranges[k]) <= candidate'
  <2> TAKE k \in 1..n
  <2> HAVE k < next + 1
  <2>1. CASE k = next
    BY <1>3, <2>1
  <2>2. CASE k # next
    <3>1. k < next
      BY <1>1, <2>2
    <3>2. End(ranges[k]) <= candidate
      BY <3>1 DEF LoopInv
    <3>3. ranges[k] \in InUse
      BY DEF LoopInv, Sorted
    <3>4. End(ranges[k]) \in Nat
      BY <3>3, BlocksAssumption DEF LoopInv, InUse, End
    <3> QED
      BY <1>3, <3>2, <3>4 DEF LoopInv
  <2> QED
    BY <2>1, <2>2
<1>6. \A s \in 0..candidate' : s < candidate' => ~Free(s)
  <2> TAKE s \in 0..candidate'
  <2> HAVE s < candidate'
  <2>1. CASE s < candidate
    BY <2>1 DEF LoopInv
  <2>2. CASE ~(s < candidate)
    <3>1. s < End(r)
      BY <1>2, <2>2 DEF Skip, LoopInv
    <3>2. s + wanted > start[r]
      BY <1>2, <2>2 DEF Skip, LoopInv
    <3> QED
      BY <1>1, <1>2, <3>1, <3>2 DEF Free, LoopInv
  <2> QED
    BY <2>1, <2>2
<1>7. InUse' = InUse /\ \A i : End(i)' = End(i)
    BY <1>4 DEF InUse, End
<1>8. Sorted(n, ranges)'
    BY <1>4, <1>7 DEF LoopInv, Sorted
<1>9. \A s : Free(s)' = Free(s)
    BY <1>4, <1>7 DEF Free
<1>10. next' \in 1..n' + 1
    BY <1>1, <1>4 DEF LoopInv
<1>11. \A k \in 1..n' : k < next' => End(ranges[k])' <= candidate'
    BY <1>4, <1>5, <1>7
<1>12. \A s \in 0..candidate' : s < candidate' => ~Free(s)'
    BY <1>6, <1>9
<1> QED
    BY <1>3, <1>4, <1>8, <1>10, <1>11, <1>12 DEF LoopInv

\* The steps that end the loop, and stuttering, leave what LoopInv speaks of.
LEMMA RestKeeps ==
    ASSUME LoopInv, UNCHANGED <<input, ranges, n, next, candidate>>
    PROVE  LoopInv' /\ (\A s : Fits(s)' = Fits(s))
<1>1. InUse' = InUse /\ \A i : End(i)' = End(i)
    BY DEF InUse, End, input
<1>2. Sorted(n, ranges)' /\ \A s : Free(s)' = Free(s)
    BY <1>1 DEF LoopInv, Sorted, Free, input
<1>3. \A s : Fits(s)' = Fits(s)
    BY <1>2 DEF Fits, input
<1> QED
    BY <1>1, <1>2, <1>3 DEF LoopInv, input

\* Both together are inductive over the loop of allocate_blocks (format.rs).
THEOREM BlocksInductive == AllocSpec => [](LoopInv /\ FirstFit)
<1>1. AllocInit => LoopInv /\ FirstFit
    BY LoopInvInit
<1>2. LoopInv /\ FirstFit /\ [AllocNext]_allocvars => (LoopInv /\ FirstFit)'
  <2> SUFFICES ASSUME LoopInv, FirstFit, [AllocNext]_allocvars PROVE LoopInv' /\ FirstFit'
    OBVIOUS
  <2>1. CASE Found
    <3>1. LoopInv' /\ \A s : Fits(s)' = Fits(s)
      BY <2>1, RestKeeps DEF Found
    <3>2. Fits(candidate) /\ \A s \in 0..TotalBlocks : Fits(s) => candidate <= s
      BY <2>1, GapIsFree, NothingBefore DEF Found
    <3> QED
      BY <2>1, <3>1, <3>2 DEF Found, FirstFit
  <2>2. CASE Skip
    BY <2>2, SkipKeeps DEF Skip, FirstFit
  <2>3. CASE Finish
    <3>1. LoopInv' /\ \A s : Fits(s)' = Fits(s)
      BY <2>3, RestKeeps DEF Finish
    <3>2. Free(candidate) /\ \A s \in 0..TotalBlocks : Fits(s) => candidate <= s
      BY <2>3, RestIsFree, NothingBefore DEF Finish
    <3>3. CASE candidate + wanted <= TotalBlocks
      BY <2>3, <3>1, <3>2, <3>3 DEF Finish, FirstFit, Fits
    <3>4. CASE ~(candidate + wanted <= TotalBlocks)
      <4>1. \A s \in 0..TotalBlocks : ~Fits(s)
        BY <3>2, <3>4, BlocksAssumption DEF Fits, LoopInv
      <4> QED
        BY <2>3, <3>1, <3>4, <4>1 DEF Finish, FirstFit
    <3> QED
      BY <3>3, <3>4
  <2>4. CASE UNCHANGED allocvars
    <3>1. LoopInv' /\ (\A s : Fits(s)' = Fits(s)) /\ state' = state /\ candidate' = candidate
      BY <2>4, RestKeeps DEF allocvars
    <3> QED
      BY <3>1 DEF FirstFit
  <2> QED
    BY <2>1, <2>2, <2>3, <2>4 DEF AllocNext
<1> QED
    BY <1>1, <1>2, PTL DEF AllocSpec

\* At every turn of the loop the ranges passed end at or before the candidate
\* and no run of free blocks starts before it.
THEOREM LoopHolds == AllocSpec => []LoopInv
BY BlocksInductive, PTL

\* allocate_blocks answers with the first run of free blocks, or with DiskFull
\* when there is none, for every file table and every disk.
THEOREM AllocatesFirstFit == AllocSpec => []FirstFit
BY BlocksInductive, PTL
=============================================================================
