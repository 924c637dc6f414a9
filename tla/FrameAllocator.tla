--------------------------- MODULE FrameAllocator ---------------------------
(***************************************************************************)
(* The physical frames of the machine (kernel/src/memory/physical.rs) and  *)
(* those who take them: the kernel heap at boot (memory/heap.rs), the      *)
(* drivers' DMA regions (net/buffer.rs), the pages of user programs, and   *)
(* the page tables of the windows on device registers                      *)
(* (memory/paging.rs).                                                     *)
(*                                                                         *)
(* The loops that map the heap and a window are one step per page; the     *)
(* lock of the allocator is held through them, so no other step comes      *)
(* between (pc).  A page table maps TableSize pages.                       *)
(***************************************************************************)
EXTENDS Integers, FiniteSets

CONSTANTS MemoryMaps,  \* the firmware's memory maps: sets of [start, end, usable], in frames
          MaxFrames,   \* MAX_TRACKED_FRAMES
          HeapPages,   \* HEAP_SIZE
          MmioEnd,     \* the pages between MMIO_VIRT_START and MMIO_VIRT_END
          TablePages,   \* the pages one page table maps
          PageSize,    \* bytes
          Counts,      \* the lengths of the DMA regions asked for, in pages
          Registers    \* the windows asked for: [offset, size], in bytes

ASSUME FrameAssumption ==
  /\ MaxFrames \in Nat \ {0} /\ HeapPages \in Nat /\ MmioEnd \in Nat
  /\ TablePages \in Nat \ {0} /\ PageSize \in Nat \ {0}
  /\ Counts \subseteq Nat /\ Registers \subseteq [offset : Nat, size : Nat]
  /\ \A m \in MemoryMaps : m \subseteq [start : Nat, end : Nat, usable : BOOLEAN]

VARIABLES map,        \* memory_regions
          allocated,  \* bitmap: the frames whose bit is set
          total,      \* total_frames
          free,       \* free_frames
          hint,       \* scan_hint
          top,        \* max_frame_index
          dma,        \* the DMA regions that live: [start, count]
          pages,      \* the frames of user programs' pages
          kept,       \* the frames that are never given back: heap, page tables
          heapTables, \* the page tables the heap has
          mmioTables, \* the page tables the windows have
          nextMmio,   \* NEXT_MMIO_VIRT, from MMIO_VIRT_START
          windows,    \* the windows mapped: [base, count], in pages
          holder,         \* who holds the lock: "heap", "heapmap", "mmio", "nobody", "halted"
          at          \* the page the loop is at: [base, index, count]

allocator == <<allocated, total, free, hint, top>>
mapping == <<heapTables, mmioTables, nextMmio, windows, holder, at>>
framevars == <<map, allocator, dma, pages, kept, mapping>>

-----------------------------------------------------------------------------
(* BitmapAllocator                                                         *)

Start(r) == IF r.start = 0 THEN 1 ELSE r.start
RegionEnd(r) == IF r.end > MaxFrames THEN MaxFrames ELSE r.end
Usable == UNION {Start(r)..(RegionEnd(r) - 1) : r \in {q \in map : q.usable}}

(* The state BitmapAllocator::init leaves.                                 *)
InitAllocator ==
  /\ map \in MemoryMaps
  /\ allocated = (0..(MaxFrames - 1)) \ Usable
  /\ total = Cardinality(Usable)
  /\ free = total
  /\ hint = 1
  /\ top \in 1..MaxFrames
  /\ \A r \in map : r.usable => RegionEnd(r) <= top
  /\ top = 1 \/ \E r \in map : r.usable /\ RegionEnd(r) = top

(* The offsets from the hint at which the scan finds a free frame.         *)
Scan == {o \in 0..(top - 1) : (hint + o) % top # 0 /\ (hint + o) % top \notin allocated}

CanAllocate == free # 0 /\ Scan # {}

(* allocate_frame gives out f.                                             *)
Allocate(f) ==
  /\ free # 0
  /\ \E o \in Scan : (\A p \in Scan : o <= p) /\ f = (hint + o) % top
  /\ allocated' = allocated \cup {f}
  /\ free' = free - 1
  /\ hint' = f + 1
  /\ UNCHANGED <<total, top>>

FrameRun(start, count) == start..(start + count - 1)

(* Mutant: the last frame of the run is not looked at.                     *)
BugRunFree(start, count) == \A f \in FrameRun(start, count - 1) : f \notin allocated

RunFree(start, count) == \A f \in FrameRun(start, count) : f \notin allocated

(* The starts at which allocate_contiguous_frames would find the run.      *)
Runs(count) ==
  IF count = 0 \/ count > free \/ top <= count THEN {}
  ELSE {s \in 1..(top - count) : RunFree(s, count)}

AllocateContiguous(start, count) ==
  /\ start \in Runs(count)
  /\ \A s \in Runs(count) : start <= s
  /\ allocated' = allocated \cup FrameRun(start, count)
  /\ free' = free - count
  /\ hint' = start + count
  /\ UNCHANGED <<total, top>>

FreeFrame(f) ==
  LET given == IF f = 0 \/ f >= top THEN {} ELSE {f} \cap allocated
  IN  /\ allocated' = allocated \ given
      /\ free' = free + Cardinality(given)
      /\ UNCHANGED <<total, hint, top>>

(* The frames of a run that free_contiguous_frames gives back.             *)
Given(start, count) ==
  IF start = 0 \/ count = 0 THEN {} ELSE {f \in FrameRun(start, count) : f < top} \cap allocated

(* Mutant: the run is counted as one frame.                                *)
BugFreeContiguous(start, count) ==
  /\ allocated' = allocated \ Given(start, count)
  /\ free' = free + 1
  /\ UNCHANGED <<total, hint, top>>

FreeContiguous(start, count) ==
  /\ allocated' = allocated \ Given(start, count)
  /\ free' = free + Cardinality(Given(start, count))
  /\ UNCHANGED <<total, hint, top>>

-----------------------------------------------------------------------------
(* init_heap: a frame for each page, then the table it is mapped by.  A    *)
(* frame that is missing ends the boot.                                    *)

HeapFrame ==
  /\ holder = "heap" /\ at.index < at.count
  /\ \/ /\ \E f \in 1..(top - 1) : Allocate(f) /\ kept' = kept \cup {f}
        /\ holder' = "heapmap"
     \/ ~CanAllocate /\ holder' = "halted" /\ UNCHANGED <<allocator, kept>>
  /\ UNCHANGED <<dma, pages, heapTables, mmioTables, nextMmio, windows, at>>

HeapMap ==
  /\ holder = "heapmap"
  /\ \/ /\ at.index \div TablePages \in heapTables
        /\ UNCHANGED <<allocator, kept, heapTables>>
        /\ holder' = "heap" /\ at' = [at EXCEPT !.index = @ + 1]
     \/ /\ at.index \div TablePages \notin heapTables
        /\ \E f \in 1..(top - 1) : Allocate(f) /\ kept' = kept \cup {f}
        /\ heapTables' = heapTables \cup {at.index \div TablePages}
        /\ holder' = "heap" /\ at' = [at EXCEPT !.index = @ + 1]
     \/ /\ at.index \div TablePages \notin heapTables /\ ~CanAllocate
        /\ holder' = "halted" /\ UNCHANGED <<allocator, kept, heapTables, at>>
  /\ UNCHANGED <<dma, pages, mmioTables, nextMmio, windows>>

HeapReady ==
  /\ holder = "heap" /\ at.index = at.count
  /\ holder' = "nobody"
  /\ UNCHANGED <<allocator, dma, pages, kept, heapTables, mmioTables, nextMmio, windows, at>>

-----------------------------------------------------------------------------
(* A driver takes and drops a DMA region; a request that cannot be met     *)
(* changes nothing.                                                        *)

DmaAllocate ==
  /\ holder = "nobody"
  /\ \E count \in Counts, start \in 1..(top - 1) :
       AllocateContiguous(start, count) /\ dma' = dma \cup {[start |-> start, count |-> count]}
  /\ UNCHANGED <<pages, kept, mapping>>

DmaDrop ==
  /\ holder = "nobody"
  /\ \E r \in dma : FreeContiguous(r.start, r.count) /\ dma' = dma \ {r}
  /\ UNCHANGED <<pages, kept, mapping>>

(* The loader, brk and mmap take one frame per page, and give it back when *)
(* the page is unmapped.  The tables of programs are kept for good.        *)
PageAllocate ==
  /\ holder = "nobody"
  /\ \E f \in 1..(top - 1) :
       /\ Allocate(f)
       /\ \/ pages' = pages \cup {f} /\ UNCHANGED kept
          \/ kept' = kept \cup {f} /\ UNCHANGED pages
  /\ UNCHANGED <<dma, mapping>>

PageFree ==
  /\ holder = "nobody"
  /\ \E f \in pages : FreeFrame(f) /\ pages' = pages \ {f}
  /\ UNCHANGED <<dma, kept, mapping>>

-----------------------------------------------------------------------------
(* map_mmio_region                                                         *)

(* The pages of a window: the offset in the first page counts.             *)
MappingLen(w) == (w.offset + w.size + PageSize - 1) \div PageSize

(* The virtual range is never given back, not even when the mapping fails. *)
Reserve(w) == nextMmio' = nextMmio + MappingLen(w)

MmioBegin ==
  /\ holder = "nobody"
  /\ \E w \in Registers :
       /\ w.size # 0 /\ nextMmio + MappingLen(w) <= MmioEnd
       /\ Reserve(w)
       /\ at' = [base |-> nextMmio, index |-> 0, count |-> MappingLen(w)]
  /\ holder' = "mmio"
  /\ UNCHANGED <<allocator, dma, pages, kept, heapTables, mmioTables, windows>>

TableAt == (at.base + at.index) \div TablePages

MmioStep ==
  /\ holder = "mmio" /\ at.index < at.count
  /\ \/ /\ TableAt \in mmioTables
        /\ UNCHANGED <<allocator, kept, mmioTables, holder>>
        /\ at' = [at EXCEPT !.index = @ + 1]
     \/ /\ TableAt \notin mmioTables
        /\ \E f \in 1..(top - 1) : Allocate(f) /\ kept' = kept \cup {f}
        /\ mmioTables' = mmioTables \cup {TableAt}
        /\ at' = [at EXCEPT !.index = @ + 1]
        /\ UNCHANGED holder
     \/ /\ TableAt \notin mmioTables /\ ~CanAllocate   \* rollback_mmio_mapping
        /\ holder' = "nobody" /\ UNCHANGED <<allocator, kept, mmioTables, at>>
  /\ UNCHANGED <<dma, pages, heapTables, nextMmio, windows>>

MmioEnds ==
  /\ holder = "mmio" /\ at.index = at.count
  /\ windows' = windows \cup {[base |-> at.base, count |-> at.count]}
  /\ holder' = "nobody"
  /\ UNCHANGED <<allocator, dma, pages, kept, heapTables, mmioTables, nextMmio, at>>

-----------------------------------------------------------------------------
FramesInit ==
  /\ InitAllocator
  /\ dma = {} /\ pages = {} /\ kept = {}
  /\ heapTables = {} /\ mmioTables = {} /\ nextMmio = 0 /\ windows = {}
  /\ holder = "heap" /\ at = [base |-> 0, index |-> 0, count |-> HeapPages]

FramesNext ==
  /\ \/ HeapFrame \/ HeapMap \/ HeapReady
     \/ DmaAllocate \/ DmaDrop \/ PageAllocate \/ PageFree
     \/ MmioBegin \/ MmioStep \/ MmioEnds
  /\ UNCHANGED map

FramesSpec == FramesInit /\ [][FramesNext]_framevars

-----------------------------------------------------------------------------
DmaFrames(r) == FrameRun(r.start, r.count)
Held == (UNION {DmaFrames(r) : r \in dma}) \cup pages \cup kept

FramesTypeOK ==
  /\ allocated \subseteq 0..(MaxFrames - 1)
  /\ total \in Nat /\ free \in 0..total /\ top \in 1..MaxFrames /\ hint \in 1..top
  /\ dma \subseteq [start : Nat \ {0}, count : Nat \ {0}]
  /\ pages \subseteq Usable /\ kept \subseteq Usable
  /\ heapTables \subseteq Nat /\ mmioTables \subseteq Nat /\ nextMmio \in 0..MmioEnd
  /\ windows \subseteq [base : Nat, count : Nat]
  /\ holder \in {"heap", "heapmap", "mmio", "nobody", "halted"}
  /\ at \in [base : Nat, index : Nat, count : Nat]

(* The counter of free frames, which every allocation trusts before it     *)
(* looks at the bitmap and which the shell reports, is the number of clear *)
(* bits among the frames that allocations may give out.                    *)
FreeCountIsTrue == free = Cardinality({f \in 1..(top - 1) : f \notin allocated})

(* No frame has two owners: a DMA region, a program's page and a page      *)
(* table or heap page never share one, and two DMA regions never overlap.  *)
HeldApart ==
  /\ \A r, s \in dma : r # s => DmaFrames(r) \cap DmaFrames(s) = {}
  /\ \A r \in dma : DmaFrames(r) \cap (pages \cup kept) = {}
  /\ pages \cap kept = {}

(* Every usable frame is free or has an owner who can give it back: no     *)
(* path of allocation, failure or release loses one or frees one in use.   *)
NothingLost == Usable \cap allocated = Held

(* allocate_frame never answers None while the counter says there is a     *)
(* free frame, wherever the previous allocation left the scan.             *)
AllocationFindsFree == free # 0 => Scan # {}

(* Two windows on device registers never overlap, the mapped pages of the  *)
(* one being mapped included, and all lie in the reserved range.           *)
Window(w) == w.base..(w.base + w.count - 1)
MmioApart ==
  /\ \A v, w \in windows : v # w => Window(v) \cap Window(w) = {}
  /\ \A w \in windows : w.base + w.count <= nextMmio
  /\ holder = "mmio" => /\ at.base + at.count <= nextMmio
                        /\ \A w \in windows : Window(w) \cap Window(at) = {}

(* Nothing is given out twice: no frame of memory and no page of the       *)
(* virtual range for device registers.                                     *)
GivenOutOnce == HeldApart /\ MmioApart

(* The allocator's books are right: its counter is the number of free      *)
(* frames, none is lost, and a free one is found.                          *)
FramesAccounted == FreeCountIsTrue /\ NothingLost /\ AllocationFindsFree

=============================================================================
