----------------------------- MODULE UserMemory -----------------------------
(***************************************************************************)
(* The address space of a user program: how the loader builds it           *)
(* (kernel/src/exec/loader.rs), what brk, mmap and munmap do to it         *)
(* (exec/syscalls/memory.rs), which ranges the kernel accepts from the     *)
(* program (exec/address_space.rs) and what is given back at the end.      *)
(*                                                                         *)
(* An address is a number, a page PageSize of them.  The layout keeps the  *)
(* order of the regions and their alignment: one page of code, a window of *)
(* three pages that the heap enters from below and mmap from above, a gap, *)
(* and a stack of one page whose place is random.  A page table is the     *)
(* PML4 frame and one frame per region for the tables below it.  The       *)
(* operators work on a record                                              *)
(*   free   the frames that are not allocated,                             *)
(*   s      the address space,                                             *)
(*   err    how the operation ended.                                       *)
(***************************************************************************)
EXTENDS Integers, FiniteSets, FiniteSetsExt, SequencesExt

CONSTANT StackOffsets  \* what randomize_stack_offset returns

UserPage == 2
UserCodeBase == 2
UserHeapBase == 4
UserMmapTop == 10
UserStackTop == 16
UserStackSize == 2

PageOf(address) == address \div UserPage
AlignUp(address) == ((address + UserPage - 1) \div UserPage) * UserPage

(* The pages of the range [from, to), in order.                            *)
PagesOf(from, to) ==
  SetToSortSeq({PageOf(a) : a \in from..(to - 1)}, LAMBDA p, q : p < q)

(* The part of the page table that a page is mapped by.                    *)
Region(page) ==
  IF page < PageOf(UserHeapBase) THEN "code"
  ELSE IF page < PageOf(UserMmapTop) - 1 THEN "heap"
  ELSE IF page < PageOf(UserMmapTop) THEN "mmap" ELSE "stack"

NewSpace(pml4) ==
  [pml4 |-> pml4, tables |-> <<>>, map |-> <<>>, segments |-> {},
   initialBrk |-> UserHeapBase, brk |-> UserHeapBase, heapLimit |-> UserMmapTop,
   mmapTop |-> UserMmapTop, stackTop |-> UserStackTop,
   stackBottom |-> UserStackTop - UserStackSize]

Extend(f, x, y) == [z \in DOMAIN f \cup {x} |-> IF z = x THEN y ELSE f[z]]

(* The frames an address space holds.                                      *)
SpaceFrames(s) ==
  {s.pml4} \cup {s.tables[r] : r \in DOMAIN s.tables}
           \cup {s.map[p] : p \in DOMAIN s.map}

-----------------------------------------------------------------------------
(* Mapping and unmapping.  A frame is allocated for the page, then the     *)
(* mapper allocates the tables that are missing; when that fails some      *)
(* callers give the page's frame back and some do not.                     *)

(* The table of the page's region, allocated when it is missing.           *)
WithTable(m, page) ==
  IF Region(page) \in DOMAIN m.s.tables THEN m
  ELSE IF m.free = {} THEN [m EXCEPT !.err = "NoTable"]
  ELSE [m EXCEPT !.free = @ \ {Min(@)}, !.s.tables = Extend(@, Region(page), Min(m.free))]

MapTo(m, page, frame, givesBack) ==
  IF m.err = "Ok" /\ page \notin DOMAIN m.s.map
  THEN [m EXCEPT !.s.map = Extend(@, page, frame)]
  ELSE [m EXCEPT !.free = IF givesBack THEN @ \cup {frame} ELSE @,
                 !.err = IF @ = "Ok" THEN "Mapped" ELSE @]

MapPage(m, page, givesBack) ==
  IF m.err # "Ok" THEN m
  ELSE IF m.free = {} THEN [m EXCEPT !.err = "NoFrame"]
  ELSE MapTo(WithTable([m EXCEPT !.free = @ \ {Min(@)}], page), page, Min(m.free), givesBack)

MapPages(m, pages, givesBack) ==
  FoldLeft(LAMBDA acc, page : MapPage(acc, page, givesBack), m, pages)

Unmap(m, page) ==
  IF page \notin DOMAIN m.s.map THEN m
  ELSE [m EXCEPT !.free = @ \cup {m.s.map[page]},
                 !.s.map = [p \in DOMAIN @ \ {page} |-> @[p]]]

UnmapPages(m, pages) == FoldLeft(Unmap, m, pages)
UnmapRange(m, from, to) == UnmapPages(m, PagesOf(from, to))

-----------------------------------------------------------------------------
(* The loader.  A program is a set of segments [lo, hi, w, x].             *)

CreateUserPageTable(freeFrames) ==
  IF freeFrames = {} THEN [free |-> freeFrames, s |-> NewSpace(0), err |-> "NoFrame"]
  ELSE [free |-> freeFrames \ {Min(freeFrames)}, s |-> NewSpace(Min(freeFrames)), err |-> "Ok"]

Registered(m, segment) ==
  IF m.err = "Ok" THEN [m EXCEPT !.s.segments = @ \cup {segment}] ELSE m
MapSegment(m, segment) ==
  Registered(MapPages(m, PagesOf(segment.lo, segment.hi), FALSE), segment)

VerifyWx(m) ==
  IF m.err = "Ok" /\ \E g \in m.s.segments : g.w /\ g.x
  THEN [m EXCEPT !.err = "LoadFailed"] ELSE m

StackAt(s, top) == [s EXCEPT !.stackTop = top, !.stackBottom = top - UserStackSize]
MapStack(m, top) == MapPages(m, PagesOf(top - UserStackSize, top), FALSE)

FinalizeHeapLayout(s) ==
  LET end == Max({0} \cup {g.hi : g \in s.segments})
      base == Max({AlignUp(end), UserHeapBase})
  IN  [s EXCEPT !.initialBrk = base, !.brk = base,
                !.heapLimit = Min({s.mmapTop, s.stackBottom})]

Finished(m, top) == [m EXCEPT !.s = FinalizeHeapLayout(StackAt(@, top))]

(* The first error ends the load; what was allocated by then is not given  *)
(* back.                                                                   *)
MapProcessImage(freeFrames, program, offset) ==
  Finished(MapStack(VerifyWx(FoldLeft(MapSegment, CreateUserPageTable(freeFrames), program)),
                    UserStackTop - offset),
           UserStackTop - offset)

(* The segments, the stack and the PML4 are given back; the tables below   *)
(* the PML4, the heap and what mmap mapped are not.                        *)
TeardownProcessImage(freeFrames, s) ==
  LET m == [free |-> freeFrames, s |-> s, err |-> "Ok"]
      code == FoldLeft(LAMBDA acc, g : UnmapRange(acc, g.lo, g.hi), m, SetToSeq(s.segments))
      all == UnmapRange(code, s.stackBottom, s.stackTop)
  IN  all.free \cup {s.pml4}

-----------------------------------------------------------------------------
(* The system calls.  Each returns the record with the call's value ret.   *)

EPERM == -1
ENOEXEC == -8
ENOMEM == -12
EINVAL == -22
ENOSYS == -38

(* Mutant: the last page of the old heap goes with the new ones.           *)
BugRollback(m, oldBrk, pages) ==
  UnmapRange(m, (oldBrk \div UserPage) * UserPage, AlignUp(oldBrk) + pages * UserPage)

RollbackHeapGrowth(m, oldBrk, pages) ==
  UnmapRange(m, AlignUp(oldBrk), AlignUp(oldBrk) + pages * UserPage)

SysBrk(freeFrames, s, address) ==
  LET limit == Min({s.heapLimit, s.stackBottom})
      grown == MapPages([free |-> freeFrames, s |-> s, err |-> "Ok"],
                        PagesOf(AlignUp(s.brk), AlignUp(address)), TRUE)
      back == RollbackHeapGrowth(grown, s.brk,
                                 Cardinality(DOMAIN grown.s.map) - Cardinality(DOMAIN s.map))
      grows == address > s.brk /\ address >= s.initialBrk /\ address <= limit
  IN  IF ~grows THEN [free |-> freeFrames, s |-> s, ret |-> s.brk]
      ELSE IF grown.err # "Ok" THEN [free |-> back.free, s |-> back.s, ret |-> s.brk]
      ELSE [free |-> grown.free, s |-> [grown.s EXCEPT !.brk = address], ret |-> address]

(* The window is narrowed before the pages are mapped, and stays so when   *)
(* the frames run out in the middle; the pages mapped by then stay mapped. *)
SysMmap(freeFrames, s, len, anonymous) ==
  LET base == s.mmapTop - AlignUp(len)
      narrowed == [s EXCEPT !.mmapTop = base, !.heapLimit = base]
      mapped == MapPages([free |-> freeFrames, s |-> narrowed, err |-> "Ok"],
                         PagesOf(base, s.mmapTop), TRUE)
      fails(err) == [free |-> freeFrames, s |-> s, ret |-> err]
  IN  CASE ~anonymous -> fails(ENOSYS)
        [] anonymous /\ len = 0 -> fails(EINVAL)
        [] anonymous /\ len > 0 /\ (AlignUp(len) > s.mmapTop \/ base < s.brk) -> fails(ENOMEM)
        [] OTHER -> [free |-> mapped.free, s |-> mapped.s,
                     ret |-> CASE mapped.err = "Ok" -> base
                               [] mapped.err = "NoFrame" -> ENOMEM
                               [] OTHER -> EPERM]

(* As many pages as the length needs, from the page of the address on,     *)
(* whatever they were mapped for.  The window is not widened again.        *)
SysMunmap(freeFrames, s, address, len) ==
  LET pages == [k \in 1..(AlignUp(len) \div UserPage) |-> PageOf(address) + k - 1]
      m == UnmapPages([free |-> freeFrames, s |-> s, err |-> "Ok"], pages)
  IN  IF address = 0 \/ len = 0 THEN [free |-> freeFrames, s |-> s, ret |-> EINVAL]
      ELSE [free |-> m.free, s |-> m.s, ret |-> 0]

-----------------------------------------------------------------------------
(* The ranges the kernel reads and writes for the program                  *)

RangeWithinRegion(from, to, lo, hi) == hi > lo /\ from >= lo /\ to <= hi

ContainsUserRange(s, from, len) ==
  \/ len = 0
  \/ /\ from # 0
     /\ \/ RangeWithinRegion(from, from + len, s.stackBottom, s.stackTop)
        \/ RangeWithinRegion(from, from + len, s.initialBrk, s.brk)
        \/ \E g \in s.segments : RangeWithinRegion(from, from + len, g.lo, g.hi)

=============================================================================
