---------------------------- MODULE BlockAlloc ----------------------------
(***************************************************************************)
(* allocate_blocks (kernel/src/disk/format.rs): the loop that looks for a  *)
(* run of free blocks between the files on the disk.  The ranges in use    *)
(* are taken from the file table, sorted by their start, and walked once.  *)
(* The table is any table, one with overlapping ranges included.           *)
(***************************************************************************)
EXTENDS Naturals

CONSTANTS
    MaxFiles,     \* entries of the file table
    TotalBlocks   \* data blocks of the disk

ASSUME BlocksAssumption == MaxFiles \in Nat /\ TotalBlocks \in Nat

VARIABLES
    start, count,   \* of each entry: its range is start .. start + count - 1
    wanted,         \* blocks asked for
    ignored,        \* the entry not to look at, or 0
    ranges,         \* the entries in use, sorted by start,
    n,              \*   and how many they are
    next,           \* the range the loop looks at
    candidate,
    state           \* "loop", "found" with the answer in candidate, or "full"

input == <<start, count, wanted, ignored>>
allocvars == <<input, ranges, n, next, candidate, state>>

Entries == 1..MaxFiles

InUse == {i \in Entries : i # ignored /\ count[i] # 0}

End(i) == start[i] + count[i]

\* Every order sort_unstable_by_key may give.
Sorted(m, r) ==
    /\ r \in [1..m -> InUse]
    /\ \A i \in InUse : \E k \in 1..m : r[k] = i
    /\ \A j, k \in 1..m : j < k => r[j] # r[k] /\ start[r[j]] <= start[r[k]]

AllocInit ==
    /\ start \in [Entries -> 0..TotalBlocks]
    /\ count \in [Entries -> 0..TotalBlocks]
    /\ wanted \in 0..TotalBlocks
    /\ ignored \in 0..MaxFiles
    /\ n \in 0..MaxFiles
    /\ ranges \in [1..n -> Entries]
    /\ Sorted(n, ranges)
    /\ next = 1 /\ candidate = 0 /\ state = "loop"

\* The gap before the next range is large enough.
Found ==
    /\ state = "loop" /\ next <= n
    /\ candidate + wanted <= start[ranges[next]]
    /\ state' = "found"
    /\ UNCHANGED <<input, ranges, n, next, candidate>>

Skip ==
    /\ state = "loop" /\ next <= n
    /\ candidate + wanted > start[ranges[next]]
    /\ candidate' = IF candidate < End(ranges[next]) THEN End(ranges[next]) ELSE candidate
    /\ next' = next + 1
    /\ UNCHANGED <<input, ranges, n, state>>

BugFinish ==
    /\ state = "loop" /\ next > n
    /\ state' = IF candidate + wanted < TotalBlocks THEN "found" ELSE "full"
    /\ UNCHANGED <<input, ranges, n, next, candidate>>

\* After the last range: the rest of the disk.
Finish ==
    /\ state = "loop" /\ next > n
    /\ state' = IF candidate + wanted <= TotalBlocks THEN "found" ELSE "full"
    /\ UNCHANGED <<input, ranges, n, next, candidate>>

AllocNext == Found \/ Skip \/ Finish

AllocSpec == AllocInit /\ [][AllocNext]_allocvars

-----------------------------------------------------------------------------
\* The run of blocks from s on touches no range in use.
Free(s) == \A i \in InUse : s + wanted <= start[i] \/ End(i) <= s

Fits(s) == Free(s) /\ s + wanted <= TotalBlocks

\* allocate_blocks gives the first run of free blocks of the size asked for, and
\* reports a full disk only if there is none.
FirstFit ==
    /\ state = "found" =>
         /\ Fits(candidate)
         /\ \A s \in 0..TotalBlocks : Fits(s) => candidate <= s
    /\ state = "full" => \A s \in 0..TotalBlocks : ~Fits(s)

\* What the loop keeps: the ranges passed end at or before the candidate, and no
\* block before the candidate begins a free run.
LoopInv ==
    /\ start \in [Entries -> 0..TotalBlocks] /\ count \in [Entries -> Nat]
    /\ wanted \in Nat /\ n \in Nat /\ next \in 1..n + 1 /\ candidate \in Nat
    /\ Sorted(n, ranges)
    /\ \A k \in 1..n : k < next => End(ranges[k]) <= candidate
    /\ \A s \in 0..candidate : s < candidate => ~Free(s)
============================================================================
