------------------------------- MODULE WarDisk -------------------------------
(***************************************************************************)
(* WarFS on its virtio-blk disk: the file list in RAM (kernel/src/fs), the *)
(* write-behind of every change to the disk (kernel/src/disk/persist.rs),  *)
(* the on-disk file table and block allocator (disk/format.rs), and the    *)
(* mount at boot (disk/mod.rs).                                            *)
(*                                                                         *)
(* The kernel holds the FILESYSTEM and DISK locks across an operation and  *)
(* never yields inside one, so operations do not interleave; what does     *)
(* interleave with them is the machine: it may die before any sector, and  *)
(* the device may refuse any sector.  Every device write is therefore a    *)
(* step of its own.  A file's data is a sequence of blocks; a block is the *)
(* unit that is written whole.  Owner, permissions and times travel with   *)
(* the table entry and are left out.                                       *)
(***************************************************************************)
EXTENDS Naturals, Sequences, FiniteSets

CONSTANTS
    Names,         \* paths of persistable files, ordered as WarFS sorts them
    StoredName,    \* the name that fits the entry's field (at most 95 bytes)
    MaxFiles,      \* MAX_FILES, of the RAM list and of the disk's table
    TotalBlocks,   \* data blocks of the disk
    MaxLen,        \* MAX_FILE_SIZE, in blocks
    Capacity,      \* TOTAL_CAPACITY of the RAM file system, in blocks
    Blk,           \* what one block of data can hold
    DeviceFails    \* whether the device may report an error

ASSUME NamesAssumption == Names \subseteq Nat \ {0}
ASSUME StoredAssumption == StoredName \in [Names -> Names]
ASSUME SizesAssumption == /\ MaxFiles \in Nat \ {0}
                          /\ TotalBlocks \in Nat
                          /\ MaxLen \in Nat
                          /\ Capacity \in Nat
ASSUME FailsAssumption == DeviceFails \in BOOLEAN

VARIABLES
    ram,       \* the files of WarFS in RAM: a function from their names
    mounted,   \* DISK holds a disk
    super,     \* the superblock's state byte; "none": no WarFS on the disk
    table,     \* the on-disk file table
    blocks,    \* the on-disk data blocks
    pc,        \* the device write that comes next
    op,        \* the disk operation in progress
    behind     \* the disk is known not to hold what RAM holds

vars == <<ram, mounted, super, table, blocks, pc, op, behind>>

Slots == 0 .. MaxFiles - 1

Data == UNION {[1..k -> Blk] : k \in 0..MaxLen}

Files == UNION {[S -> Data] : S \in SUBSET Names}

NoFiles == [n \in {} |-> <<>>]

Inactive == [active |-> FALSE, name |-> 0, start |-> 0, len |-> 0]

Entries == [active : {TRUE}, name : Names, start : 0..TotalBlocks,
            len : 0..MaxLen] \cup {Inactive}

\* todo: the files a sync has still to write; pos: blocks (or, when
\* formatting, slots) already written.
NoOp == [kind |-> "none", name |-> 0, todo |-> {}, slot |-> 0, start |-> 0,
         pos |-> 0]

Ops == [kind : {"none", "save", "delete", "sync", "format", "init"},
        name : Names \cup {0}, todo : SUBSET Names, slot : Slots,
        start : 0..TotalBlocks, pos : Nat]

Start(kind, n) == [NoOp EXCEPT !.kind = kind, !.name = n]

Least(S) == CHOOSE x \in S : \A y \in S : x <= y

Greatest(S) == CHOOSE x \in S : \A y \in S : y <= x

-----------------------------------------------------------------------------
(* The table and the allocator. *)

BugBlocksShort(i) ==
    {b \in 0..TotalBlocks - 1 : table[i].start <= b
                                  /\ b + 1 < table[i].start + table[i].len}

\* The blocks slot i's entry claims.
BlocksOf(i) ==
    {b \in 0..TotalBlocks - 1 : table[i].start <= b
                                  /\ b < table[i].start + table[i].len}

UsedBlocks(skip) ==
    UNION {BlocksOf(i) : i \in {j \in Slots \ skip : table[j].active}}

\* allocate_blocks returns the lowest start with `count' free blocks after
\* it.  BlockAlloc checks its loop over the sorted ranges against this.
Fits(s, count, skip) ==
    /\ s + count <= TotalBlocks
    /\ \A b \in UsedBlocks(skip) : b < s \/ s + count <= b

FitsAt(count, skip) == {s \in 0..TotalBlocks : Fits(s, count, skip)}

\* The slot whose entry carries the name n, compared with the stored name.
Named(n) == {i \in Slots : table[i].active /\ table[i].name = n}

Unused == {i \in Slots : ~table[i].active}

BugTargetSlots(n) == IF Unused # {} THEN Unused ELSE Named(n)

\* The slots upsert_file_entry takes the first of; none: the table is full.
TargetSlots(n) == IF Named(n) # {} THEN Named(n) ELSE Unused

BugStarts(i, n) ==
    IF Len(ram[n]) = 0 THEN {0}
    ELSE IF i \in Named(n) THEN {table[i].start}
    ELSE FitsAt(Len(ram[n]), {})

\* Where the data of n goes if its entry is slot i (the least of the set): in
\* place if the old blocks suffice, else into free blocks, the file's own old
\* ones counting as free.
Starts(i, n) ==
    IF Len(ram[n]) = 0 THEN {0}
    ELSE IF i \in Named(n)
         THEN IF table[i].len >= Len(ram[n]) THEN {table[i].start}
              ELSE FitsAt(Len(ram[n]), {i})
         ELSE FitsAt(Len(ram[n]), {})

\* Empty if the table or the disk is full.
PlacesFor(n) ==
    IF TargetSlots(n) = {} THEN {} ELSE Starts(Least(TargetSlots(n)), n)

-----------------------------------------------------------------------------
(* Loading the disk into RAM. *)

FileAt(i) == [k \in 1..table[i].len |-> blocks[table[i].start + k - 1]]

\* The blocks of every file, each tagged with its name, are counted.
Used(files) ==
    Cardinality(UNION {{n} \X DOMAIN files[n] : n \in DOMAIN files})

With(files, n, d) ==
    [m \in DOMAIN files \cup {n} |-> IF m = n THEN d ELSE files[m]]

Without(files, n) == [m \in DOMAIN files \ {n} |-> files[m]]

\* The limits every write into the RAM list respects, loads included.
HasRoom(files, n, d) ==
    /\ Used(Without(files, n)) + Len(d) <= Capacity
    /\ n \in DOMAIN files \/ Cardinality(DOMAIN files) < MaxFiles

\* The active entries of the slots below i, as load_filesystem puts them into
\* RAM: a later slot replaces an earlier one of the same name.
LoadedBelow(i) ==
    LET read == {j \in Slots : j < i /\ table[j].active}
    IN  [n \in {table[j].name : j \in read}
            |-> FileAt(Greatest({j \in read : table[j].name = n}))]

\* The slots whose file does not fit beside what was loaded before it.
Rejected ==
    {j \in Slots : table[j].active
                     /\ ~HasRoom(LoadedBelow(j), table[j].name, FileAt(j))}

\* load_filesystem: the first file that does not fit ends it with an error.
LoadsFully == Rejected = {}

OnDisk == LoadedBelow(IF LoadsFully THEN MaxFiles ELSE Least(Rejected))

-----------------------------------------------------------------------------
(* Changes of the RAM list, each followed by its write to the disk. *)

Init ==
    /\ ram = NoFiles /\ mounted = FALSE
    /\ super = "none"
    /\ table = [i \in Slots |-> Inactive]
    /\ blocks \in [0..TotalBlocks - 1 -> Blk]
    /\ pc = "off" /\ op = NoOp /\ behind = FALSE

\* set_superblock_state(DIRTY), the first device write of an operation.
Begin(next, o) ==
    /\ super' = "dirty"
    /\ pc' = next
    /\ op' = o
    /\ UNCHANGED behind

\* write_internal_owned, seed_system, create_new_as, chmod_as: the file is
\* changed in RAM, then maybe_sync_file_entry saves it.
Write(n, d) ==
    /\ pc = "idle"
    /\ HasRoom(ram, n, d)
    /\ ram' = With(ram, n, d)
    /\ IF mounted THEN Begin("plan", Start("save", n))
                  ELSE UNCHANGED <<super, pc, op, behind>>
    /\ UNCHANGED <<mounted, table, blocks>>

\* delete_as: the file leaves RAM, then maybe_delete_path.
Delete(n) ==
    /\ pc = "idle"
    /\ n \in DOMAIN ram
    /\ ram' = Without(ram, n)
    /\ IF mounted THEN Begin("unlink", Start("delete", n))
                  ELSE UNCHANGED <<super, pc, op, behind>>
    /\ UNCHANGED <<mounted, table, blocks>>

\* The `sync' command: sync_all, sync_filesystem.
SyncAll ==
    /\ pc = "idle" /\ mounted
    /\ Begin("prune", Start("sync", 0))
    /\ UNCHANGED <<ram, mounted, table, blocks>>

\* The `format' command: format_active.  RAM keeps its files.
FormatActive ==
    /\ pc = "idle" /\ mounted
    /\ super' = "clean"
    /\ pc' = "erase" /\ op' = Start("format", 0)
    /\ behind' = TRUE
    /\ UNCHANGED <<ram, mounted, table, blocks>>

-----------------------------------------------------------------------------
(* The steps of an operation on the disk. *)

\* The operation returns an error, which its callers in fs/mod.rs ignore.
GiveUp ==
    /\ pc' = "idle" /\ op' = NoOp
    /\ behind' = TRUE
    /\ UNCHANGED <<ram, mounted, super, table, blocks>>

\* upsert_file_entry up to its first write: pick the slot and the blocks.
Plan ==
    /\ pc = "plan"
    /\ LET starts == PlacesFor(op.name)
       IN  \/ /\ starts # {}
              /\ pc' = IF Len(ram[op.name]) = 0 THEN "entry" ELSE "data"
              /\ op' = [op EXCEPT !.slot = Least(TargetSlots(op.name)),
                                 !.start = Least(starts), !.pos = 0]
              /\ UNCHANGED <<ram, mounted, super, table, blocks, behind>>
           \/ /\ starts = {}
              /\ GiveUp

\* write_file_data, one block.
WriteBlock ==
    /\ pc = "data"
    /\ blocks' = [blocks EXCEPT ![op.start + op.pos] = ram[op.name][op.pos + 1]]
    /\ op' = [op EXCEPT !.pos = op.pos + 1]
    /\ pc' = IF op.pos + 1 = Len(ram[op.name]) THEN "entry" ELSE "data"
    /\ UNCHANGED <<ram, mounted, super, table, behind>>

\* A sync goes on with the next file in the list's order.
NextFile(todo) ==
    IF todo = {}
    THEN /\ pc' = "refresh"
         /\ op' = [op EXCEPT !.name = 0, !.todo = {}]
    ELSE /\ pc' = "plan"
         /\ op' = [op EXCEPT !.name = Least(todo), !.todo = todo \ {Least(todo)}]

\* upsert_file_entry's last write: the entry, its name cut to the field.
WriteEntry ==
    /\ pc = "entry"
    /\ table' = [table EXCEPT ![op.slot] =
                   [active |-> TRUE, name |-> StoredName[op.name],
                    start |-> op.start, len |-> Len(ram[op.name])]]
    /\ NextFile(op.todo)
    /\ UNCHANGED <<ram, mounted, super, blocks, behind>>

\* delete_file_from_disk's loop over the table.
Unlink ==
    /\ pc = "unlink"
    /\ \/ /\ Named(op.name) # {}
          /\ table' = [table EXCEPT ![Least(Named(op.name))] = Inactive]
          /\ pc' = "refresh" /\ op' = [op EXCEPT !.name = 0]
          /\ UNCHANGED <<ram, mounted, super, blocks, behind>>
       \/ /\ Named(op.name) = {}
          /\ GiveUp

Stale == {i \in Slots : table[i].active /\ table[i].name \notin DOMAIN ram}

\* sync_filesystem's first loop: drop entries that RAM does not have; then
\* start with the first file.
Prune ==
    /\ pc = "prune"
    /\ \/ /\ Stale # {}
          /\ table' = [table EXCEPT ![Least(Stale)] = Inactive]
          /\ UNCHANGED <<pc, op>>
       \/ /\ Stale = {}
          /\ NextFile(DOMAIN ram)
          /\ UNCHANGED table
    /\ UNCHANGED <<ram, mounted, super, blocks, behind>>

\* refresh_superblock(CLEAN), the last write of an operation.  A sync has
\* rewritten every file.
Refresh ==
    /\ pc = "refresh"
    /\ super' = "clean"
    /\ pc' = "idle" /\ op' = NoOp
    /\ behind' = IF op.kind = "sync" THEN FALSE ELSE behind
    /\ UNCHANGED <<ram, mounted, table, blocks>>

\* format_disk's loop over the table, then mark_mounted and, for the command,
\* refresh_superblock.
Erase ==
    /\ pc = "erase"
    /\ table' = [table EXCEPT ![op.pos] = Inactive]
    /\ \/ /\ op.pos + 1 < MaxFiles
          /\ op' = [op EXCEPT !.pos = op.pos + 1]
          /\ UNCHANGED <<pc, mounted, behind>>
       \/ /\ op.pos + 1 = MaxFiles
          /\ pc' = "idle" /\ op' = NoOp
          /\ mounted' = TRUE
          /\ behind' = (op.kind = "format")
    /\ UNCHANGED <<ram, super, blocks>>

\* The device reports an error for the write that comes next: `?' all the way
\* out.  During init the disk is then not mounted.
DeviceError ==
    /\ DeviceFails
    /\ pc \notin {"off", "idle"}
    /\ GiveUp

-----------------------------------------------------------------------------
(* Boot and crash. *)

\* disk::init on a disk without a WarFS superblock: format_disk.
BootFormat ==
    /\ pc = "off" /\ super = "none"
    /\ super' = "clean"
    /\ pc' = "erase" /\ op' = Start("init", 0)
    /\ UNCHANGED <<ram, mounted, table, blocks, behind>>

\* disk::init: mark_mounted, load_filesystem.  If a file does not fit, what
\* was loaded stays in RAM and the disk is not mounted.
BootLoad ==
    /\ pc = "off" /\ super # "none"
    /\ super' = "clean"
    /\ ram' = OnDisk
    /\ mounted' = LoadsFully
    /\ behind' = ~LoadsFully
    /\ pc' = "idle"
    /\ UNCHANGED <<table, blocks, op>>

\* A read error while loading.
BootError ==
    /\ DeviceFails
    /\ pc = "off" /\ super # "none"
    /\ super' = "clean"
    /\ \E i \in 0..MaxFiles - 1 : ram' = LoadedBelow(i)
    /\ behind' = TRUE
    /\ pc' = "idle"
    /\ UNCHANGED <<mounted, table, blocks, op>>

\* The machine loses power, or is rebooted.
Crash ==
    /\ pc # "off"
    /\ pc' = "off" /\ op' = NoOp
    /\ ram' = NoFiles /\ mounted' = FALSE /\ behind' = FALSE
    /\ UNCHANGED <<super, table, blocks>>

Next ==
    \/ \E n \in Names : Delete(n) \/ \E d \in Data : Write(n, d)
    \/ SyncAll \/ FormatActive
    \/ Plan \/ WriteBlock \/ WriteEntry \/ Unlink \/ Prune \/ Refresh \/ Erase
    \/ DeviceError
    \/ BootFormat \/ BootLoad \/ BootError \/ Crash

Spec == Init /\ [][Next]_vars

-----------------------------------------------------------------------------
(* Properties. *)

TypeOK ==
    /\ ram \in Files
    /\ mounted \in BOOLEAN /\ behind \in BOOLEAN
    /\ super \in {"none", "clean", "dirty"}
    /\ table \in [Slots -> Entries]
    /\ blocks \in [0..TotalBlocks - 1 -> Blk]
    /\ pc \in {"off", "idle", "plan", "data", "entry", "unlink", "prune",
               "refresh", "erase"}
    /\ op \in Ops

\* No block belongs to two files and no file runs off the disk, whatever write
\* fails and wherever the machine stops: allocate_blocks reads a table that is
\* right at every moment, and upsert_file_entry writes the entry last.
NoSharedBlocks ==
    /\ \A i \in Slots : table[i].active => table[i].start + table[i].len <= TotalBlocks
    /\ \A i, j \in Slots : i # j /\ table[i].active /\ table[j].active
                             => BlocksOf(i) \cap BlocksOf(j) = {}

\* Saving, syncing or deleting one file changes no byte of another: a step that
\* leaves slot i's entry alone leaves its data alone, unless the data being
\* written is that file's own.
OthersUntouched ==
    [][\A i \in Slots : table[i].active /\ table'[i] = table[i]
          => FileAt(i)' = FileAt(i) \/ (pc = "data" /\ op.slot = i)]_vars

\* Unless an operation has failed (its error is ignored by fs/mod.rs) or the
\* disk was formatted under the files in RAM, the disk holds every file of RAM
\* and nothing else, except for the one file being written or deleted at this
\* moment.  So a crash at any point costs at most that file, and a completed
\* `sync' repairs whatever failed before it.
DiskHoldsRam ==
    mounted /\ ~behind =>
        /\ LoadsFully
        /\ \A n \in Names \ {op.name} :
              /\ n \in DOMAIN ram <=> n \in DOMAIN OnDisk
              /\ n \in DOMAIN ram => ram[n] = OnDisk[n]

\* What the shell reports after a sync, "Synced {} files to disk."
\* (shell/commands.rs): every file of RAM is then on the disk.
SyncStoresFiles ==
    [][op.kind = "sync" /\ pc = "refresh" /\ super' = "clean" /\ pc' = "idle"
          => OnDisk' = ram]_vars
=============================================================================
