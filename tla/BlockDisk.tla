----------------------------- MODULE BlockDisk -----------------------------
(***************************************************************************)
(* The disk as the file system reaches it: the sector cache                *)
(* (kernel/src/disk/cache.rs) in front of the virtio-blk driver            *)
(* (disk/virtio_blk.rs), its virtqueue (net/virtio/queue.rs) and, at the   *)
(* other end of the queue, the device.                                     *)
(*                                                                         *)
(* The driver keeps one request in one DMA region, always at descriptor 0, *)
(* so of the rings only the indices matter.  The device works on its own   *)
(* between any two steps of the driver.  A call names several sectors and  *)
(* stops at the first that fails.                                          *)
(***************************************************************************)
EXTENDS Naturals, FiniteSets

CONSTANTS
    Size,       \* sectors of the device, capacity_sectors
    Data, Blank,
    Capacity,   \* sectors the cache holds (64 in the code)
    Gens,       \* values of the cache's generation counter (2^64)
    Indices,    \* values of a ring index (2^16)
    MaxCount    \* bound: sectors in one call

ASSUME SizeAssumption == /\ Size \in Nat \ {0} /\ Capacity \in Nat \ {0}
                         /\ Gens \in Nat \ {0} /\ MaxCount \in Nat \ {0}
                         /\ Indices \in Nat /\ Indices > 1
                         /\ Blank \in Data

VARIABLES
    pc,          \* where the driver is
    op,          \* the call: what is left of it
    cache,       \* the cached sectors: data and generation
    generation,
    request,     \* the DMA region: header, data, status
    availIdx, usedIdx,     \* the ring indices in shared memory
    lastUsed,    \* the driver's last_used_idx
    seen,        \* the device: available entries it has taken, and
    working,     \*   what it is doing with the last
    media,       \* the sectors on the medium
    reply        \* what the last sector of the call gave

driver == <<pc, op, reply>>
cached == <<cache, generation>>
queue == <<availIdx, usedIdx, lastUsed>>
device == <<seen, working, media>>
vars == <<driver, cached, request, queue, device>>

Sectors == 0..Size - 1

NoOp == [kind |-> "none", sector |-> 0, left |-> 0, data |-> Blank]

-----------------------------------------------------------------------------
(* The cache. *)

NextGeneration == (generation + 1) % Gens

\* The entries insert may replace: those with the least generation.
Victims == {s \in DOMAIN cache :
              \A t \in DOMAIN cache : cache[s].generation <= cache[t].generation}

\* insert: keep the sector's entry, use a free one, or replace a victim
Insert(s, d) ==
    \E gone \in IF s \in DOMAIN cache \/ Cardinality(DOMAIN cache) < Capacity
                THEN {{}} ELSE {{v} : v \in Victims} :
        cache' = [t \in (DOMAIN cache \ gone) \cup {s} |->
                    IF t = s THEN [data |-> d, generation |-> generation']
                    ELSE cache[t]]

-----------------------------------------------------------------------------
(* The driver. *)

BugAdvanceStays ==
    IF op.left = 1
    THEN pc' = "idle" /\ op' = NoOp
    ELSE pc' = "sector" /\ op' = op

\* After a sector: on to the next, or back to the caller.
Advance ==
    IF op.left = 1
    THEN pc' = "idle" /\ op' = NoOp
    ELSE pc' = "sector" /\ op' = [op EXCEPT !.sector = @ + 1, !.left = @ - 1]

Refuse ==
    /\ reply' = <<"failed">>
    /\ pc' = "idle" /\ op' = NoOp

\* read_sectors or write_sectors of the disk is called.
Call ==
    /\ pc = "idle"
    /\ \E kind \in {"read", "write"}, s \in 0..Size, n \in 1..MaxCount, d \in Data :
         op' = [kind |-> kind, sector |-> s, left |-> n, data |-> d]
    /\ pc' = "sector"
    /\ UNCHANGED <<reply, cached, request, queue, device>>

\* reset_cache
Clear ==
    /\ pc = "idle"
    /\ cache' = [s \in {} |-> 0]
    /\ generation' = 0
    /\ UNCHANGED <<driver, request, queue, device>>

\* read_sector finds the sector in the cache.
Hit ==
    /\ pc = "sector" /\ op.kind = "read" /\ op.sector \in DOMAIN cache
    /\ generation' = NextGeneration
    /\ cache' = [cache EXCEPT ![op.sector].generation = generation']
    /\ reply' = <<"read", op.sector, cache[op.sector].data>>
    /\ Advance
    /\ UNCHANGED <<request, queue, device>>

\* read_sector counts a generation before it goes to the device, write_sector
\* after.  A sector beyond the end is refused.
Miss ==
    /\ pc = "sector"
    /\ op.kind = "read" => op.sector \notin DOMAIN cache
    /\ generation' = IF op.kind = "read" THEN NextGeneration ELSE generation
    /\ \/ /\ op.sector \notin Sectors
          /\ Refuse
       \/ /\ op.sector \in Sectors
          /\ pc' = "request"
          /\ UNCHANGED <<op, reply>>
    /\ UNCHANGED <<cache, request, queue, device>>

\* do_request: the request region and the descriptors,
Prepare ==
    /\ pc = "request"
    /\ request' = [kind |-> op.kind, sector |-> op.sector, status |-> "ok",
                   data |-> IF op.kind = "write" THEN op.data ELSE Blank]
    /\ pc' = "publish"
    /\ UNCHANGED <<op, reply, cached, queue, device>>

\* add_available and the notification,
Publish ==
    /\ pc = "publish"
    /\ availIdx' = (availIdx + 1) % Indices
    /\ pc' = "poll"
    /\ UNCHANGED <<op, reply, cached, request, usedIdx, lastUsed, device>>

\* and the loop on pop_used, which ends when the used index has moved.
Completed ==
    /\ pc = "poll" /\ lastUsed # usedIdx
    /\ lastUsed' = (lastUsed + 1) % Indices
    /\ UNCHANGED <<request, availIdx, usedIdx, device>>

BugFinishCached ==
    /\ Completed
    /\ generation' = IF op.kind = "write" THEN NextGeneration ELSE generation
    /\ Insert(op.sector, IF op.kind = "write" THEN op.data ELSE request.data)
    /\ IF request.status = "error" THEN Refuse
       ELSE /\ reply' = IF op.kind = "write" THEN <<"wrote", op.sector, op.data>>
                        ELSE <<"read", op.sector, request.data>>
            /\ Advance

\* The cache gets the sector when the device has succeeded, and only then.
Finish ==
    /\ Completed
    /\ \/ /\ request.status = "error"
          /\ Refuse
          /\ UNCHANGED cached
       \/ /\ request.status = "ok"
          /\ generation' = IF op.kind = "write" THEN NextGeneration ELSE generation
          /\ Insert(op.sector, IF op.kind = "write" THEN op.data ELSE request.data)
          /\ reply' = IF op.kind = "write" THEN <<"wrote", op.sector, op.data>>
                      ELSE <<"read", op.sector, request.data>>
          /\ Advance

-----------------------------------------------------------------------------
(* The device. *)

Take ==
    /\ working = "no" /\ seen # availIdx
    /\ seen' = (seen + 1) % Indices
    /\ working' = "yes"
    /\ UNCHANGED <<media, driver, cached, request, queue>>

\* A write that fails may have reached the medium.
Work ==
    /\ working = "yes"
    /\ \E status \in {"ok", "error"}, stored \in BOOLEAN :
         /\ status = "ok" => stored
         /\ request' = [request EXCEPT !.status = status,
                            !.data = IF request.kind = "read" /\ stored
                                     THEN media[request.sector] ELSE @]
         /\ media' = IF request.kind = "write" /\ stored
                     THEN [media EXCEPT ![request.sector] = request.data] ELSE media
    /\ working' = "done"
    /\ UNCHANGED <<seen, driver, cached, queue>>

Complete ==
    /\ working = "done"
    /\ usedIdx' = (usedIdx + 1) % Indices
    /\ working' = "no"
    /\ UNCHANGED <<seen, media, driver, cached, request, availIdx, lastUsed>>

-----------------------------------------------------------------------------
Init ==
    /\ pc = "idle" /\ op = NoOp /\ reply = <<"none">>
    /\ cache = [s \in {} |-> 0] /\ generation = 0
    /\ request = [kind |-> "read", sector |-> 0, status |-> "ok", data |-> Blank]
    /\ availIdx = 0 /\ usedIdx = 0 /\ lastUsed = 0
    /\ seen = 0 /\ working = "no"
    /\ media = [s \in Sectors |-> Blank]

Driver == Hit \/ Miss \/ Prepare \/ Publish \/ Finish

Device == Take \/ Work \/ Complete

Next == Call \/ Clear \/ Driver \/ Device

Spec == Init /\ [][Next]_vars

\* The driver's loop runs on, and the device answers what it is asked.
FairSpec == Spec /\ WF_vars(Driver) /\ WF_vars(Device)

-----------------------------------------------------------------------------
(* Properties. *)

\* The types of the variables.
TypeOK ==
    /\ pc \in {"idle", "sector", "request", "publish", "poll"}
    /\ op \in [kind : {"none", "read", "write"}, sector : Nat, left : Nat, data : Data]
    /\ DOMAIN cache \subseteq Sectors
    /\ \A s \in DOMAIN cache : cache[s] \in [data : Data, generation : 0..Gens - 1]
    /\ generation \in 0..Gens - 1
    /\ request \in [kind : {"read", "write"}, sector : Sectors, data : Data,
                    status : {"ok", "error"}]
    /\ {availIdx, usedIdx, lastUsed, seen} \subseteq 0..Indices - 1
    /\ working \in {"no", "yes", "done"}
    /\ media \in [Sectors -> Data]

\* The request region has one owner: the driver fills it in, reads the status
\* and takes the data out only while the device is not at work on it.
RegionHasOneOwner ==
    /\ pc # "poll" => working = "no" /\ seen = availIdx /\ lastUsed = usedIdx
    /\ pc = "poll" /\ lastUsed # usedIdx => working = "no" /\ seen = availIdx

\* Through cache, driver, queue and device the file system sees AtomicDisk.
Abstract == INSTANCE AtomicDisk WITH
    contents <- [s \in Sectors |->
                   {media[s]} \cup IF s \in DOMAIN cache THEN {cache[s].data} ELSE {}],
    writing <- IF op.kind = "write" /\ pc \in {"request", "publish", "poll"}
               THEN <<op.sector, op.data>> ELSE <<>>

\* A read returns what was last written, and a sector whose write failed reads
\* as before or as written: the write-through cache never shows anything else.
ReadsWhatWasWritten == Abstract!Spec

\* Every call on the disk comes back.
CallsReturn == pc # "idle" ~> pc = "idle"
=============================================================================
