-------------------------- MODULE BlockDiskProofs --------------------------
(***************************************************************************)
(* Proofs about BlockDisk, for disks, caches, counters and calls of every  *)
(* size: the request region has one owner, and cache, driver, queue and    *)
(* device together implement AtomicDisk.                                   *)
(***************************************************************************)
EXTENDS BlockDisk, TLAPS

-----------------------------------------------------------------------------
(* The inductive invariant. *)

\* The driver has a request for the sector of its call.
Requesting == pc \in {"request", "publish", "poll"}

\* The call, the sector under way and the request region belong together.  A
\* sector that is being read is not in the cache.
FlowOK ==
    /\ IF pc = "idle" THEN op = NoOp ELSE op.kind \in {"read", "write"} /\ op.left # 0
    /\ Requesting => /\ op.sector \in Sectors
                     /\ op.kind = "read" => op.sector \notin DOMAIN cache
    /\ pc \in {"publish", "poll"} => /\ request.kind = op.kind
                                     /\ request.sector = op.sector
                                     /\ op.kind = "write" => request.data = op.data

\* What a request that succeeded has done: the medium holds the data that the
\* driver will put into the cache.
Transferred ==
    request.status = "ok" =>
        media[op.sector] = IF op.kind = "write" THEN op.data ELSE request.data

After(index) == (index + 1) % Indices

\* The indices agree but for the one request that is under way, which has been
\* published, taken, worked on or completed.
RingOK ==
    IF pc # "poll"
    THEN working = "no" /\ seen = availIdx /\ usedIdx = seen /\ lastUsed = usedIdx
    ELSE \/ working = "no" /\ availIdx = After(seen) /\ usedIdx = seen /\ lastUsed = usedIdx
         \/ working = "yes" /\ seen = availIdx /\ seen = After(usedIdx) /\ lastUsed = usedIdx
         \/ /\ working = "done" /\ seen = availIdx /\ seen = After(usedIdx) /\ lastUsed = usedIdx
            /\ Transferred
         \/ /\ working = "no" /\ seen = availIdx /\ usedIdx = seen /\ usedIdx = After(lastUsed)
            /\ Transferred

IInv == TypeOK /\ FlowOK /\ RingOK

-----------------------------------------------------------------------------
(* Operators. *)

\* A ring index stays in range, and moves when it is counted up.
LEMMA AfterMoves ==
    ASSUME NEW index \in 0..Indices - 1
    PROVE  After(index) \in 0..Indices - 1 /\ After(index) # index
<1>1. CASE index = Indices - 1
  BY <1>1, SizeAssumption DEF After
<1>2. CASE index # Indices - 1
  <2>1. (index + 1) % Indices = index + 1
    BY <1>2, SizeAssumption
  <2> QED BY <1>2, <2>1, SizeAssumption DEF After
<1> QED BY <1>1, <1>2

\* The generation counter stays in range.
LEMMA GenerationWraps ==
    ASSUME generation \in 0..Gens - 1
    PROVE  NextGeneration \in 0..Gens - 1
BY SizeAssumption DEF NextGeneration

\* A cache whose entries have their types.
CacheOK == /\ DOMAIN cache \subseteq Sectors
           /\ \A s \in DOMAIN cache : cache[s] \in [data : Data, generation : 0..Gens - 1]

\* insert leaves the sector cached with its data, drops others only whole, and
\* changes no other entry.
LEMMA InsertKeeps ==
    ASSUME CacheOK, NEW s \in Sectors, NEW d \in Data, Insert(s, d),
           generation' \in 0..Gens - 1
    PROVE  /\ CacheOK'
           /\ DOMAIN cache' \subseteq DOMAIN cache \cup {s}
           /\ s \in DOMAIN cache' /\ cache'[s].data = d
           /\ \A t \in DOMAIN cache' \ {s} : cache'[t] = cache[t]
<1>1. PICK gone : cache' = [t \in (DOMAIN cache \ gone) \cup {s} |->
                              IF t = s THEN [data |-> d, generation |-> generation']
                              ELSE cache[t]]
  BY DEF Insert
<1>2. DOMAIN cache' = (DOMAIN cache \ gone) \cup {s}
  BY <1>1
<1>3. cache'[s] = [data |-> d, generation |-> generation']
  BY <1>1
<1>4. \A t \in DOMAIN cache' \ {s} : t \in DOMAIN cache /\ cache'[t] = cache[t]
  BY <1>1
<1>5. \A t \in DOMAIN cache' : cache'[t] \in [data : Data, generation : 0..Gens - 1]
  BY <1>3, <1>4 DEF CacheOK
<1> QED BY <1>2, <1>3, <1>4, <1>5 DEF CacheOK

\* Going on after a sector, and giving up, keep the call well-formed.
LEMMA AdvanceKeeps ==
    ASSUME TypeOK, pc # "idle", FlowOK, Advance
    PROVE  /\ op' \in [kind : {"none", "read", "write"}, sector : Nat, left : Nat, data : Data]
           /\ \/ pc' = "idle" /\ op' = NoOp
              \/ pc' = "sector" /\ op'.kind \in {"read", "write"} /\ op'.left # 0
<1>1. CASE op.left = 1
  BY <1>1, SizeAssumption DEF Advance, NoOp
<1>2. CASE op.left # 1
  <2>1. op.left \in Nat /\ op.left - 1 \in Nat \ {0} /\ op.sector + 1 \in Nat
    BY <1>2 DEF TypeOK, FlowOK
  <2> QED BY <1>2, <2>1, ZenonT(60) DEF Advance, TypeOK, FlowOK
<1> QED BY <1>1, <1>2

LEMMA RefuseKeeps ==
    ASSUME Refuse
    PROVE  /\ pc' = "idle" /\ op' = NoOp
           /\ op' \in [kind : {"none", "read", "write"}, sector : Nat, left : Nat, data : Data]
BY SizeAssumption DEF Refuse, NoOp

-----------------------------------------------------------------------------
(* Types. *)

LEMMA TypeInit == Init => TypeOK
BY SizeAssumption DEF Init, TypeOK, NoOp, Sectors

\* A step of the driver or of its caller keeps the types.
LEMMA DriverKeepsTypes ==
    ASSUME IInv, Call \/ Clear \/ Driver
    PROVE  TypeOK'
<1> USE DEF IInv
<1>1. CASE Call
  BY <1>1, SizeAssumption DEF Call, TypeOK, cached, queue, device
<1>2. CASE Clear
  BY <1>2, SizeAssumption DEF Clear, TypeOK, driver, queue, device
<1>3. CASE Hit
  <2>1. pc' \in {"idle", "sector"}
        /\ op' \in [kind : {"none", "read", "write"}, sector : Nat, left : Nat, data : Data]
    BY <1>3, AdvanceKeeps DEF Hit
  <2>2. generation' \in 0..Gens - 1
    BY <1>3, GenerationWraps DEF Hit, TypeOK
  <2>3. DOMAIN cache' = DOMAIN cache
    BY <1>3 DEF Hit
  <2>4. \A s \in DOMAIN cache' : cache'[s] \in [data : Data, generation : 0..Gens - 1]
    BY <1>3, <2>2, <2>3 DEF Hit, TypeOK
  <2> QED BY <1>3, <2>1, <2>2, <2>3, <2>4 DEF Hit, TypeOK, queue, device
<1>4. CASE Miss
  <2>1. generation' \in 0..Gens - 1
    BY <1>4, GenerationWraps DEF Miss, TypeOK
  <2> QED BY <1>4, <2>1, RefuseKeeps DEF Miss, TypeOK, queue, device
<1>5. CASE Prepare
  BY <1>5, SizeAssumption DEF Prepare, TypeOK, FlowOK, Requesting, cached, queue, device
<1>6. CASE Publish
  BY <1>6, AfterMoves DEF Publish, TypeOK, cached, device, After
<1>7. CASE Finish
  <2>1. lastUsed' \in 0..Indices - 1
    BY <1>7, AfterMoves DEF Finish, Completed, TypeOK, After
  <2>2. CASE Refuse /\ UNCHANGED cached
    BY <1>7, <2>1, <2>2, RefuseKeeps DEF Finish, Completed, TypeOK, cached, device
  <2>3. CASE ~(Refuse /\ UNCHANGED cached)
    <3>1. /\ generation' = IF op.kind = "write" THEN NextGeneration ELSE generation
          /\ Insert(op.sector, IF op.kind = "write" THEN op.data ELSE request.data)
          /\ Advance
      BY <1>7, <2>3 DEF Finish
    <3>2. generation' \in 0..Gens - 1
      BY <3>1, GenerationWraps DEF TypeOK
    <3>3. CacheOK /\ pc = "poll" /\ op.sector \in Sectors /\ op.data \in Data /\ request.data \in Data
      BY <1>7 DEF Finish, Completed, TypeOK, FlowOK, Requesting, CacheOK
    <3>4. CacheOK'
      BY <3>1, <3>2, <3>3, InsertKeeps
    <3>5. pc' \in {"idle", "sector"}
          /\ op' \in [kind : {"none", "read", "write"}, sector : Nat, left : Nat, data : Data]
      BY <3>1, <3>3, AdvanceKeeps
    <3> QED BY <1>7, <2>1, <3>2, <3>4, <3>5 DEF Finish, Completed, TypeOK, CacheOK, device
  <2> QED BY <2>2, <2>3
<1> QED BY <1>1, <1>2, <1>3, <1>4, <1>5, <1>6, <1>7 DEF Driver

\* So does one of the device.
LEMMA DeviceKeepsTypes ==
    ASSUME IInv, Device
    PROVE  TypeOK'
<1> USE DEF IInv
<1>1. CASE Take
  BY <1>1, AfterMoves DEF Take, TypeOK, driver, cached, queue, After
<1>2. CASE Work
  <2>1. PICK status \in {"ok", "error"}, stored \in BOOLEAN :
          /\ request' = [request EXCEPT !.status = status,
                            !.data = IF request.kind = "read" /\ stored
                                     THEN media[request.sector] ELSE @]
          /\ media' = IF request.kind = "write" /\ stored
                     THEN [media EXCEPT ![request.sector] = request.data] ELSE media
    BY <1>2, Zenon DEF Work
  <2>2. media' \in [Sectors -> Data] /\ media[request.sector] \in Data
    BY <2>1 DEF TypeOK
  <2>3. request' \in [kind : {"read", "write"}, sector : Sectors, data : Data,
                      status : {"ok", "error"}]
    BY <2>1, <2>2, ZenonT(60) DEF TypeOK
  <2> QED BY <1>2, <2>2, <2>3 DEF Work, TypeOK, driver, cached, queue
<1>3. CASE Complete
  BY <1>3, AfterMoves DEF Complete, TypeOK, driver, cached, After
<1> QED BY <1>1, <1>2, <1>3 DEF Device

-----------------------------------------------------------------------------
(* The call and the request. *)

LEMMA FlowInit == Init => FlowOK
BY DEF Init, FlowOK, Requesting

LEMMA DriverKeepsFlow ==
    ASSUME IInv, Call \/ Clear \/ Driver
    PROVE  FlowOK'
<1> USE DEF IInv
<1>1. CASE Call
  BY <1>1 DEF Call, FlowOK, Requesting, cached
<1>2. CASE Clear
  BY <1>2 DEF Clear, FlowOK, Requesting, driver
<1>3. CASE Hit
  BY <1>3, AdvanceKeeps DEF Hit, FlowOK, Requesting
<1>4. CASE Miss
  BY <1>4, RefuseKeeps DEF Miss, FlowOK, Requesting
<1>5. CASE Prepare
  BY <1>5 DEF Prepare, FlowOK, Requesting, cached
<1>6. CASE Publish
  BY <1>6 DEF Publish, FlowOK, Requesting, cached
<1>7. CASE Finish
  <2>1. pc = "poll"
    BY <1>7 DEF Finish, Completed
  <2> QED BY <1>7, <2>1, AdvanceKeeps, RefuseKeeps DEF Finish, FlowOK, Requesting
<1> QED BY <1>1, <1>2, <1>3, <1>4, <1>5, <1>6, <1>7 DEF Driver

LEMMA DeviceKeepsFlow ==
    ASSUME IInv, Device
    PROVE  FlowOK'
<1> USE DEF IInv
<1>1. UNCHANGED <<pc, op, cache>>
  BY Zenon DEF Device, Take, Work, Complete, driver, cached
<1>2. \/ UNCHANGED request
      \/ /\ request'.kind = request.kind /\ request'.sector = request.sector
         /\ request.kind = "write" => request'.data = request.data
  BY Zenon DEF Device, Take, Work, Complete, TypeOK
<1> QED BY <1>1, <1>2 DEF FlowOK, Requesting

-----------------------------------------------------------------------------
(* The rings. *)

LEMMA RingInit == Init => RingOK
BY DEF Init, RingOK

LEMMA DriverKeepsRing ==
    ASSUME IInv, Call \/ Clear \/ Driver
    PROVE  RingOK'
<1> USE DEF IInv
<1>1. CASE Call \/ Clear \/ Hit \/ Miss \/ Prepare
  <2>1. pc # "poll" /\ pc' # "poll" /\ UNCHANGED <<queue, device>>
    BY <1>1, AdvanceKeeps, RefuseKeeps
    DEF Call, Clear, Hit, Miss, Prepare, driver, cached
  <2> QED BY <2>1 DEF RingOK, queue, device
<1>2. CASE Publish
  BY <1>2 DEF Publish, RingOK, device, After
<1>3. CASE Finish
  <2>1. pc = "poll" /\ lastUsed # usedIdx /\ lastUsed' = After(lastUsed)
        /\ UNCHANGED <<availIdx, usedIdx, device>>
    BY <1>3 DEF Finish, Completed, After
  <2>2. pc' # "poll"
    BY <1>3, <2>1, AdvanceKeeps, RefuseKeeps DEF Finish
  <2> QED BY <2>1, <2>2 DEF RingOK, device
<1> QED BY <1>1, <1>2, <1>3 DEF Driver

\* The device has something to do only while the driver polls, and each of its
\* steps takes the request on to the next of the four positions.
LEMMA DeviceKeepsRing ==
    ASSUME IInv, Device
    PROVE  RingOK'
<1> USE DEF IInv
<1>1. {seen, availIdx, usedIdx, lastUsed} \subseteq 0..Indices - 1
  BY SMTT(60) DEF TypeOK
<1>2. UNCHANGED <<pc, op>>
  BY Zenon DEF Device, Take, Work, Complete, driver
<1>3. CASE Take
  <2>1. /\ working = "no" /\ seen # availIdx /\ seen' = After(seen) /\ working' = "yes"
        /\ UNCHANGED queue
    BY <1>3 DEF Take, After
  <2>2. pc = "poll" /\ availIdx = After(seen) /\ usedIdx = seen /\ lastUsed = usedIdx
    BY <2>1 DEF RingOK
  <2> QED BY <1>2, <2>1, <2>2 DEF RingOK, queue
<1>4. CASE Work
  <2>1. pc = "poll" /\ working = "yes" /\ working' = "done" /\ UNCHANGED <<seen, queue>>
    BY <1>4 DEF Work, RingOK
  <2>2. request.kind = op.kind /\ request.sector = op.sector /\ op.sector \in Sectors
        /\ op.kind \in {"read", "write"}
        /\ (op.kind = "write" => request.data = op.data)
    BY <2>1 DEF FlowOK, Requesting
  <2>3. Transferred'
    BY <1>2, <1>4, <2>2 DEF Work, Transferred, TypeOK
  <2> QED BY <1>2, <2>1, <2>3 DEF RingOK, queue
<1>5. CASE Complete
  <2>1. /\ pc = "poll" /\ working = "done" /\ working' = "no" /\ usedIdx' = After(usedIdx)
        /\ UNCHANGED <<seen, media, request, availIdx, lastUsed>>
    BY <1>5 DEF Complete, RingOK, After
  <2> QED BY <1>2, <2>1 DEF RingOK, Transferred
<1> QED BY <1>3, <1>4, <1>5 DEF Device

-----------------------------------------------------------------------------
(* The invariants. *)

LEMMA Stutters == ASSUME IInv, UNCHANGED vars PROVE IInv'
BY DEF IInv, TypeOK, FlowOK, RingOK, Requesting, Transferred, After, vars, driver, cached,
       queue, device

LEMMA StepKeepsIInv == ASSUME IInv, [Next]_vars PROVE IInv'
<1>1. CASE Call \/ Clear \/ Driver
  BY <1>1, DriverKeepsTypes, DriverKeepsFlow, DriverKeepsRing DEF IInv
<1>2. CASE Device
  BY <1>2, DeviceKeepsTypes, DeviceKeepsFlow, DeviceKeepsRing DEF IInv
<1> QED BY <1>1, <1>2, Stutters DEF Next

\* The invariant holds of every state of the driver, cache, queue and device.
THEOREM Inductive == Spec => []IInv
<1>1. Init => IInv
  BY TypeInit, FlowInit, RingInit DEF IInv
<1> QED BY <1>1, StepKeepsIInv, PTL DEF Spec

\* The variables of cache, driver, queue and device keep their types.
THEOREM TypesHold == Spec => []TypeOK
<1>1. IInv => TypeOK
  BY DEF IInv
<1> QED BY <1>1, Inductive, PTL

\* The driver touches the DMA region (do_request of virtio_blk.rs) only while
\* the device does not work on it, for rings of every size.
THEOREM OneOwner == Spec => []RegionHasOneOwner
<1>1. ASSUME IInv PROVE RegionHasOneOwner
  <2>1. {seen, availIdx, usedIdx, lastUsed} \subseteq 0..Indices - 1
    BY <1>1 DEF IInv, TypeOK
  <2>2. After(seen) # seen /\ After(usedIdx) # usedIdx /\ After(lastUsed) # lastUsed
    BY <2>1, AfterMoves
  <2> QED BY <1>1, <2>2 DEF IInv, RingOK, RegionHasOneOwner
<1> QED BY <1>1, Inductive, PTL

-----------------------------------------------------------------------------
(* The refinement: every step is a step of AtomicDisk or changes nothing     *)
(* that it has.                                                              *)

Contents == [s \in Sectors |->
               {media[s]} \cup IF s \in DOMAIN cache THEN {cache[s].data} ELSE {}]

Writing == IF op.kind = "write" /\ pc \in {"request", "publish", "poll"}
           THEN <<op.sector, op.data>> ELSE <<>>

\* A sector always has possible contents.
LEMMA ContentsTyped ==
    ASSUME TypeOK
    PROVE  /\ Contents \in [Sectors -> SUBSET Data]
           /\ \A s \in Sectors : Contents[s] # {} /\ media[s] \in Contents[s]
           /\ \A s \in DOMAIN cache : s \in Sectors /\ cache[s].data \in Contents[s]
BY DEF TypeOK, Contents

\* Where the medium is as before, an entry that leaves the cache or stays in it
\* adds no possible contents.
LEMMA CacheShrinks ==
    ASSUME UNCHANGED media, \A s \in DOMAIN cache' : s \in DOMAIN cache /\ cache'[s].data = cache[s].data
    PROVE  \A s \in Sectors : Contents'[s] \subseteq Contents[s]
BY DEF Contents

\* A step that may only forget contents settles them.
LEMMA SettlesContents ==
    ASSUME IInv, IInv', \A s \in Sectors : Contents'[s] \subseteq Contents[s]
    PROVE  Abstract!Settles(Contents)
<1>1. Contents' \in [Sectors -> SUBSET Data] /\ \A s \in Sectors : Contents'[s] # {}
  BY DEF IInv, TypeOK, Contents
<1> QED BY <1>1 DEF Abstract!Settles, Contents

LEMMA InitRefines == Init => Abstract!Init
BY DEF Init, Abstract!Init, NoOp

\* What a step must do to the mapped variables to be a step of AtomicDisk.
LEMMA IsStutter ==
    ASSUME UNCHANGED <<Contents, Writing, reply>>
    PROVE  UNCHANGED Abstract!vars
BY Zenon DEF Abstract!vars, Contents, Writing

LEMMA IsRead ==
    ASSUME NEW s \in Sectors, NEW v \in Contents[s], reply' = <<"read", s, v>>,
           Writing = <<>>, Writing' = <<>>, Abstract!Settles(Contents)
    PROVE  Abstract!Next
<1>1. Abstract!Read(s)
  BY DEF Abstract!Read, Contents, Writing
<1> QED BY <1>1 DEF Abstract!Next

LEMMA IsBegin ==
    ASSUME NEW s \in Sectors, NEW d \in Data, Writing = <<>>, Writing' = <<s, d>>,
           UNCHANGED <<Contents, reply>>
    PROVE  Abstract!Next
<1>1. Abstract!Begin(s, d)
  BY DEF Abstract!Begin, Contents, Writing
<1> QED BY <1>1 DEF Abstract!Next

LEMMA IsFail ==
    ASSUME reply' = <<"failed">>, Writing' = <<>>, UNCHANGED Contents
    PROVE  Abstract!Next
<1>1. Abstract!Fail
  BY DEF Abstract!Fail, Contents, Writing
<1> QED BY <1>1 DEF Abstract!Next

LEMMA IsSettle ==
    ASSUME Abstract!Settles(Contents), UNCHANGED <<Writing, reply>>
    PROVE  Abstract!Next
<1>1. Abstract!Settle
  BY DEF Abstract!Settle, Contents, Writing
<1> QED BY <1>1 DEF Abstract!Next

LEMMA IsTransfer ==
    ASSUME NEW s \in Sectors, NEW d \in Data, Writing = <<s, d>>, UNCHANGED <<Writing, reply>>,
           IInv', \A t \in Sectors : Contents'[t] \subseteq
                     IF t = s THEN Contents[t] \cup {d} ELSE Contents[t]
    PROVE  Abstract!Next
<1>1. Contents' \in [Sectors -> SUBSET Data] /\ \A t \in Sectors : Contents'[t] # {}
  BY DEF IInv, TypeOK, Contents
<1>2. \A t \in Sectors : Contents'[t] \subseteq [Contents EXCEPT ![s] = @ \cup {d}][t]
  BY DEF Contents
<1>3. Abstract!Settles([Contents EXCEPT ![Writing[1]] = @ \cup {Writing[2]}])
  BY <1>1, <1>2 DEF Abstract!Settles, Contents
<1>4. Abstract!Transfer
  BY <1>3 DEF Abstract!Transfer, Contents, Writing
<1> QED BY <1>4 DEF Abstract!Next

LEMMA IsCommit ==
    ASSUME NEW s \in Sectors, NEW d \in Data, Writing = <<s, d>>, Writing' = <<>>,
           reply' = <<"wrote", s, d>>,
           IInv', \A t \in Sectors : Contents'[t] \subseteq IF t = s THEN {d} ELSE Contents[t]
    PROVE  Abstract!Next
<1>1. Contents' \in [Sectors -> SUBSET Data] /\ \A t \in Sectors : Contents'[t] # {}
  BY DEF IInv, TypeOK, Contents
<1>2. \A t \in Sectors : Contents'[t] \subseteq [Contents EXCEPT ![s] = {d}][t]
  BY Zenon DEF Contents
<1>3. Abstract!Settles([Contents EXCEPT ![Writing[1]] = {Writing[2]}])
  BY <1>1, <1>2 DEF Abstract!Settles, Contents
<1>4. Abstract!Commit
  BY <1>3 DEF Abstract!Commit, Contents, Writing
<1> QED BY <1>4 DEF Abstract!Next

\* A hit answers from the cache; it changes no data.
LEMMA HitRefines == ASSUME IInv, IInv', Hit PROVE Abstract!Next
<1>1. op.sector \in Sectors /\ cache[op.sector].data \in Contents[op.sector]
  BY ContentsTyped DEF Hit, IInv
<1>2. DOMAIN cache' = DOMAIN cache /\ \A s \in DOMAIN cache : cache'[s].data = cache[s].data
  BY DEF Hit, IInv, TypeOK
<1>3. Abstract!Settles(Contents)
  BY <1>2, CacheShrinks, SettlesContents DEF Hit, device
<1>4. pc = "sector" /\ pc' \in {"idle", "sector"}
  BY DEF Hit, Advance
<1>5. Writing = <<>> /\ Writing' = <<>>
  BY <1>4 DEF Writing
<1> QED BY <1>1, <1>3, <1>5, IsRead DEF Hit

\* A miss is refused, begins a write, or shows nothing.
LEMMA MissRefines == ASSUME IInv, IInv', Miss PROVE Abstract!Next \/ UNCHANGED Abstract!vars
<1>1. UNCHANGED <<cache, media>>
  BY DEF Miss, device
<1>2. UNCHANGED Contents
  BY <1>1 DEF Contents
<1>3. Writing = <<>>
  BY DEF Miss, Writing
<1>4. CASE Refuse
  <2>1. Writing' = <<>> /\ reply' = <<"failed">>
    BY <1>4 DEF Refuse, Writing
  <2> QED BY <1>2, <2>1, IsFail
<1>5. CASE ~Refuse
  <2>1. op.sector \in Sectors /\ op.data \in Data /\ pc' = "request" /\ UNCHANGED <<op, reply>>
    BY <1>5 DEF Miss, IInv, TypeOK
  <2>2. CASE op.kind = "write"
    <3>1. Writing' = <<op.sector, op.data>>
      BY <2>1, <2>2 DEF Writing
    <3> QED BY <1>2, <1>3, <2>1, <3>1, IsBegin
  <2>3. CASE op.kind # "write"
    <3>1. Writing' = <<>>
      BY <2>1, <2>3 DEF Writing
    <3> QED BY <1>2, <1>3, <2>1, <3>1, IsStutter
  <2> QED BY <2>2, <2>3
<1> QED BY <1>4, <1>5

\* The end of a request: a failure, a read of the medium, or a write that is
\* on the medium and in the cache.
LEMMA FinishRefines == ASSUME IInv, IInv', Finish PROVE Abstract!Next
<1>1. /\ pc = "poll" /\ lastUsed # usedIdx /\ UNCHANGED <<media, request>>
      /\ op.sector \in Sectors /\ op.data \in Data /\ request.data \in Data
      /\ op.kind \in {"read", "write"} /\ CacheOK
      /\ op.kind = "read" => op.sector \notin DOMAIN cache
  BY DEF Finish, Completed, device, IInv, TypeOK, FlowOK, Requesting, CacheOK
<1>2. pc' \in {"idle", "sector"} /\ Writing' = <<>>
  BY DEF Finish, Refuse, Advance, Writing
<1>3. Transferred
  <2>1. {seen, availIdx, usedIdx, lastUsed} \subseteq 0..Indices - 1
    BY DEF IInv, TypeOK
  <2> QED BY <1>1 DEF IInv, RingOK
<1>4. CASE Refuse /\ UNCHANGED cached
  <2>1. UNCHANGED Contents /\ reply' = <<"failed">>
    BY <1>1, <1>4 DEF Contents, cached, Refuse
  <2> QED BY <1>2, <2>1, IsFail
<1>5. CASE ~(Refuse /\ UNCHANGED cached)
  <2> DEFINE d == IF op.kind = "write" THEN op.data ELSE request.data
  <2>1. /\ request.status = "ok" /\ Insert(op.sector, d)
        /\ reply' = IF op.kind = "write" THEN <<"wrote", op.sector, op.data>>
                    ELSE <<"read", op.sector, request.data>>
    BY <1>5 DEF Finish
  <2>2. media[op.sector] = d
    BY <1>3, <2>1 DEF Transferred
  <2>3. d \in Data /\ generation' \in 0..Gens - 1
    BY <1>1 DEF IInv, TypeOK
  <2> HIDE DEF d
  <2>4. /\ DOMAIN cache' \subseteq DOMAIN cache \cup {op.sector}
        /\ op.sector \in DOMAIN cache' /\ cache'[op.sector].data = d
        /\ \A t \in DOMAIN cache' \ {op.sector} : cache'[t] = cache[t]
    BY <1>1, <2>1, <2>3, InsertKeeps
  <2>5. Contents'[op.sector] = {d}
    BY <1>1, <2>2, <2>4 DEF Contents
  <2>6. \A t \in Sectors \ {op.sector} : Contents'[t] \subseteq Contents[t]
    BY <1>1, <2>4 DEF Contents
  <2>7. CASE op.kind = "write"
    <3>1. Writing = <<op.sector, op.data>> /\ reply' = <<"wrote", op.sector, op.data>> /\ d = op.data
      BY <1>1, <2>1, <2>7 DEF Writing, d
    <3>2. \A t \in Sectors : Contents'[t] \subseteq IF t = op.sector THEN {op.data} ELSE Contents[t]
      BY <2>5, <2>6, <3>1
    <3> QED BY <1>1, <1>2, <3>1, <3>2, IsCommit
  <2>8. CASE op.kind = "read"
    <3>1. Writing = <<>> /\ reply' = <<"read", op.sector, d>>
      BY <1>1, <2>1, <2>8 DEF Writing, d
    <3>2. d \in Contents[op.sector]
      BY <1>1, <2>2 DEF Contents
    <3>3. \A t \in Sectors : Contents'[t] \subseteq Contents[t]
      BY <2>5, <2>6, <3>2
    <3>4. Abstract!Settles(Contents)
      BY <3>3, SettlesContents
    <3> QED BY <1>1, <1>2, <3>1, <3>2, <3>4, IsRead
  <2> QED BY <1>1, <2>7, <2>8
<1> QED BY <1>4, <1>5

\* The device's work puts the data of a write on the medium, or not.
LEMMA WorkRefines == ASSUME IInv, IInv', Work PROVE Abstract!Next \/ UNCHANGED Abstract!vars
<1>1. pc = "poll" /\ UNCHANGED <<pc, op, reply, cache>>
  BY DEF Work, IInv, RingOK, driver, cached
<1>2. /\ request.kind = op.kind /\ request.sector = op.sector /\ op.sector \in Sectors
      /\ op.kind = "write" => request.data = op.data
      /\ op.data \in Data /\ media \in [Sectors -> Data]
  BY <1>1 DEF IInv, FlowOK, Requesting, TypeOK
<1>3. UNCHANGED Writing
  BY <1>1 DEF Writing
<1>4. CASE UNCHANGED media
  <2>1. UNCHANGED Contents
    BY <1>1, <1>4 DEF Contents
  <2> QED BY <1>1, <1>3, <2>1, IsStutter
<1>5. CASE media' # media
  <2>1. op.kind = "write" /\ media' = [media EXCEPT ![op.sector] = op.data]
    BY <1>2, <1>5, Zenon DEF Work
  <2>2. Writing = <<op.sector, op.data>>
    BY <1>1, <2>1 DEF Writing
  <2>3. \A t \in Sectors : Contents'[t] \subseteq
          IF t = op.sector THEN Contents[t] \cup {op.data} ELSE Contents[t]
    BY <1>1, <1>2, <2>1 DEF Contents
  <2> QED BY <1>1, <1>2, <1>3, <2>2, <2>3, IsTransfer
<1> QED BY <1>4, <1>5

LEMMA StepRefines ==
    ASSUME IInv, IInv', [Next]_vars
    PROVE  Abstract!Next \/ UNCHANGED Abstract!vars
<1>1. CASE Clear
  <2>1. \A s \in DOMAIN cache' : s \in DOMAIN cache /\ cache'[s].data = cache[s].data
    BY <1>1 DEF Clear
  <2>2. Abstract!Settles(Contents)
    BY <1>1, <2>1, CacheShrinks, SettlesContents DEF Clear, device
  <2>3. UNCHANGED <<Writing, reply>>
    BY <1>1 DEF Clear, driver, Writing
  <2> QED BY <2>2, <2>3, IsSettle
<1>2. CASE Call \/ Prepare \/ Publish \/ Take \/ Complete \/ UNCHANGED vars
  <2>1. UNCHANGED <<cache, media, reply>>
    BY <1>2 DEF Call, Prepare, Publish, Take, Complete, vars, driver, cached, device
  <2>2. UNCHANGED Contents
    BY <2>1 DEF Contents
  <2>3. UNCHANGED Writing
    BY <1>2 DEF Call, Prepare, Publish, Take, Complete, vars, driver, Writing
  <2> QED BY <2>1, <2>2, <2>3, IsStutter
<1>3. CASE Hit
  BY <1>3, HitRefines
<1>4. CASE Miss
  BY <1>4, MissRefines
<1>5. CASE Finish
  BY <1>5, FinishRefines
<1>6. CASE Work
  BY <1>6, WorkRefines
<1> QED BY <1>1, <1>2, <1>3, <1>4, <1>5, <1>6 DEF Next, Driver, Device

\* Through the cache (cache.rs), the driver (virtio_blk.rs), its queue and the
\* device, the file system sees AtomicDisk: reads return what was written, and
\* only a failed write leaves its own sector in doubt.
THEOREM Refines == Spec => ReadsWhatWasWritten
<1>1. Init => Abstract!Init
  BY InitRefines
<1>2. IInv /\ IInv' /\ [Next]_vars => [Abstract!Next]_(Abstract!vars)
  BY StepRefines
<1> QED BY <1>1, <1>2, Inductive, PTL DEF Spec, ReadsWhatWasWritten, Abstract!Spec

=============================================================================
