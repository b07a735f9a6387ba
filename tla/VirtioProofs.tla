---------------------------- MODULE VirtioProofs ----------------------------
(***************************************************************************)
(* Proofs about sector I/O: a request reported as successful has been done *)
(* (Honest) and no notification is lost (NoLostRequest), for any number of *)
(* devices, sectors and requests, any ring size and any index modulus.     *)
(*                                                                         *)
(* The ring indices wrap, so "how far avail is ahead of used" is their     *)
(* distance around the ring (Dist); everything else follows from which     *)
(* request the thread has in hand when that distance is one.               *)
(***************************************************************************)
EXTENDS Virtio, TLAPS

Idx == 0..(IdxMod - 1)
\* From u forward to a, around the ring.
Dist(u, a) == IF u <= a THEN a - u ELSE a - u + IdxMod
\* Requests the guest has published on its device and nobody has answered.
Behind == Dist(used[req.dev], avail[req.dev])
Serving == io.pc \in {"next", "exec", "status", "used"}
Taken == io.pc \in {"exec", "status", "used"}

Reqs == [dev : Device, type : {"in", "out", "flush"}, sector : 0..Sectors,
         data : Content]
Dmas == [type : {"in", "out", "flush"}, sector : 0..Sectors, data : Content,
         status : {"unset", "ok", "ioerr"}]
Ios == [pc : {"idle", "start", "next", "exec", "status", "used", "joined"},
        dev : Device, at : Idx, end : Idx, slot : Nat,
        type : {"in", "out", "flush"}, sector : 0..Sectors,
        status : {"unset", "ok", "ioerr"}]
Disks == [Device -> [Sector -> Content]]
TypeOK ==
    /\ gpc \in {"idle", "data", "arm", "publish", "notify", "wait", "ack",
                "collect", "done", "halted"}
    /\ req \in Reqs /\ res \in [ok : BOOLEAN, data : Content]
    /\ dma \in Dmas /\ io \in Ios
    /\ avail \in [Device -> Idx] /\ used \in [Device -> Idx]
    /\ lastAvail \in [Device -> Idx]
    /\ ring \in [Device -> [0..(QueueSize - 1) -> Nat]]
    /\ file \in Disks /\ synced \in Disks
    /\ event \in [Device -> BOOLEAN]
    /\ threaded \in BOOLEAN /\ mode \in Modes
    /\ asked \in [Device -> [Sector -> SUBSET Content]]
    /\ nreq \in 0..MaxReq /\ errs \in 0..MaxErrs

\* Whose turn it is.
TurnInv ==
    /\ io.pc = "joined" => gpc = "halted"
    /\ ~threaded => /\ \A d \in Device : ~event[d]
                    /\ io.pc \notin {"idle", "joined"} => gpc = "wait"

\* The indices.  Only the device of the guest's request has requests left; an
\* operation that stops at a failure has at most the one it is waiting for
\* or gave up on, a scan at most as many as it has published.
MayOwe == gpc \in {"notify", "wait", "halted"} \/ (gpc = "done" /\ ~res.ok)
RingInv ==
    /\ \A d \in Device : d # req.dev => used[d] = avail[d]
    /\ mode = "stops" => /\ Behind <= 1
                         /\ used[req.dev] # avail[req.dev] => MayOwe
    /\ mode = "scans" => Behind + (IF gpc \in {"data", "arm", "publish"} THEN 1 ELSE 0)
                           <= nreq
    /\ gpc \in {"ack", "collect"} => used[req.dev] = avail[req.dev]

\* process_queue answers in order, from the last index it saved to the one it
\* read when it started.
ServeInv ==
    /\ \A d \in Device : ~Locked(d) => lastAvail[d] = used[d]
    /\ Serving => /\ io.at = used[io.dev]
                  /\ Dist(io.at, io.end) <= Dist(used[io.dev], avail[io.dev])
                  /\ mode = "stops" /\ io.at # io.end => lastAvail[io.dev] = io.at
    /\ Taken => io.at # io.end

\* The shared header belongs to the guest's last request.
HeaderInv ==
    /\ dma.type = req.type /\ dma.sector = req.sector
    /\ mode = "scans" => req.type = "in" /\ req.dev = NoReq.dev /\ io.type = "in"
    /\ mode = "stops" /\ req.type = "out" /\ gpc # "data" => dma.data = req.data
    /\ req.type = "out" /\ req.sector \in Sector
       => req.data \in asked[req.dev][req.sector]

\* What the guest's request asks for has been done.
Effect(data) ==
    /\ req.type = "in"    => data = file[req.dev][req.sector]
    /\ req.type = "out"   => file[req.dev][req.sector] = req.data
    /\ req.type = "flush" => synced[req.dev] = file[req.dev]

\* The thread has the guest's last request in hand, and fetched it after the
\* guest had written its header.
InHand == Taken /\ Behind = 1 /\ (mode = "stops" \/ gpc \in {"notify", "wait"})
AnswerInv ==
    /\ InHand => io.type = req.type /\ io.sector = req.sector
    /\ InHand /\ io.pc \in {"status", "used"} /\ io.status = "ok" => Effect(dma.data)
    /\ InHand /\ io.pc = "used" => dma.status = io.status
    /\ /\ gpc \in {"notify", "wait", "ack", "collect"} /\ Behind = 0
       /\ dma.status = "ok"
       => Effect(dma.data)

\* A request that has not been answered will be looked at.
WakeInv ==
    errs = 0 /\ gpc # "halted" /\ used[req.dev] # avail[req.dev] =>
        \/ gpc = "notify" \/ event[req.dev]
        \/ io.dev = req.dev /\ (io.pc = "start" \/ (Serving /\ io.end = avail[req.dev]))

IInv ==
    /\ TypeOK /\ TurnInv /\ RingInv /\ ServeInv /\ HeaderInv /\ AnswerInv
    /\ WakeInv /\ Honest

-----------------------------------------------------------------------------
(* The ring indices *)

Succ(x) == (x + 1) % IdxMod

\* An index goes up by one, and from the last to the first.
LEMMA SuccIs ==
    ASSUME NEW x \in Idx
    PROVE  Succ(x) = IF x + 1 = IdxMod THEN 0 ELSE x + 1
<1>1. CASE x + 1 = IdxMod
  BY <1>1, VirtioAssumption, SMTT(30) DEF Idx, Succ
<1>2. CASE x + 1 # IdxMod
  BY <1>2, VirtioAssumption, SMTT(30) DEF Idx, Succ
<1> QED BY <1>1, <1>2

\* The distance is a number below the modulus, zero only between equals.
LEMMA DistType ==
    ASSUME NEW u \in Idx, NEW a \in Idx
    PROVE  Dist(u, a) \in Idx /\ (Dist(u, a) = 0 <=> u = a)
BY VirtioAssumption DEF Idx, Dist

\* The same for every two indices, as a number.
LEMMA DistNat ==
    \A u, a \in Idx : Dist(u, a) \in Nat /\ (Dist(u, a) = 0 <=> u = a)
BY DistType, VirtioAssumption DEF Idx

\* A published request is one more, unless the ring of indices is full.
LEMMA DistGrows ==
    ASSUME NEW u \in Idx, NEW a \in Idx, Dist(u, a) + 1 < IdxMod
    PROVE  Succ(a) \in Idx /\ Dist(u, Succ(a)) = Dist(u, a) + 1
BY SuccIs, VirtioAssumption DEF Idx, Dist

\* An answered request is one less.
LEMMA DistShrinks ==
    ASSUME NEW u \in Idx, NEW a \in Idx, u # a
    PROVE  Succ(u) \in Idx /\ Dist(Succ(u), a) = Dist(u, a) - 1
BY SuccIs, VirtioAssumption DEF Idx, Dist

\* Two indices at the same distance are one.
LEMMA DistSame ==
    ASSUME NEW u \in Idx, NEW a \in Idx, NEW b \in Idx, Dist(u, a) = Dist(u, b)
    PROVE  a = b
BY VirtioAssumption DEF Idx, Dist

-----------------------------------------------------------------------------
(* Types *)

\* The constant initial values are of their types.
LEMMA NoReqType ==
    NoReq \in Reqs /\ NoReq.type = "in" /\ NoReq.sector = 0
<1>1. PICK d \in Device : TRUE
  BY VirtioAssumption
<1>2. <<d, 0>> \in Content
  BY <1>1, VirtioAssumption DEF Content, Sector
<1> QED BY <1>1, <1>2, VirtioAssumption DEF NoReq, Reqs

\* An idle thread is of the type of a thread, and reads.
LEMMA IdleType ==
    Idle \in Ios /\ Idle.pc = "idle" /\ Idle.type = "in"
BY NoReqType, VirtioAssumption DEF Idle, Idx, Ios, Reqs

\* The initial state, with the files as setup finds them, is of its type.
LEMMA InitType ==
    ASSUME Init
    PROVE  TypeOK
<1>1. dma \in Dmas
  BY NoReqType, VirtioAssumption DEF Init, Dmas, Reqs
<1>2. file \in Disks /\ asked \in [Device -> [Sector -> SUBSET Content]]
  BY DEF Init, Disks, Content
<1>3. res \in [ok : BOOLEAN, data : Content]
  BY NoReqType DEF Init, Reqs
<1> QED BY <1>1, <1>2, <1>3, IdleType, NoReqType, VirtioAssumption DEF Init, TypeOK, Idx

\* A place in the ring and what is kept there, and the next index.
LEMMA PlaceType ==
    /\ \A i \in Idx : i % QueueSize \in 0..(QueueSize - 1) /\ Slot(i) \in Nat
    /\ \A i \in Idx : (i + 1) % IdxMod \in Idx
    /\ Sectors \in Nat
<1>1. QueueSize \in Nat /\ QueueSize >= 3 /\ IdxMod \in Nat /\ IdxMod >= QueueSize
  BY VirtioAssumption
<1>2. Chains \in Nat /\ Chains >= 1
  BY <1>1 DEF Chains
<1>3. \A i \in Idx : (i + 1) % IdxMod \in Idx
  BY <1>1, SuccIs DEF Succ, Idx
<1> QED BY <1>1, <1>2, <1>3, VirtioAssumption DEF Idx, Slot

\* Every step keeps the types.
LEMMA NextType ==
    ASSUME TypeOK, [Next]_vars
    PROVE  TypeOK'
<1> USE DEF TypeOK, hostVars, queue, ghosts, setup, guestVars, disk
<1>1. CASE WriteHeader
  <2>1. req' \in Reqs
    BY <1>1 DEF WriteHeader, Reqs, Content
  <2>2. dma' \in Dmas
    BY <1>1 DEF WriteHeader, Dmas
  <2>3. asked' \in [Device -> [Sector -> SUBSET Content]]
    BY <1>1 DEF WriteHeader, Content
  <2> QED BY <1>1, <2>1, <2>2, <2>3, VirtioAssumption DEF WriteHeader
<1>2. CASE WriteData
  <2>1. dma' \in Dmas
    BY <1>2 DEF WriteData, Dmas, Reqs
  <2> QED BY <1>2, <2>1 DEF WriteData
<1>3. CASE ArmStatus
  <2>1. dma' \in Dmas
    BY <1>3 DEF ArmStatus, Dmas
  <2> QED BY <1>3, <2>1 DEF ArmStatus
<1>4. CASE Publish
  <2>1. avail' \in [Device -> Idx]
    <3>1. avail \in [Device -> Idx] /\ req.dev \in Device
      BY DEF Reqs
    <3> HIDE DEF TypeOK
    <3> QED BY <1>4, <3>1, PlaceType DEF Publish
  <2>2. ring' \in [Device -> [0..(QueueSize - 1) -> Nat]]
    BY <1>4, PlaceType DEF Publish, Reqs
  <2> QED BY <1>4, <2>1, <2>2 DEF Publish
<1>5. CASE Notify
  <2>1. io' \in Ios
    <3>1. io \in Ios /\ req.dev \in Device
      BY DEF Reqs
    <3> HIDE DEF TypeOK
    <3> QED BY <1>5, <3>1, IdleType DEF Notify, Ios
  <2> QED BY <1>5, <2>1 DEF Notify, Reqs
<1>6. CASE Poll
  BY <1>6 DEF Poll
<1>7. CASE Timeout
  BY <1>7 DEF Timeout
<1>8. CASE Ack
  BY <1>8 DEF Ack
<1>9. CASE Collect
  BY <1>9 DEF Collect, Dmas
<1>10. CASE Continue
  BY <1>10 DEF Continue
<1>11. CASE Halt
  BY <1>11 DEF Halt
<1>12. CASE StartQueue
  <2>1. io' \in Ios
    BY <1>12 DEF StartQueue, Ios
  <2> QED BY <1>12, <2>1 DEF StartQueue
<1>13. CASE FetchRequest
  <2>1. io' \in Ios
    <3>1. io \in Ios /\ dma \in Dmas /\ ring \in [Device -> [0..(QueueSize - 1) -> Nat]]
      OBVIOUS
    <3> HIDE DEF TypeOK
    <3>2. io.dev \in Device /\ io.at \in Idx
      BY <3>1 DEF Ios
    <3>3. io.at % QueueSize \in 0..(QueueSize - 1)
      BY <3>2, PlaceType
    <3>4. ring[io.dev][io.at % QueueSize] \in Nat
      BY <3>1, <3>2, <3>3
    <3> QED BY <1>13, <3>1, <3>4 DEF FetchRequest, Ios, Dmas
  <2> QED BY <1>13, <2>1 DEF FetchRequest
<1>14. CASE Reject
  <2>1. io' \in Ios
    BY <1>14 DEF Reject, Ios
  <2> QED BY <1>14, <2>1 DEF Reject
<1>15. CASE DoRead
  <2>1. io' \in Ios
    BY <1>15 DEF DoRead, Served, Ios
  <2>2. dma' \in Dmas
    <3>1. io \in Ios /\ dma \in Dmas /\ file \in Disks
      OBVIOUS
    <3> HIDE DEF TypeOK
    <3>2. io.sector \in Sector
      BY <1>15, <3>1, PlaceType DEF DoRead, Rejects, Ios, Sector
    <3>3. file[io.dev][io.sector] \in Content
      BY <3>1, <3>2 DEF Ios, Disks
    <3> QED BY <1>15, <3>1, <3>3 DEF DoRead, Dmas
  <2> QED BY <1>15, <2>1, <2>2 DEF DoRead
<1>16. CASE DoWrite
  <2>1. io' \in Ios
    BY <1>16 DEF DoWrite, Served, Ios
  <2>2. file' \in Disks
    BY <1>16 DEF DoWrite, Dmas, Ios, Disks
  <2> QED BY <1>16, <2>1, <2>2 DEF DoWrite
<1>17. CASE DoSync
  <2>1. io' \in Ios
    BY <1>17 DEF DoSync, Served, Ios
  <2>2. synced' \in Disks
    BY <1>17 DEF DoSync, Ios, Disks
  <2> QED BY <1>17, <2>1, <2>2 DEF DoSync
<1>18. CASE BackingFails
  <2>1. io' \in Ios
    BY <1>18, IdleType DEF BackingFails
  <2>2. file' \in Disks
    <3>1. io \in Ios /\ dma \in Dmas /\ file \in Disks
      OBVIOUS
    <3> HIDE DEF TypeOK
    <3> QED BY <1>18, <3>1 DEF BackingFails, Dmas, Ios, Disks
  <2> QED BY <1>18, <2>1, <2>2, VirtioAssumption DEF BackingFails
<1>19. CASE WriteStatus
  <2>1. io' \in Ios
    BY <1>19 DEF WriteStatus, Ios
  <2>2. dma' \in Dmas
    BY <1>19 DEF WriteStatus, Ios, Dmas
  <2> QED BY <1>19, <2>1, <2>2 DEF WriteStatus
<1>20. CASE PushUsed
  <2>1. io' \in Ios
    <3>1. io \in Ios /\ io.at \in Idx
      BY DEF Ios
    <3> HIDE DEF TypeOK
    <3>2. (io.at + 1) % IdxMod \in Idx
      BY <3>1, PlaceType
    <3> QED BY <1>20, <3>1, <3>2 DEF PushUsed, Ios
  <2>2. used' \in [Device -> Idx]
    <3>1. used \in [Device -> Idx]
      OBVIOUS
    <3> HIDE DEF TypeOK
    <3> QED BY <1>20, <3>1, PlaceType DEF PushUsed
  <2> QED BY <1>20, <2>1, <2>2 DEF PushUsed
<1>21. CASE EndQueue
  <2>1. io' \in Ios
    BY <1>21, IdleType DEF EndQueue
  <2> QED BY <1>21, <2>1 DEF EndQueue, Ios
<1>22. CASE Join
  <2>1. io' \in Ios
    BY <1>22 DEF Join, Ios
  <2> QED BY <1>22, <2>1 DEF Join
<1>23. ASSUME NEW d \in Device, Consume(d) PROVE TypeOK'
  BY <1>23, IdleType DEF Consume, Ios
<1>24. CASE UNCHANGED vars
  BY <1>24 DEF vars
<1> QED BY <1>1, <1>2, <1>3, <1>4, <1>5, <1>6, <1>7, <1>8, <1>9, <1>10, <1>11,
           <1>12, <1>13, <1>14, <1>15, <1>16, <1>17, <1>18, <1>19, <1>20, <1>21,
           <1>22, <1>23, <1>24
        DEF Next, Request, Serve

-----------------------------------------------------------------------------
(* The invariant *)

\* What the theorems ask of the instance: the files of an operation that goes
\* on after a failure do not fail, and it makes fewer requests than there are
\* indices.  An operation that stops may make any number.
ScansBounded ==
    /\ "scans" \notin Faulty
    /\ "scans" \in Modes => MaxReq < IdxMod

\* The types of what the indices are about.
LEMMA Typed ==
    ASSUME TypeOK
    PROVE  /\ req.dev \in Device /\ io.dev \in Device /\ io.at \in Idx /\ io.end \in Idx
           /\ \A d \in Device : used[d] \in Idx /\ avail[d] \in Idx
           /\ mode \in {"stops", "scans"}
BY VirtioAssumption DEF TypeOK, Reqs, Ios

\* A request the device has in hand is on the guest's device, and not answered;
\* of an operation that stops it is the last one published.
LEMMA TakenIs ==
    ASSUME TypeOK, RingInv, ServeInv, Taken
    PROVE  /\ io.dev = req.dev /\ io.at = used[req.dev] /\ Behind # 0
           /\ mode = "stops" => Behind = 1 /\ io.end = avail[req.dev]
           /\ mode = "stops" => MayOwe
<1>1. /\ io.dev \in Device /\ io.at \in Idx /\ io.end \in Idx
      /\ used[io.dev] \in Idx /\ avail[io.dev] \in Idx /\ IdxMod \in Nat
  BY VirtioAssumption DEF TypeOK, Ios
<1>2. io.at # io.end /\ io.at = used[io.dev]
      /\ Dist(io.at, io.end) <= Dist(used[io.dev], avail[io.dev])
  BY DEF ServeInv, Serving, Taken
<1>3. Dist(io.at, io.end) # 0 /\ Dist(io.at, io.end) \in Nat
      /\ Dist(used[io.dev], avail[io.dev]) \in Nat
  <2>1. Dist(io.at, io.end) \in Idx /\ Dist(io.at, io.end) # 0
    BY <1>1, <1>2, DistType
  <2>2. Dist(used[io.dev], avail[io.dev]) \in Idx
    BY <1>1, DistType
  <2>3. Idx \subseteq Nat
    BY <1>1 DEF Idx
  <2> QED BY <2>1, <2>2, <2>3
<1>4. Dist(used[io.dev], avail[io.dev]) # 0
  BY <1>2, <1>3
<1>5. used[io.dev] # avail[io.dev]
  BY <1>1, <1>4, DistType
<1>6. io.dev = req.dev
  BY <1>1, <1>5 DEF RingInv
<1>7. mode = "stops" => Behind = 1 /\ Dist(io.at, io.end) = 1
  BY <1>2, <1>3, <1>6 DEF RingInv, Behind
<1>8. mode = "stops" => io.end = avail[req.dev]
  BY <1>1, <1>2, <1>6, <1>7, DistSame, VirtioAssumption DEF Behind
<1>9. mode = "stops" => MayOwe
  BY <1>5, <1>6 DEF RingInv
<1>10. Behind # 0
  BY <1>4, <1>6 DEF Behind
<1>11. io.at = used[req.dev]
  BY <1>2, <1>6
<1> QED BY <1>6, <1>7, <1>8, <1>9, <1>10, <1>11, Zenon

\* The guest writes a header only when it waits for nothing, or scans.
LEMMA WriteHeaderInv ==
    ASSUME IInv, TypeOK', WriteHeader
    PROVE  IInv'
<1> USE DEF IInv, hostVars, queue, ghosts, setup, guestVars, disk
<1>fields. dma'.type = req'.type /\ dma'.sector = req'.sector /\ dma'.data = dma.data
  BY DEF TypeOK, Dmas, Reqs, WriteHeader
<1>a. mode = "stops" => \A d \in Device : used[d] = avail[d]
  BY Typed DEF RingInv, MayOwe, WriteHeader
<1>b. req' \in Reqs /\ req'.dev \in Device
  BY DEF TypeOK, Reqs
<1>c. mode = "stops" => Behind' = 0
  BY <1>a, <1>b, Typed, DistNat DEF Behind, WriteHeader
<1>d. mode = "scans" => req'.dev = req.dev /\ req'.type = "in"
  BY DEF WriteHeader, Allowed, HeaderInv
<1>e. mode = "scans" => Behind' = Behind /\ Behind \in Nat
  BY <1>d, Typed, DistNat DEF Behind, WriteHeader
<1>1. TurnInv'
  BY <1>fields DEF WriteHeader, TurnInv
<1>2. RingInv'
  <2>1. gpc' = "data" /\ gpc = "idle" /\ nreq' = nreq + 1 /\ nreq \in Nat
        /\ UNCHANGED <<used, avail, mode>>
    BY VirtioAssumption DEF WriteHeader, TypeOK
  <2>2. \A d \in Device : d # req'.dev => used[d] = avail[d]
    BY <1>a, <1>d, Typed DEF RingInv, MayOwe
  <2> QED BY <2>1, <2>2, <1>a, <1>b, <1>c, <1>d, <1>e DEF RingInv, MayOwe
<1>3. ServeInv'
  BY <1>fields DEF WriteHeader, ServeInv, Serving, Taken, Locked
<1>4. HeaderInv'
  <2>1. req'.type = "out" /\ req'.sector \in Sector =>
          req'.data \in asked'[req'.dev][req'.sector]
    BY <1>b DEF WriteHeader, TypeOK
  <2>2. gpc' = "data" /\ UNCHANGED <<mode, io>>
    BY DEF WriteHeader
  <2>3. mode = "scans" => io.type = "in" /\ req.dev = NoReq.dev
    BY DEF HeaderInv
  <2> QED BY <1>fields, <1>d, <2>1, <2>2, <2>3 DEF HeaderInv
<1>5. AnswerInv'
  <2>1. gpc' = "data" /\ UNCHANGED mode
    BY DEF WriteHeader
  <2> QED BY <2>1, <1>c, Typed DEF AnswerInv, InHand
<1>6. WakeInv'
  <2>1. gpc' = "data" /\ gpc = "idle" /\ UNCHANGED <<used, avail, mode, io, event, errs>>
    BY DEF WriteHeader
  <2> QED BY <2>1, <1>a, <1>b, <1>d, Typed DEF WakeInv, Serving
<1>7. Honest'
  <2>1. gpc' = "data" /\ UNCHANGED file
    BY DEF WriteHeader
  <2>2. \A d \in Device : \A s \in Sector : asked[d][s] \subseteq asked'[d][s]
    BY DEF WriteHeader, TypeOK
  <2> QED BY <2>1, <2>2 DEF Honest
<1> QED BY <1>1, <1>2, <1>3, <1>4, <1>5, <1>6, <1>7

\* The data buffer is filled before the request is published.
LEMMA WriteDataInv ==
    ASSUME IInv, TypeOK', WriteData
    PROVE  IInv'
<1> USE DEF IInv, hostVars, queue, ghosts, setup, guestVars, disk
<1>fields.
      /\ dma'.type = dma.type /\ dma'.sector = dma.sector
      /\ dma'.data = (IF req.type = "out" THEN req.data ELSE dma.data)
      /\ dma'.status = dma.status
  BY DEF TypeOK, Ios, Dmas, WriteData, Served
<1>1. TurnInv'
  BY <1>fields DEF WriteData, TurnInv
<1>2. RingInv'
  BY <1>fields DEF WriteData, RingInv, Behind, MayOwe
<1>3. ServeInv'
  BY <1>fields DEF WriteData, ServeInv, Serving, Taken, Locked
<1>4. HeaderInv'
  BY <1>fields DEF WriteData, HeaderInv
<1>5. AnswerInv'
  BY <1>fields DEF WriteData, AnswerInv, InHand, Effect, Behind, Taken
<1>6. WakeInv'
  BY <1>fields DEF WriteData, WakeInv, Serving
<1>7. Honest'
  BY <1>fields DEF WriteData, Honest
<1> QED BY <1>1, <1>2, <1>3, <1>4, <1>5, <1>6, <1>7

\* The status byte is reset before the request is published.
LEMMA ArmStatusInv ==
    ASSUME IInv, TypeOK', ArmStatus
    PROVE  IInv'
<1> USE DEF IInv, hostVars, queue, ghosts, setup, guestVars, disk
<1>fields.
      /\ dma'.type = dma.type /\ dma'.sector = dma.sector /\ dma'.data = dma.data
      /\ dma'.status = "unset"
  BY DEF TypeOK, Ios, Dmas, ArmStatus, Served
<1>1. TurnInv'
  BY <1>fields DEF ArmStatus, TurnInv
<1>2. RingInv'
  BY <1>fields DEF ArmStatus, RingInv, Behind, MayOwe
<1>3. ServeInv'
  BY <1>fields DEF ArmStatus, ServeInv, Serving, Taken, Locked
<1>4. HeaderInv'
  BY <1>fields DEF ArmStatus, HeaderInv
<1>5. AnswerInv'
  BY <1>fields, Typed, DistNat DEF ArmStatus, AnswerInv, InHand, Effect, Behind,
     Taken, RingInv, MayOwe
<1>6. WakeInv'
  BY <1>fields DEF ArmStatus, WakeInv, Serving
<1>7. Honest'
  BY <1>fields DEF ArmStatus, Honest
<1> QED BY <1>1, <1>2, <1>3, <1>4, <1>5, <1>6, <1>7

\* A published request is one more to answer, and not yet in hand.
LEMMA PublishInv ==
    ASSUME IInv, TypeOK', Publish, ScansBounded
    PROVE  IInv'
<1> USE DEF IInv, hostVars, queue, ghosts, setup, guestVars, disk
<1>a. /\ gpc = "publish" /\ gpc' = "notify" /\ UNCHANGED <<req, used, mode>>
      /\ UNCHANGED <<io, dma, lastAvail, nreq>>
      /\ avail' = [avail EXCEPT ![req.dev] = Succ(avail[req.dev])]
  BY DEF Publish, Succ
<1>b. Behind \in Nat /\ Behind + 1 < IdxMod /\ (mode = "stops" => Behind = 0)
  <2>0. MaxReq \in Nat /\ IdxMod \in Nat /\ IdxMod >= 3
    BY VirtioAssumption
  <2>1. nreq \in Nat /\ nreq <= MaxReq
    BY <2>0 DEF TypeOK
  <2>5. Behind \in Nat
    BY Typed, DistNat DEF Behind
  <2>2. mode = "stops" => Behind = 0
    BY <1>a, Typed, DistNat DEF RingInv, MayOwe, Behind
  <2>3. mode = "scans" => Behind + 1 <= nreq
    BY <1>a DEF RingInv, MayOwe
  <2>4. mode = "scans" => MaxReq < IdxMod
    BY DEF ScansBounded, TypeOK
  <2> QED BY <2>0, <2>1, <2>2, <2>3, <2>4, <2>5, Typed
<1>c. Behind' = Behind + 1 /\ \A d \in Device : d # req.dev => avail'[d] = avail[d]
  BY <1>a, <1>b, Typed, DistGrows DEF Behind, TypeOK
<1>d. used[req.dev] # avail'[req.dev]
  <2>1. avail'[req.dev] \in Idx
    BY Typed DEF TypeOK
  <2>2. Dist(used[req.dev], avail'[req.dev]) # 0
    BY <1>a, <1>b, <1>c DEF Behind
  <2> QED BY <2>1, <2>2, Typed, DistNat
<1>1. TurnInv'
  BY DEF Publish, TurnInv
<1>2. RingInv'
  BY <1>a, <1>b, <1>c DEF RingInv, MayOwe
<1>3. ServeInv'
  <2>1. Serving => Dist(io.at, io.end) <= Dist(used[io.dev], avail'[io.dev])
    <3>1. CASE io.dev = req.dev
      BY <3>1, <1>a, <1>b, <1>c, Typed, DistNat DEF ServeInv, Behind
    <3>2. CASE io.dev # req.dev
      BY <3>2, <1>c, Typed DEF ServeInv
    <3> QED BY <3>1, <3>2
  <2> QED BY <1>a, <2>1 DEF ServeInv, Serving, Taken, Locked
<1>4. HeaderInv'
  BY DEF Publish, HeaderInv
<1>5. AnswerInv'
  <2>1. Taken => Behind # 0
    BY TakenIs
  <2> QED BY <2>1, <1>a, <1>b, <1>c DEF AnswerInv, InHand, Taken
<1>6. WakeInv'
  BY DEF Publish, WakeInv, Serving
<1>7. Honest'
  BY DEF Publish, Honest
<1> QED BY <1>1, <1>2, <1>3, <1>4, <1>5, <1>6, <1>7

\* The doorbell wakes the thread, or has the vCPU loop serve the queue.
LEMMA NotifyInv ==
    ASSUME IInv, TypeOK', Notify
    PROVE  IInv'
<1> USE DEF IInv, hostVars, queue, ghosts, setup, guestVars, disk
<1>fields. ~threaded => /\ io'.pc = "start" /\ io'.dev = req.dev /\ io'.type = "in"
  BY IdleType DEF Notify, Ios
<1>data. threaded => io' = io
  BY DEF Notify
<1>a. ~threaded => io.pc = "idle"
  BY DEF TurnInv, Notify
<1>1. TurnInv'
  BY <1>fields, <1>data DEF Notify, TurnInv
<1>2. RingInv'
  BY <1>fields, <1>data DEF Notify, RingInv, Behind, MayOwe
<1>3. ServeInv'
  BY <1>fields, <1>data, <1>a DEF Notify, ServeInv, Serving, Taken, Locked, Ios, TypeOK
<1>4. HeaderInv'
  BY <1>fields, <1>data DEF Notify, HeaderInv
<1>5. AnswerInv'
  BY <1>fields, <1>data DEF Notify, AnswerInv, InHand, Effect, Behind, Taken
<1>6. WakeInv'
  <2>1. threaded => event'[req.dev]
    BY Typed DEF Notify, TypeOK
  <2>2. UNCHANGED req
    BY DEF Notify
  <2> QED BY <2>1, <2>2, <1>fields, <1>data DEF WakeInv
<1>7. Honest'
  BY <1>fields, <1>data DEF Notify, Honest
<1> QED BY <1>1, <1>2, <1>3, <1>4, <1>5, <1>6, <1>7

\* The guest goes on once every request on its device is answered.
LEMMA PollInv ==
    ASSUME IInv, TypeOK', Poll
    PROVE  IInv'
<1> USE DEF IInv, hostVars, queue, ghosts, setup, guestVars, disk
<1>1. TurnInv'
  BY DEF Poll, TurnInv, Runs
<1>2. RingInv'
  BY DEF Poll, RingInv, Behind, MayOwe, SeesUsed
<1>3. ServeInv'
  BY DEF Poll, ServeInv, Serving, Taken, Locked
<1>4. HeaderInv'
  BY DEF Poll, HeaderInv
<1>5. AnswerInv'
  BY DEF Poll, AnswerInv, InHand, Effect, Behind, Taken
<1>6. WakeInv'
  BY DEF Poll, WakeInv, Serving
<1>7. Honest'
  BY DEF Poll, Honest
<1> QED BY <1>1, <1>2, <1>3, <1>4, <1>5, <1>6, <1>7

\* The guest gives up; the request it leaves is still to be answered.
LEMMA TimeoutInv ==
    ASSUME IInv, TypeOK', Timeout
    PROVE  IInv'
<1> USE DEF IInv, hostVars, queue, ghosts, setup, guestVars, disk
<1>fields. ~res'.ok
  BY DEF Timeout, TypeOK
<1>1. TurnInv'
  BY <1>fields DEF Timeout, TurnInv, Runs
<1>2. RingInv'
  BY <1>fields DEF Timeout, RingInv, Behind, MayOwe
<1>3. ServeInv'
  BY <1>fields DEF Timeout, ServeInv, Serving, Taken, Locked
<1>4. HeaderInv'
  BY <1>fields DEF Timeout, HeaderInv
<1>5. AnswerInv'
  BY <1>fields DEF Timeout, AnswerInv, InHand, Effect, Behind, Taken
<1>6. WakeInv'
  BY <1>fields DEF Timeout, WakeInv, Serving
<1>7. Honest'
  BY <1>fields DEF Timeout, Honest
<1> QED BY <1>1, <1>2, <1>3, <1>4, <1>5, <1>6, <1>7

\* Acknowledging the interrupt changes no queue.
LEMMA AckInv ==
    ASSUME IInv, TypeOK', Ack
    PROVE  IInv'
<1> USE DEF IInv, hostVars, queue, ghosts, setup, guestVars, disk
<1>1. TurnInv'
  BY DEF Ack, TurnInv
<1>2. RingInv'
  BY DEF Ack, RingInv, Behind, MayOwe
<1>3. ServeInv'
  BY DEF Ack, ServeInv, Serving, Taken, Locked
<1>4. HeaderInv'
  BY DEF Ack, HeaderInv
<1>5. AnswerInv'
  BY DEF Ack, AnswerInv, InHand, Effect, Behind, Taken
<1>6. WakeInv'
  BY DEF Ack, WakeInv, Serving
<1>7. Honest'
  BY DEF Ack, Honest
<1> QED BY <1>1, <1>2, <1>3, <1>4, <1>5, <1>6, <1>7

\* The status byte speaks of this request.
LEMMA CollectInv ==
    ASSUME IInv, TypeOK', Collect
    PROVE  IInv'
<1> USE DEF IInv, hostVars, queue, ghosts, setup, guestVars, disk
<1>fields.
      /\ res'.ok <=> dma.status = "ok"
      /\ req.type = "in" /\ dma.status = "ok" => res'.data = dma.data
  BY DEF Collect
<1>1. TurnInv'
  BY <1>fields DEF Collect, TurnInv
<1>2. RingInv'
  BY <1>fields DEF Collect, RingInv, Behind, MayOwe
<1>3. ServeInv'
  BY <1>fields DEF Collect, ServeInv, Serving, Taken, Locked
<1>4. HeaderInv'
  BY <1>fields DEF Collect, HeaderInv
<1>5. AnswerInv'
  BY <1>fields DEF Collect, AnswerInv, InHand, Effect, Behind, Taken
<1>6. WakeInv'
  BY <1>fields DEF Collect, WakeInv, Serving
<1>7. Honest'
  <2>1. Behind = 0
    BY Typed, DistNat DEF Collect, RingInv, Behind
  <2>2. dma.status = "ok" => Effect(dma.data)
    BY <2>1 DEF AnswerInv, Collect
  <2> QED BY <1>fields, <2>2 DEF Honest, Collect, Effect
<1> QED BY <1>1, <1>2, <1>3, <1>4, <1>5, <1>6, <1>7

\* After a failure only a scan goes on.
LEMMA ContinueInv ==
    ASSUME IInv, TypeOK', Continue
    PROVE  IInv'
<1> USE DEF IInv, hostVars, queue, ghosts, setup, guestVars, disk
<1>1. TurnInv'
  BY DEF Continue, TurnInv
<1>2. RingInv'
  BY DEF Continue, RingInv, Behind, MayOwe
<1>3. ServeInv'
  BY DEF Continue, ServeInv, Serving, Taken, Locked
<1>4. HeaderInv'
  BY DEF Continue, HeaderInv
<1>5. AnswerInv'
  BY DEF Continue, AnswerInv, InHand, Effect, Behind, Taken
<1>6. WakeInv'
  BY DEF Continue, WakeInv, Serving
<1>7. Honest'
  BY DEF Continue, Honest
<1> QED BY <1>1, <1>2, <1>3, <1>4, <1>5, <1>6, <1>7

\* A halted guest leaves at most what it was waiting for.
LEMMA HaltInv ==
    ASSUME IInv, TypeOK', Halt
    PROVE  IInv'
<1> USE DEF IInv, hostVars, queue, ghosts, setup, guestVars, disk
<1>1. TurnInv'
  BY DEF Halt, TurnInv
<1>2. RingInv'
  BY DEF Halt, RingInv, Behind, MayOwe
<1>3. ServeInv'
  BY DEF Halt, ServeInv, Serving, Taken, Locked
<1>4. HeaderInv'
  BY DEF Halt, HeaderInv
<1>5. AnswerInv'
  BY DEF Halt, AnswerInv, InHand, Effect, Behind, Taken
<1>6. WakeInv'
  BY DEF Halt, WakeInv, Serving
<1>7. Honest'
  BY DEF Halt, Honest
<1> QED BY <1>1, <1>2, <1>3, <1>4, <1>5, <1>6, <1>7

\* The event is consumed before the queue is read.
LEMMA ConsumeInv ==
    ASSUME IInv, TypeOK', NEW dd \in Device, Consume(dd)
    PROVE  IInv'
<1> USE DEF IInv, hostVars, queue, ghosts, setup, guestVars, disk
<1>fields. io'.pc = "start" /\ io'.dev = dd /\ io'.type = "in"
  BY IdleType DEF Consume, Ios
<1>1. TurnInv'
  BY <1>fields DEF Consume, TurnInv
<1>2. RingInv'
  BY <1>fields DEF Consume, RingInv, Behind, MayOwe
<1>3. ServeInv'
  BY <1>fields DEF Consume, ServeInv, Serving, Taken, Locked
<1>4. HeaderInv'
  BY <1>fields DEF Consume, HeaderInv
<1>5. AnswerInv'
  BY <1>fields DEF Consume, AnswerInv, InHand, Effect, Behind, Taken
<1>6. WakeInv'
  BY <1>fields DEF Consume, WakeInv, Serving
<1>7. Honest'
  BY <1>fields DEF Consume, Honest
<1> QED BY <1>1, <1>2, <1>3, <1>4, <1>5, <1>6, <1>7

\* The queue is read from where it was left to where it is now.
LEMMA StartQueueInv ==
    ASSUME IInv, TypeOK', StartQueue
    PROVE  IInv'
<1> USE DEF IInv, hostVars, queue, ghosts, setup, guestVars, disk
<1>fields.
      /\ io'.pc = "next" /\ io'.dev = io.dev /\ io'.at = lastAvail[io.dev]
      /\ io'.end = avail[io.dev] /\ io'.type = io.type /\ io'.sector = io.sector
      /\ io'.status = io.status
  BY DEF TypeOK, Ios, Dmas, StartQueue, Served
<1>1. TurnInv'
  BY <1>fields DEF StartQueue, TurnInv
<1>2. RingInv'
  BY <1>fields DEF StartQueue, RingInv, Behind, MayOwe
<1>3. ServeInv'
  <2>1. io.pc = "start" /\ UNCHANGED <<lastAvail, used, avail, mode>>
    BY DEF StartQueue
  <2>2. lastAvail[io.dev] = used[io.dev]
    BY Typed, <2>1 DEF ServeInv, Locked
  <2>3. Dist(used[io.dev], avail[io.dev]) \in Nat
    BY Typed, DistNat
  <2> QED BY <1>fields, <2>1, <2>2, <2>3 DEF ServeInv, Serving, Taken, Locked
<1>4. HeaderInv'
  BY <1>fields DEF StartQueue, HeaderInv
<1>5. AnswerInv'
  BY <1>fields DEF StartQueue, AnswerInv, InHand, Effect, Behind, Taken
<1>6. WakeInv'
  BY <1>fields DEF StartQueue, WakeInv, Serving
<1>7. Honest'
  BY <1>fields DEF StartQueue, Honest
<1> QED BY <1>1, <1>2, <1>3, <1>4, <1>5, <1>6, <1>7

\* The header fetched is the one of the last request.
LEMMA FetchRequestInv ==
    ASSUME IInv, TypeOK', FetchRequest
    PROVE  IInv'
<1> USE DEF IInv, hostVars, queue, ghosts, setup, guestVars, disk
<1>fields.
      /\ io'.pc = "exec" /\ io'.dev = io.dev /\ io'.at = io.at /\ io'.end = io.end
      /\ io'.type = dma.type /\ io'.sector = dma.sector /\ io'.status = io.status
  <2>1. io \in Ios /\ dma \in Dmas
    BY DEF TypeOK
  <2> HIDE DEF IInv
  <2> QED BY <2>1 DEF Ios, Dmas, FetchRequest
<1>1. TurnInv'
  BY <1>fields DEF FetchRequest, TurnInv
<1>2. RingInv'
  BY <1>fields DEF FetchRequest, RingInv, Behind, MayOwe
<1>3. ServeInv'
  BY <1>fields DEF FetchRequest, ServeInv, Serving, Taken, Locked
<1>4. HeaderInv'
  BY <1>fields DEF FetchRequest, HeaderInv
<1>5. AnswerInv'
  BY <1>fields DEF FetchRequest, AnswerInv, InHand, Effect, Behind, Taken, HeaderInv
<1>6. WakeInv'
  BY <1>fields DEF FetchRequest, WakeInv, Serving
<1>7. Honest'
  BY <1>fields DEF FetchRequest, Honest
<1> QED BY <1>1, <1>2, <1>3, <1>4, <1>5, <1>6, <1>7

\* A rejected request gets an error status.
LEMMA RejectInv ==
    ASSUME IInv, TypeOK', Reject
    PROVE  IInv'
<1> USE DEF IInv, hostVars, queue, ghosts, setup, guestVars, disk
<1>fields.
      /\ io'.pc = "status" /\ io'.dev = io.dev /\ io'.at = io.at /\ io'.end = io.end
      /\ io'.type = io.type /\ io'.sector = io.sector /\ io'.status = "ioerr"
  BY DEF TypeOK, Ios, Dmas, Reject, Served
<1>taken.
      /\ Taken /\ io.dev = req.dev /\ io.at = used[req.dev] /\ Behind # 0
      /\ mode = "stops" => Behind = 1 /\ io.end = avail[req.dev]
      /\ mode = "stops" => MayOwe
  BY TakenIs DEF Reject, Taken
<1>1. TurnInv'
  BY <1>fields, <1>taken DEF Reject, TurnInv
<1>2. RingInv'
  BY <1>fields, <1>taken DEF Reject, RingInv, Behind, MayOwe
<1>3. ServeInv'
  BY <1>fields, <1>taken DEF Reject, ServeInv, Serving, Taken, Locked
<1>4. HeaderInv'
  BY <1>fields, <1>taken DEF Reject, HeaderInv
<1>5. AnswerInv'
  BY <1>fields, <1>taken DEF Reject, AnswerInv, InHand, Effect, Behind, Taken
<1>6. WakeInv'
  BY <1>fields, <1>taken DEF Reject, WakeInv, Serving
<1>7. Honest'
  BY <1>fields, <1>taken DEF Reject, Honest
<1> QED BY <1>1, <1>2, <1>3, <1>4, <1>5, <1>6, <1>7

\* A read puts the sector where the guest looks for it.
LEMMA DoReadInv ==
    ASSUME IInv, TypeOK', DoRead
    PROVE  IInv'
<1> USE DEF IInv, hostVars, queue, ghosts, setup, guestVars, disk
<1>fields.
      /\ io'.pc = "status" /\ io'.dev = io.dev /\ io'.at = io.at /\ io'.end = io.end
      /\ io'.type = io.type /\ io'.sector = io.sector /\ io'.status = "ok"
  BY DEF TypeOK, Ios, Dmas, DoRead, Served
<1>data.
      /\ dma'.type = dma.type /\ dma'.sector = dma.sector
      /\ dma'.data = file[io.dev][io.sector] /\ dma'.status = dma.status
  BY DEF TypeOK, Ios, Dmas, DoRead, Served
<1>taken.
      /\ Taken /\ io.dev = req.dev /\ io.at = used[req.dev] /\ Behind # 0
      /\ mode = "stops" => Behind = 1 /\ io.end = avail[req.dev]
      /\ mode = "stops" => MayOwe
  BY TakenIs DEF DoRead, Taken
<1>1. TurnInv'
  BY <1>fields, <1>data, <1>taken DEF DoRead, TurnInv
<1>2. RingInv'
  BY <1>fields, <1>data, <1>taken DEF DoRead, RingInv, Behind, MayOwe
<1>3. ServeInv'
  BY <1>fields, <1>data, <1>taken DEF DoRead, ServeInv, Serving, Taken, Locked
<1>4. HeaderInv'
  BY <1>fields, <1>data, <1>taken DEF DoRead, HeaderInv, AnswerInv, InHand
<1>5. AnswerInv'
  BY <1>fields, <1>data, <1>taken DEF DoRead, AnswerInv, InHand, Effect, Behind, Taken
<1>6. WakeInv'
  BY <1>fields, <1>data, <1>taken DEF DoRead, WakeInv, Serving
<1>7. Honest'
  BY <1>fields, <1>data, <1>taken DEF DoRead, Honest
<1> QED BY <1>1, <1>2, <1>3, <1>4, <1>5, <1>6, <1>7

\* A write stores what the guest put in the buffer.
LEMMA DoWriteInv ==
    ASSUME IInv, TypeOK', DoWrite
    PROVE  IInv'
<1> USE DEF IInv, hostVars, queue, ghosts, setup, guestVars, disk
<1>fields.
      /\ io'.pc = "status" /\ io'.dev = io.dev /\ io'.at = io.at /\ io'.end = io.end
      /\ io'.type = io.type /\ io'.sector = io.sector /\ io'.status = "ok"
  BY DEF TypeOK, Ios, Dmas, DoWrite, Served
<1>taken.
      /\ Taken /\ io.dev = req.dev /\ io.at = used[req.dev] /\ Behind # 0
      /\ mode = "stops" => Behind = 1 /\ io.end = avail[req.dev]
      /\ mode = "stops" => MayOwe
  BY TakenIs DEF DoWrite, Taken
<1>a. mode = "stops" /\ InHand
  BY <1>taken, Typed DEF HeaderInv, DoWrite, InHand
<1>b. /\ io.type = "out" /\ req.type = "out" /\ req.sector = io.sector
      /\ io.sector \in Sector /\ dma.data = req.data
  <2>1. io.sector < Sectors /\ io.sector \in Nat
    <3>1. io.sector \in 0..Sectors
      BY DEF TypeOK, Ios
    <3> HIDE DEF IInv
    <3> QED BY <3>1, PlaceType DEF DoWrite, Rejects
  <2> QED BY <1>a, <1>taken, <2>1, VirtioAssumption
          DEF AnswerInv, HeaderInv, DoWrite, Sector, MayOwe
<1>c. /\ file'[req.dev][req.sector] = req.data
      /\ \A d \in Device, s \in Sector : file'[d][s] \in {file[d][s], req.data}
      /\ \A d \in Device, s \in Sector :
            file'[d][s] # file[d][s] => d = req.dev /\ s = req.sector
  <2>1. file \in Disks /\ req.dev \in Device
    BY Typed DEF TypeOK
  <2> HIDE DEF IInv
  <2> QED BY <1>b, <1>taken, <2>1 DEF DoWrite, Disks
<1>1. TurnInv'
  BY <1>fields, <1>taken DEF DoWrite, TurnInv
<1>2. RingInv'
  BY <1>fields, <1>taken DEF DoWrite, RingInv, Behind, MayOwe
<1>3. ServeInv'
  BY <1>fields, <1>taken DEF DoWrite, ServeInv, Serving, Taken, Locked
<1>4. HeaderInv'
  BY <1>fields, <1>taken DEF DoWrite, HeaderInv
<1>5. AnswerInv'
  <2>1. UNCHANGED <<req, gpc, used, avail, mode, dma>>
    BY DEF DoWrite
  <2> QED BY <2>1, <1>a, <1>b, <1>c, <1>taken, <1>fields
          DEF AnswerInv, InHand, Effect, Behind, Taken
<1>6. WakeInv'
  BY <1>fields, <1>taken DEF DoWrite, WakeInv, Serving
<1>7. Honest'
  <2>1. UNCHANGED <<req, gpc, res, asked>>
    BY DEF DoWrite
  <2>2. req.data \in asked[req.dev][req.sector]
    BY <1>b DEF HeaderInv
  <2> QED BY <2>1, <2>2, <1>a, <1>c, <1>taken DEF Honest, MayOwe
<1> QED BY <1>1, <1>2, <1>3, <1>4, <1>5, <1>6, <1>7

\* A flush makes the file durable.
LEMMA DoSyncInv ==
    ASSUME IInv, TypeOK', DoSync
    PROVE  IInv'
<1> USE DEF IInv, hostVars, queue, ghosts, setup, guestVars, disk
<1>fields.
      /\ io'.pc = "status" /\ io'.dev = io.dev /\ io'.at = io.at /\ io'.end = io.end
      /\ io'.type = io.type /\ io'.sector = io.sector /\ io'.status = "ok"
  BY DEF TypeOK, Ios, Dmas, DoSync, Served
<1>taken.
      /\ Taken /\ io.dev = req.dev /\ io.at = used[req.dev] /\ Behind # 0
      /\ mode = "stops" => Behind = 1 /\ io.end = avail[req.dev]
      /\ mode = "stops" => MayOwe
  BY TakenIs DEF DoSync, Taken
<1>1. TurnInv'
  BY <1>fields, <1>taken DEF DoSync, TurnInv
<1>2. RingInv'
  BY <1>fields, <1>taken DEF DoSync, RingInv, Behind, MayOwe
<1>3. ServeInv'
  BY <1>fields, <1>taken DEF DoSync, ServeInv, Serving, Taken, Locked
<1>4. HeaderInv'
  BY <1>fields, <1>taken DEF DoSync, HeaderInv
<1>5. AnswerInv'
  <2>1. UNCHANGED <<req, gpc, used, avail, mode, dma, file>> /\ io.type = "flush" /\ io.pc = "exec"
    BY DEF DoSync
  <2>2. mode = "stops" /\ InHand /\ req.type = "flush"
    BY <2>1, <1>taken, Typed DEF HeaderInv, InHand, AnswerInv
  <2>3. synced'[req.dev] = file[req.dev]
    BY <1>taken, Typed DEF DoSync, TypeOK, Disks
  <2> QED BY <2>1, <2>2, <2>3, <1>taken, <1>fields
          DEF AnswerInv, InHand, Effect, Behind, Taken
<1>6. WakeInv'
  BY <1>fields, <1>taken DEF DoSync, WakeInv, Serving
<1>7. Honest'
  <2>1. synced'[req.dev] = file[req.dev]
    BY <1>taken, Typed DEF DoSync, TypeOK, Disks
  <2>2. Honest /\ UNCHANGED <<gpc, req, res, file, asked>>
    BY DEF DoSync
  <2> HIDE DEF IInv
  <2> QED BY <2>1, <2>2 DEF Honest
<1> QED BY <1>1, <1>2, <1>3, <1>4, <1>5, <1>6, <1>7

\* A failing file leaves its request unanswered, whole or not written.
LEMMA BackingFailsInv ==
    ASSUME IInv, TypeOK', BackingFails, ScansBounded
    PROVE  IInv'
<1> USE DEF IInv, hostVars, queue, ghosts, setup, guestVars, disk
<1>fields. io'.pc = "idle" /\ io'.type = "in"
  BY IdleType DEF BackingFails
<1>taken.
      /\ Taken /\ io.dev = req.dev /\ io.at = used[req.dev] /\ Behind # 0
      /\ mode = "stops" => Behind = 1 /\ io.end = avail[req.dev]
      /\ mode = "stops" => MayOwe
  BY TakenIs DEF BackingFails, Taken
<1>a. mode = "stops" /\ InHand
  BY <1>taken, Typed DEF ScansBounded, BackingFails, InHand
<1>b. \A d \in Device, s \in Sector : file'[d][s] # file[d][s] =>
          d = req.dev /\ s = req.sector /\ req.type = "out" /\ file'[d][s] = req.data
  <2>1. CASE UNCHANGED file
    BY <2>1
  <2>2. CASE io.type = "out" /\ file' = [file EXCEPT ![io.dev][io.sector] = dma.data]
    <3>1. io.sector < Sectors /\ io.sector \in Nat
      <4>1. io.sector \in 0..Sectors
        BY DEF TypeOK, Ios
      <4> HIDE DEF IInv
      <4> QED BY <2>2, <4>1, PlaceType DEF BackingFails, Rejects
    <3>2. /\ req.type = "out" /\ req.sector = io.sector /\ io.sector \in Sector
          /\ dma.data = req.data
      BY <2>2, <3>1, <1>a, <1>taken, VirtioAssumption DEF AnswerInv, HeaderInv,
         Sector, MayOwe
    <3> QED BY <2>2, <3>2, <1>taken, Typed DEF TypeOK, Disks
  <2> QED BY <2>1, <2>2 DEF BackingFails
<1>c. gpc' \in {gpc, "halted"} /\ UNCHANGED <<req, res, used, avail, mode, lastAvail, asked>>
  BY DEF BackingFails
<1>d. errs' # 0
  BY VirtioAssumption DEF BackingFails, TypeOK
<1>1. TurnInv'
  BY <1>fields, <1>taken DEF BackingFails, TurnInv
<1>2. RingInv'
  <2>1. Behind' = Behind
    BY <1>c DEF Behind
  <2> QED BY <2>1, <1>a, <1>c, <1>taken DEF RingInv, MayOwe
<1>3. ServeInv'
  <2>1. lastAvail[io.dev] = used[io.dev] /\ io.pc = "exec"
    BY <1>a, <1>taken, Typed DEF ServeInv, Serving, Taken, BackingFails
  <2> QED BY <2>1, <1>c, <1>fields, Typed DEF ServeInv, Serving, Taken, Locked
<1>4. HeaderInv'
  BY <1>fields, <1>taken, <1>a DEF BackingFails, HeaderInv, MayOwe
<1>5. AnswerInv'
  <2>1. Behind' = Behind
    BY <1>c DEF Behind
  <2> QED BY <2>1, <1>a, <1>fields, <1>taken DEF AnswerInv, InHand, Taken
<1>6. WakeInv'
  BY <1>d DEF WakeInv
<1>7. Honest'
  <2>1. \A d \in Device, s \in Sector : file'[d][s] \in asked[d][s]
    BY <1>b DEF HeaderInv, Honest
  <2> QED BY <2>1, <1>a, <1>c, <1>taken DEF Honest, MayOwe
<1> QED BY <1>1, <1>2, <1>3, <1>4, <1>5, <1>6, <1>7

\* The status byte is written before the index.
LEMMA WriteStatusInv ==
    ASSUME IInv, TypeOK', WriteStatus
    PROVE  IInv'
<1> USE DEF IInv, hostVars, queue, ghosts, setup, guestVars, disk
<1>fields.
      /\ io'.pc = "used" /\ io'.dev = io.dev /\ io'.at = io.at /\ io'.end = io.end
      /\ io'.type = io.type /\ io'.sector = io.sector /\ io'.status = io.status
  BY DEF TypeOK, Ios, Dmas, WriteStatus, Served
<1>data.
      /\ dma'.type = dma.type /\ dma'.sector = dma.sector /\ dma'.data = dma.data
      /\ dma'.status = io.status
  BY DEF TypeOK, Ios, Dmas, WriteStatus, Served
<1>taken.
      /\ Taken /\ io.dev = req.dev /\ io.at = used[req.dev] /\ Behind # 0
      /\ mode = "stops" => Behind = 1 /\ io.end = avail[req.dev]
      /\ mode = "stops" => MayOwe
  BY TakenIs DEF WriteStatus, Taken
<1>1. TurnInv'
  BY <1>fields, <1>data, <1>taken DEF WriteStatus, TurnInv
<1>2. RingInv'
  BY <1>fields, <1>data, <1>taken DEF WriteStatus, RingInv, Behind, MayOwe
<1>3. ServeInv'
  BY <1>fields, <1>data, <1>taken DEF WriteStatus, ServeInv, Serving, Taken, Locked
<1>4. HeaderInv'
  BY <1>fields, <1>data, <1>taken DEF WriteStatus, HeaderInv
<1>5. AnswerInv'
  BY <1>fields, <1>data, <1>taken DEF WriteStatus, AnswerInv, InHand, Effect, Behind,
     Taken
<1>6. WakeInv'
  BY <1>fields, <1>data, <1>taken DEF WriteStatus, WakeInv, Serving
<1>7. Honest'
  BY <1>fields, <1>data, <1>taken DEF WriteStatus, Honest
<1> QED BY <1>1, <1>2, <1>3, <1>4, <1>5, <1>6, <1>7

\* The index goes up when the answer is there.
LEMMA PushUsedInv ==
    ASSUME IInv, TypeOK', PushUsed
    PROVE  IInv'
<1> USE DEF IInv, hostVars, queue, ghosts, setup, guestVars, disk
<1>fields.
      /\ io'.pc = "next" /\ io'.dev = io.dev /\ io'.at = (io.at + 1) % IdxMod
      /\ io'.end = io.end /\ io'.type = io.type /\ io'.sector = io.sector
      /\ io'.status = io.status
  BY DEF TypeOK, Ios, Dmas, PushUsed, Served
<1>taken.
      /\ Taken /\ io.dev = req.dev /\ io.at = used[req.dev] /\ Behind # 0
      /\ mode = "stops" => Behind = 1 /\ io.end = avail[req.dev]
      /\ mode = "stops" => MayOwe
  BY TakenIs DEF PushUsed, Taken
<1>a. /\ used' = [used EXCEPT ![req.dev] = Succ(used[req.dev])]
      /\ io'.at = Succ(used[req.dev])
      /\ io.pc = "used" /\ UNCHANGED <<req, res, gpc, avail, mode, dma>>
      /\ UNCHANGED <<lastAvail, file, synced, event, errs, nreq>>
  BY <1>taken, <1>fields DEF PushUsed, Succ
<1>b. used[req.dev] # avail[req.dev] /\ io.at # io.end
  <2>1. used[req.dev] \in Idx /\ avail[req.dev] \in Idx /\ (Taken => io.at # io.end)
    BY Typed DEF ServeInv
  <2> HIDE DEF IInv
  <2>2. used[req.dev] # avail[req.dev]
    BY <1>taken, <2>1, DistNat DEF Behind
  <2> QED BY <1>taken, <2>1, <2>2
<1>c. Behind' = Behind - 1 /\ Behind \in Nat
  <2>1. /\ used \in [Device -> Idx] /\ req.dev \in Device
        /\ used[req.dev] \in Idx /\ avail[req.dev] \in Idx
    BY Typed DEF TypeOK
  <2> HIDE DEF IInv
  <2>2. Dist(Succ(used[req.dev]), avail[req.dev]) = Dist(used[req.dev], avail[req.dev]) - 1
    BY <1>b, <2>1, DistShrinks
  <2>3. Behind \in Nat
    BY <2>1, DistNat DEF Behind
  <2>4. used'[req.dev] = Succ(used[req.dev])
    BY <1>a, <2>1
  <2>5. Behind' = Dist(Succ(used[req.dev]), avail[req.dev])
    BY <1>a, <2>4 DEF Behind, Dist
  <2> QED BY <2>2, <2>3, <2>5 DEF Behind
<1>d. Dist(Succ(used[req.dev]), io.end) = Dist(io.at, io.end) - 1
  BY <1>b, <1>taken, Typed, DistShrinks
<1>e. \A d \in Device : d # req.dev => used'[d] = used[d]
  BY <1>a DEF TypeOK
<1>g. used'[req.dev] = Succ(used[req.dev])
  BY <1>a, Typed DEF TypeOK
<1>1. TurnInv'
  BY <1>fields, <1>taken DEF PushUsed, TurnInv
<1>2. RingInv'
  <2>1. gpc \notin {"ack", "collect"}
    <3>1. RingInv
      OBVIOUS
    <3> HIDE DEF IInv
    <3> QED BY <1>b, <3>1 DEF RingInv
  <2>2. nreq \in Nat
    BY VirtioAssumption DEF TypeOK
  <2>3. /\ \A d \in Device : d # req.dev => used[d] = avail[d]
        /\ mode = "stops" => Behind <= 1 /\ MayOwe
        /\ mode = "scans" => Behind + (IF gpc \in {"data", "arm", "publish"} THEN 1 ELSE 0)
                               <= nreq
    BY <1>b DEF RingInv
  <2> HIDE DEF IInv
  <2>4. MayOwe' = MayOwe
    BY <1>a DEF MayOwe
  <2>5. mode = "stops" => Behind - 1 <= 1
    BY <2>3, <1>c
  <2>6. mode = "scans" => (Behind - 1) + (IF gpc \in {"data", "arm", "publish"} THEN 1 ELSE 0)
                            <= nreq
    <3>1. PICK x \in {0, 1} : x = IF gpc \in {"data", "arm", "publish"} THEN 1 ELSE 0
      OBVIOUS
    <3>2. mode = "scans" => Behind + x <= nreq
      BY <2>3, <3>1
    <3>3. mode = "scans" => (Behind - 1) + x <= nreq
      BY <2>2, <3>2, <1>c
    <3> QED BY <3>1, <3>3
  <2>7. \A d \in Device : d # req.dev => used'[d] = avail[d]
    BY <2>3, <1>e
  <2> QED BY <2>1, <2>3, <2>4, <2>5, <2>6, <2>7, <1>a, <1>c DEF RingInv
<1>3. ServeInv'
  <2>1. Dist(io.at, io.end) <= Behind /\ Dist(io.at, io.end) \in Nat
    BY <1>taken, Typed, DistNat DEF ServeInv, Serving, Taken, Behind
  <2>2. Dist(io'.at, io'.end) <= Dist(used'[io'.dev], avail'[io'.dev])
    <3> HIDE DEF IInv
    <3>1. /\ io'.at = Succ(used[req.dev]) /\ io'.end = io.end /\ io'.dev = req.dev
          /\ avail' = avail
      BY <1>a, <1>fields, <1>taken
    <3>2. Behind - 1 = Dist(used'[req.dev], avail[req.dev])
      BY <1>a, <1>c DEF Behind, Dist
    <3>3. Dist(io.at, io.end) - 1 <= Behind - 1
      BY <2>1, <1>c
    <3>4. Dist(io'.at, io'.end) = Dist(io.at, io.end) - 1
      BY <1>d, <3>1
    <3>5. Dist(used'[io'.dev], avail'[io'.dev]) = Behind - 1
      BY <3>1, <3>2
    <3> QED BY <3>3, <3>4, <3>5
  <2>3. mode = "stops" => io'.at = io'.end
    <3>1. Succ(used[req.dev]) \in Idx
      BY Typed, PlaceType DEF Succ
    <3>2. mode = "stops" => Dist(io.at, io.end) = 1
      BY <2>1, <1>b, <1>taken, Typed, DistNat
    <3>3. mode = "stops" => Dist(Succ(used[req.dev]), io.end) = 0
      BY <3>2, <1>d
    <3> QED BY <3>1, <3>3, <1>a, <1>fields, Typed, DistNat
  <2> QED BY <2>2, <2>3, <1>a, <1>e, <1>fields, <1>g, <1>taken
          DEF ServeInv, Serving, Taken, Locked
<1>4. HeaderInv'
  BY <1>fields, <1>taken DEF PushUsed, HeaderInv
<1>5. AnswerInv'
  <2>1. gpc \notin {"ack", "collect"}
    BY <1>b DEF RingInv, MayOwe
  <2>2. Behind' = 0 /\ gpc \in {"notify", "wait"} => InHand
    BY <1>c, <1>taken DEF InHand
  <2> QED BY <2>1, <2>2, <1>a, <1>fields DEF AnswerInv, InHand, Taken, Effect
<1>6. WakeInv'
  BY <1>a, <1>b, <1>fields, <1>taken DEF WakeInv, Serving
<1>7. Honest'
  BY <1>fields, <1>taken DEF PushUsed, Honest
<1> QED BY <1>1, <1>2, <1>3, <1>4, <1>5, <1>6, <1>7

\* The last index read is saved when all up to it is answered.
LEMMA EndQueueInv ==
    ASSUME IInv, TypeOK', EndQueue
    PROVE  IInv'
<1> USE DEF IInv, hostVars, queue, ghosts, setup, guestVars, disk
<1>fields. io'.pc = "idle" /\ io'.type = "in"
  BY IdleType DEF EndQueue
<1>a. /\ io.pc = "next" /\ io.at = io.end /\ io.at = used[io.dev]
      /\ lastAvail' = [lastAvail EXCEPT ![io.dev] = io.at]
      /\ UNCHANGED <<req, res, gpc, used, avail, mode, event, errs>>
  BY DEF EndQueue, ServeInv, Serving
<1>1. TurnInv'
  BY <1>fields DEF EndQueue, TurnInv
<1>2. RingInv'
  BY <1>fields DEF EndQueue, RingInv, Behind, MayOwe
<1>3. ServeInv'
  <2>1. \A d \in Device : lastAvail'[d] = used'[d]
    BY <1>a, Typed DEF ServeInv, Locked, TypeOK
  <2> QED BY <2>1, <1>fields DEF ServeInv, Serving, Taken, Locked
<1>4. HeaderInv'
  BY <1>fields DEF EndQueue, HeaderInv
<1>5. AnswerInv'
  BY <1>fields DEF EndQueue, AnswerInv, InHand, Effect, Behind, Taken
<1>6. WakeInv'
  BY <1>a, <1>fields DEF WakeInv, Serving
<1>7. Honest'
  BY <1>fields DEF EndQueue, Honest
<1> QED BY <1>1, <1>2, <1>3, <1>4, <1>5, <1>6, <1>7

\* The thread ends after the guest.
LEMMA JoinInv ==
    ASSUME IInv, TypeOK', Join
    PROVE  IInv'
<1> USE DEF IInv, hostVars, queue, ghosts, setup, guestVars, disk
<1>fields.
      /\ io'.pc = "joined" /\ io'.dev = io.dev /\ io'.at = io.at /\ io'.end = io.end
      /\ io'.type = io.type /\ io'.sector = io.sector /\ io'.status = io.status
  BY DEF TypeOK, Ios, Dmas, Join, Served
<1>1. TurnInv'
  BY <1>fields DEF Join, TurnInv
<1>2. RingInv'
  BY <1>fields DEF Join, RingInv, Behind, MayOwe
<1>3. ServeInv'
  BY <1>fields DEF Join, ServeInv, Serving, Taken, Locked
<1>4. HeaderInv'
  BY <1>fields DEF Join, HeaderInv
<1>5. AnswerInv'
  BY <1>fields DEF Join, AnswerInv, InHand, Effect, Behind, Taken
<1>6. WakeInv'
  BY <1>fields DEF Join, WakeInv, Serving
<1>7. Honest'
  BY <1>fields DEF Join, Honest
<1> QED BY <1>1, <1>2, <1>3, <1>4, <1>5, <1>6, <1>7

-----------------------------------------------------------------------------
(* The theorems *)

\* At first nothing is under way.
LEMMA InitInv ==
    ASSUME Init
    PROVE  IInv
<1>1. TypeOK
  BY InitType
<1>2. io.pc = "idle" /\ io.type = "in"
  BY IdleType DEF Init
<1>3. \A d \in Device : used[d] = avail[d] /\ lastAvail[d] = used[d] /\ ~event[d]
  BY DEF Init
<1>4. req.dev \in Device /\ used[req.dev] \in Idx
  BY <1>1 DEF TypeOK, Reqs
<1>5. Behind = 0
  BY <1>3, <1>4, DistType DEF Behind
<1>6. gpc = "idle" /\ nreq = 0 /\ req = NoReq
  BY DEF Init
<1>7. TurnInv /\ ServeInv /\ AnswerInv /\ WakeInv
  BY <1>2, <1>3, <1>4, <1>6 DEF TurnInv, ServeInv, AnswerInv, WakeInv, Serving,
     Taken, InHand
<1>8. RingInv
  <2>1. gpc \notin {"data", "arm", "publish", "ack", "collect"} /\ nreq = 0
    BY <1>6
  <2>2. used[req.dev] = avail[req.dev]
    BY <1>3, <1>4
  <2>3. Behind <= 1 /\ Behind + 0 <= nreq
    BY <1>5, <1>6
  <2>4. (IF gpc \in {"data", "arm", "publish"} THEN 1 ELSE 0) = 0
    BY <2>1
  <2> QED BY <1>3, <2>1, <2>2, <2>3, <2>4 DEF RingInv
<1>9. HeaderInv
  BY <1>2, NoReqType DEF HeaderInv, Init
<1>10. Honest
  BY <1>6 DEF Honest, Init
<1> QED BY <1>1, <1>7, <1>8, <1>9, <1>10 DEF IInv

\* Every step keeps the invariant.
LEMMA NextInv ==
    ASSUME IInv, [Next]_vars, ScansBounded
    PROVE  IInv'
<1>1. TypeOK'
  BY NextType DEF IInv
<1>2. CASE Request
  BY <1>1, <1>2, WriteHeaderInv, WriteDataInv, ArmStatusInv, PublishInv, NotifyInv,
     PollInv,
     TimeoutInv, AckInv, CollectInv DEF Request
<1>3. CASE Serve
  BY <1>1, <1>3, ConsumeInv, StartQueueInv, FetchRequestInv, RejectInv, DoReadInv,
     DoWriteInv,
     DoSyncInv, WriteStatusInv, PushUsedInv, EndQueueInv DEF Serve
<1>4. CASE Continue \/ Halt \/ BackingFails \/ Join
  BY <1>1, <1>4, ContinueInv, HaltInv, BackingFailsInv, JoinInv
<1>5. CASE UNCHANGED vars
  <2> USE <1>5 DEF vars, guestVars, hostVars, queue, ghosts, setup, disk
  <2>1. TurnInv' /\ RingInv' /\ ServeInv'
    BY DEF IInv, TurnInv, RingInv, MayOwe, ServeInv, Behind, Serving, Taken, Locked
  <2>2. HeaderInv' /\ AnswerInv'
    BY DEF IInv, HeaderInv, AnswerInv, InHand, Effect, Behind, Taken
  <2>3. WakeInv' /\ Honest'
    BY DEF IInv, WakeInv, Honest, Serving
  <2> QED BY <1>1, <2>1, <2>2, <2>3 DEF IInv
<1> QED BY <1>2, <1>3, <1>4, <1>5 DEF Next

\* A request that the waiting guest has nobody left to serve is answered.
LEMMA InvNoLost ==
    ASSUME IInv
    PROVE  NoLostRequest
<1>1. io.pc = "idle" => ~Serving
  BY DEF Serving
<1> QED BY <1>1 DEF IInv, WakeInv, NoLostRequest, Dropped, SeesUsed

\* A request that do_request reports as successful has been done, and a sector
\* holds only what was asked to be there (Honest): for any devices, sectors,
\* ring size, index modulus and, of an operation that stops at a failure, any
\* number of requests, wherever in the ring they start.
THEOREM AnswersAreHonest ==
    ASSUME ScansBounded
    PROVE  Spec => []Honest
<1>1. Init => IInv
  BY InitInv
<1>2. IInv /\ [Next]_vars => IInv'
  BY NextInv
<1>3. IInv => Honest
  BY DEF IInv
<1> QED BY <1>1, <1>2, <1>3, PTL DEF Spec

\* No notification is lost between the guest, the eventfd and process_queue
\* (NoLostRequest): while the guest waits and nothing serves its device, the
\* answer is there.
THEOREM NotificationsKept ==
    ASSUME ScansBounded
    PROVE  Spec => []NoLostRequest
<1>1. Init => IInv
  BY InitInv
<1>2. IInv /\ [Next]_vars => IInv'
  BY NextInv
<1>3. IInv => NoLostRequest
  BY InvNoLost
<1> QED BY <1>1, <1>2, <1>3, PTL DEF Spec
=============================================================================
