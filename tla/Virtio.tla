------------------------------- MODULE Virtio -------------------------------
(***************************************************************************)
(* Sector I/O between the guest and the VMM: the guest's driver            *)
(* (do_request), the devices (process_queue) and the thread that serves    *)
(* them.  Every device has a queue of its own, but all of them use one     *)
(* header, data buffer and status byte in guest memory, and the guest      *)
(* gives up waiting after a while: what it left behind is still served.    *)
(***************************************************************************)
EXTENDS Integers

CONSTANTS Device,
          Sectors,      \* capacity of each device
          Value,        \* what the guest may write
          ReadOnly,     \* devices opened read-only
          QueueSize,    \* entries of a ring; three descriptors per request
          IdxMod,       \* modulus of the u16 ring indices
          Starts,       \* ring indices a behaviour may start from
          Modes,        \* how the operation treats a failed request
          Faulty,       \* modes in which backing files fail
          Slow,         \* the device may outlast the guest's patience
          MaxReq,       \* bound: requests
          MaxErrs       \* bound: failures of the backing files

Sector == 0..(Sectors - 1)
Chains == QueueSize \div 3
\* Every sector starts with contents of its own.
Content == (Device \X Sector) \cup ({"new"} \X Value)

ASSUME VirtioAssumption ==
    /\ Device # {} /\ Sectors \in Nat \ {0} /\ MaxReq \in Nat /\ MaxErrs \in Nat
    /\ QueueSize \in Nat /\ QueueSize >= 3
    /\ IdxMod \in Nat /\ IdxMod >= QueueSize /\ IdxMod % QueueSize = 0
    /\ Starts \subseteq 0..(IdxMod - 1) /\ ReadOnly \subseteq Device
    /\ Modes \subseteq {"stops", "scans"} /\ Faulty \subseteq Modes /\ Slow \in BOOLEAN

VARIABLES
    gpc, req, res,              \* the guest: where it is, its request, its answer
    dma,                        \* header, data and status: one for all devices
    avail, ring, desc, used,    \* queues in guest memory; desc: data is writable
    lastAvail, intr,            \* device state
    file, synced,               \* backing files, and what is durable of them
    event,                      \* eventfds that are signalled
    io,                         \* what serves the queues
    threaded,                   \* an I/O thread, or the vCPU loop itself
    mode,
    asked, nreq, errs           \* ghosts: values written to a sector; bounds

queue == <<avail, ring, desc>>
setup == <<threaded, mode>>
ghosts == <<asked, nreq>>
guestVars == <<gpc, req, res, queue, ghosts>>
disk == <<file, synced, errs>>
hostVars == <<used, lastAvail, intr, disk, event, io>>
vars == <<guestVars, dma, hostVars, setup>>

NoReq == [dev |-> CHOOSE d \in Device : TRUE, type |-> "in", sector |-> 0,
          data |-> CHOOSE c \in Content : TRUE]
Idle == [pc |-> "idle", dev |-> NoReq.dev, at |-> 0, end |-> 0, slot |-> 0,
         type |-> "in", sector |-> 0, status |-> "unset"]

\* Past requests have left equal indices, wherever in the ring they are.
Init ==
    /\ gpc = "idle" /\ req = NoReq /\ res = [ok |-> FALSE, data |-> NoReq.data]
    /\ dma = [type |-> "in", sector |-> 0, data |-> NoReq.data, status |-> "unset"]
    /\ \E s \in Starts : /\ avail = [d \in Device |-> s]
                         /\ used = avail /\ lastAvail = avail
    /\ ring = [d \in Device |-> [i \in 0..(QueueSize - 1) |-> 0]]
    /\ desc = [d \in Device |-> [i \in 0..(Chains - 1) |-> TRUE]]
    /\ intr = [d \in Device |-> FALSE] /\ event = [d \in Device |-> FALSE]
    /\ file = [d \in Device |-> [s \in Sector |-> <<d, s>>]]
    /\ synced = file /\ io = Idle
    /\ threaded \in BOOLEAN /\ mode \in Modes
    /\ asked = [d \in Device |-> [s \in Sector |-> {file[d][s]}]]
    /\ nreq = 0 /\ errs = 0

-----------------------------------------------------------------------------
(* do_request. *)

\* A scan only reads, from the first input (device index 0).
Allowed(r) == mode = "scans" => r.type = "in" /\ r.dev = NoReq.dev

WriteHeader ==
    /\ gpc = "idle" /\ nreq < MaxReq
    /\ \E r \in [dev : Device, type : {"in", "out", "flush"},
                 sector : 0..Sectors, data : {"new"} \X Value] :
          /\ Allowed(r)
          /\ r.type = "flush" => r.sector = 0
          /\ req' = r
          /\ dma' = [dma EXCEPT !.type = r.type, !.sector = r.sector]
          /\ asked' = IF r.type = "out" /\ r.sector \in Sector
                      THEN [asked EXCEPT ![r.dev][r.sector] = @ \cup {r.data}]
                      ELSE asked
    /\ gpc' = "data" /\ nreq' = nreq + 1
    /\ UNCHANGED <<res, queue, hostVars, setup>>

WriteData ==
    /\ gpc = "data"
    /\ dma' = IF req.type = "out" THEN [dma EXCEPT !.data = req.data] ELSE dma
    /\ gpc' = "arm"
    /\ UNCHANGED <<req, res, queue, ghosts, hostVars, setup>>

ArmStatus ==
    /\ gpc = "arm"
    /\ dma' = [dma EXCEPT !.status = "unset"]
    /\ gpc' = "publish"
    /\ UNCHANGED <<req, res, queue, ghosts, hostVars, setup>>

Slot(i) == i % Chains
Publish ==
    /\ gpc = "publish"
    /\ LET d == req.dev
           i == avail[d]
       IN /\ desc' = [desc EXCEPT ![d][Slot(i)] = (req.type = "in")]
          /\ ring' = [ring EXCEPT ![d][i % QueueSize] = Slot(i)]
          /\ avail' = [avail EXCEPT ![d] = (i + 1) % IdxMod]
    /\ gpc' = "notify"
    /\ UNCHANGED <<req, res, dma, ghosts, hostVars, setup>>

\* QUEUE_NOTIFY signals the eventfd; without one the vCPU loop serves the queue
\* before the guest goes on.
Notify ==
    /\ gpc = "notify"
    /\ IF threaded THEN event' = [event EXCEPT ![req.dev] = TRUE] /\ io' = io
                   ELSE /\ io' = [Idle EXCEPT !.pc = "start", !.dev = req.dev]
                        /\ event' = event
    /\ gpc' = "wait"
    /\ UNCHANGED <<req, res, dma, queue, ghosts, used, lastAvail, intr, disk, setup>>

\* The vCPU runs.
Runs == threaded \/ io.pc = "idle"

SeesUsed(d) == used[d] = avail[d]
Poll ==
    /\ gpc = "wait" /\ Runs
    /\ SeesUsed(req.dev)
    /\ gpc' = "ack"
    /\ UNCHANGED <<req, res, dma, queue, ghosts, hostVars, setup>>

\* Mutant of Timeout: the guest waits for as long as it takes.
TimeoutNever ==
    /\ FALSE
    /\ UNCHANGED vars
\* Nothing will serve the request any more.
Dropped == io.pc = "idle" /\ ~event[req.dev]
Timeout ==
    /\ gpc = "wait" /\ Runs
    /\ ~SeesUsed(req.dev)
    /\ Slow \/ Dropped
    /\ res' = [res EXCEPT !.ok = FALSE]
    /\ gpc' = "done"
    /\ UNCHANGED <<req, dma, queue, ghosts, hostVars, setup>>

\* An MMIO access takes the device's lock.
Locked(d) == io.dev = d /\ io.pc \in {"next", "exec", "status", "used"}
Ack ==
    /\ gpc = "ack" /\ ~Locked(req.dev)
    /\ intr' = [intr EXCEPT ![req.dev] = FALSE]
    /\ gpc' = "collect"
    /\ UNCHANGED <<req, res, dma, queue, ghosts, used, lastAvail, disk, event, io,
                   setup>>

Collect ==
    /\ gpc = "collect"
    /\ res' = [ok |-> dma.status = "ok",
               data |-> IF req.type = "in" /\ dma.status = "ok"
                        THEN dma.data ELSE res.data]
    /\ gpc' = "done"
    /\ UNCHANGED <<req, dma, queue, ghosts, hostVars, setup>>

\* Mutant of Continue: no operation looks at the outcome.
ContinueAlways ==
    /\ gpc = "done"
    /\ gpc' = "idle"
    /\ UNCHANGED <<req, res, dma, queue, ghosts, hostVars, setup>>
\* The operation goes on; after a failure most halt, a scan does not.
Continue ==
    /\ gpc = "done" /\ (res.ok \/ mode = "scans")
    /\ gpc' = "idle"
    /\ UNCHANGED <<req, res, dma, queue, ghosts, hostVars, setup>>
Halt ==
    /\ gpc \in {"idle", "done"}
    /\ gpc' = "halted"
    /\ UNCHANGED <<req, res, dma, queue, ghosts, hostVars, setup>>

-----------------------------------------------------------------------------
(* io_loop and process_queue. *)

Consume(d) ==
    /\ io.pc = "idle" /\ event[d]
    /\ event' = [event EXCEPT ![d] = FALSE]
    /\ io' = [Idle EXCEPT !.pc = "start", !.dev = d]
    /\ UNCHANGED <<guestVars, dma, used, lastAvail, intr, disk, setup>>

StartQueue ==
    /\ io.pc = "start"
    /\ io' = [io EXCEPT !.pc = "next", !.at = lastAvail[io.dev],
                        !.end = avail[io.dev]]
    /\ UNCHANGED <<guestVars, dma, used, lastAvail, intr, disk, event, setup>>

FetchRequest ==
    /\ io.pc = "next" /\ io.at # io.end
    /\ io' = [io EXCEPT !.pc = "exec",
                        !.slot = ring[io.dev][io.at % QueueSize],
                        !.type = dma.type, !.sector = dma.sector]
    /\ UNCHANGED <<guestVars, dma, used, lastAvail, intr, disk, event, setup>>

Writable == desc[io.dev][io.slot]
\* process_request and validate_io_request reject, without an error.
Rejects ==
    \/ io.type = "in" /\ (~Writable \/ io.sector >= Sectors)
    \/ io.type = "out" /\ (io.dev \in ReadOnly \/ Writable \/ io.sector >= Sectors)

Reject ==
    /\ io.pc = "exec" /\ Rejects
    /\ io' = [io EXCEPT !.pc = "status", !.status = "ioerr"]
    /\ UNCHANGED <<guestVars, dma, used, lastAvail, intr, disk, event, setup>>

Served(status) == io' = [io EXCEPT !.pc = "status", !.status = status]
DoRead ==
    /\ io.pc = "exec" /\ io.type = "in" /\ ~Rejects
    /\ dma' = [dma EXCEPT !.data = file[io.dev][io.sector]]
    /\ Served("ok")
    /\ UNCHANGED <<guestVars, used, lastAvail, intr, disk, event, setup>>

DoWrite ==
    /\ io.pc = "exec" /\ io.type = "out" /\ ~Rejects
    /\ file' = [file EXCEPT ![io.dev][io.sector] = dma.data]
    /\ Served("ok")
    /\ UNCHANGED <<guestVars, dma, used, lastAvail, intr, synced, errs, event, setup>>

DoSync ==
    /\ io.pc = "exec" /\ io.type = "flush"
    /\ synced' = [synced EXCEPT ![io.dev] = file[io.dev]]
    /\ Served("ok")
    /\ UNCHANGED <<guestVars, dma, used, lastAvail, intr, file, errs, event, setup>>

\* An error of the backing file ends process_queue before lastAvail is saved;
\* the thread ignores it, the vCPU loop ends the run.
BackingFails ==
    /\ io.pc = "exec" /\ ~Rejects
    /\ mode \in Faulty /\ errs < MaxErrs
    /\ errs' = errs + 1
    /\ \/ UNCHANGED file
       \/ io.type = "out" /\ file' = [file EXCEPT ![io.dev][io.sector] = dma.data]
    /\ io' = Idle
    /\ gpc' = IF threaded THEN gpc ELSE "halted"
    /\ UNCHANGED <<req, res, queue, ghosts, dma, used, lastAvail, intr, synced,
                   event, setup>>

WriteStatus ==
    /\ io.pc = "status"
    /\ dma' = [dma EXCEPT !.status = io.status]
    /\ io' = [io EXCEPT !.pc = "used"]
    /\ UNCHANGED <<guestVars, used, lastAvail, intr, disk, event, setup>>

PushUsed ==
    /\ io.pc = "used"
    /\ used' = [used EXCEPT ![io.dev] = (@ + 1) % IdxMod]
    /\ io' = [io EXCEPT !.pc = "next", !.at = (@ + 1) % IdxMod]
    /\ UNCHANGED <<guestVars, dma, lastAvail, intr, disk, event, setup>>

\* Mutant of EndQueue: the event is cleared once the queue has been served.
EndQueueClears ==
    /\ io.pc = "next" /\ io.at = io.end
    /\ lastAvail' = [lastAvail EXCEPT ![io.dev] = io.at]
    /\ intr' = [intr EXCEPT ![io.dev] = TRUE]
    /\ event' = [event EXCEPT ![io.dev] = FALSE]
    /\ io' = Idle
    /\ UNCHANGED <<guestVars, dma, used, disk, setup>>
EndQueue ==
    /\ io.pc = "next" /\ io.at = io.end
    /\ lastAvail' = [lastAvail EXCEPT ![io.dev] = io.at]
    /\ intr' = [intr EXCEPT ![io.dev] = TRUE]
    /\ io' = Idle
    /\ UNCHANGED <<guestVars, dma, used, disk, event, setup>>

\* IoThread::stop after the guest has halted: pending events are dropped.
Join ==
    /\ gpc = "halted" /\ io.pc = "idle"
    /\ io' = [io EXCEPT !.pc = "joined"]
    /\ UNCHANGED <<guestVars, dma, used, lastAvail, intr, disk, event, setup>>

Request == WriteHeader \/ WriteData \/ ArmStatus \/ Publish \/ Notify
           \/ Poll \/ Timeout \/ Ack \/ Collect
Serve == (\E d \in Device : Consume(d)) \/ StartQueue \/ FetchRequest \/ Reject
         \/ DoRead \/ DoWrite \/ DoSync \/ WriteStatus \/ PushUsed \/ EndQueue
Next == Request \/ Continue \/ Halt \/ Serve \/ BackingFails \/ Join

Spec == Init /\ [][Next]_vars

\* The vCPU and the thread keep running; the guest's wait is bounded.
FairSpec == Spec /\ WF_vars(WriteData \/ ArmStatus \/ Publish \/ Notify
                            \/ Poll \/ Timeout \/ Ack \/ Collect)
                 /\ WF_vars(Serve \/ Join)
-----------------------------------------------------------------------------

\* A request that do_request reports as successful has been done: the data is
\* what the file holds, the file holds the data, or the file is durable.  The
\* answer is the answer to this request, whatever earlier requests the guest
\* has given up on; and though those are served late, out of the one buffer
\* all devices share, a sector only ever holds what it held at first or what
\* the guest asked to have written there.
Honest ==
    /\ gpc = "done" /\ res.ok =>
         /\ req.type = "in"    => res.data = file[req.dev][req.sector]
         /\ req.type = "out"   => file[req.dev][req.sector] = req.data
         /\ req.type = "flush" => synced[req.dev] = file[req.dev]
    /\ \A d \in Device : \A s \in Sector : file[d][s] \in asked[d][s]

\* No notification is lost: while the guest waits and nothing serves its device,
\* the answer is there, unless a backing file has failed.
NoLostRequest ==
    gpc = "wait" /\ Runs /\ Dropped /\ errs = 0 => SeesUsed(req.dev)

\* Every request ends, with an answer or a timeout.
Answered == (gpc = "data") ~> (gpc \in {"done", "halted"})
=============================================================================
