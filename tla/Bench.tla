------------------------------- MODULE Bench -------------------------------
(***************************************************************************)
(* instar bench: the host checks the parameters, the guest gates the       *)
(* image, and requests of one size are then sent along a schedule that     *)
(* wraps at the end of the image.  A qcow2 write test first bounds what    *)
(* the whole schedule can allocate and has the refcount structures grown   *)
(* for it (GrowthExec); its allocations then come out of what was grown.   *)
(* The other users of the growth code bring a bound of their own.          *)
(***************************************************************************)
EXTENDS GrowthExec

CONSTANTS
    Jobs,          \* the invocations
    ClusterBytes,  \* cluster_size
    EntryBytes,    \* bytes of an L2 entry
    SectorBytes,   \* the device's sector size
    ArgMax,        \* QEMU_BENCH_ARG_MAX
    BufMax,        \* BENCH_MAX_BUFSIZE
    Families       \* formats with a read_family

(***************************************************************************)
(* A job is a record: the parameters n (count), depth, bufsize, step,      *)
(* offset, write, interval; the image's size, the format the host claims   *)
(* (claim) and the guest sees in sector 0 (probe), whether it has a        *)
(* backing file, and the clusters it has mapped.  other stands for another *)
(* caller of the growth code.                                              *)
(***************************************************************************)
Job == [other : BOOLEAN, n : Nat, depth : Nat, bufsize : Nat, step : Nat,
        offset : Nat, write : BOOLEAN, interval : Nat, size : Nat,
        claim : STRING, probe : STRING, backed : BOOLEAN, mapped : SUBSET Nat]
ASSUME BenchAssumption ==
    /\ Jobs \subseteq Job
    /\ ClusterBytes \in Nat \ {0} /\ SectorBytes \in Nat \ {0}
    /\ EntryBytes \in 1..ClusterBytes

VARIABLES
    job,
    bphase,     \* "args", "setup", "run", "flush", or how the run ended
    next,       \* OffsetSchedule.next
    pos,        \* voff: how far the current request has got
    completed, flushes,
    data, tables, \* clusters and L2 tables the image owns
    taken, scan,  \* clusters the run allocated, and the allocator's cursor
    moved,      \* bytes of the image that requests read or wrote
    synced      \* those an fsync has followed

place == <<data, tables, taken, scan>>
benchVars == <<job, bphase, next, pos, completed, flushes, place, moved, synced>>
allVars == <<vars, benchVars>>

EffectiveStep(j) == IF j.step = 0 THEN j.bufsize ELSE j.step
\* Each option alone, then the rules of BenchParams::validate.
InRange(j) ==
    /\ j.n \in 1..ArgMax /\ j.depth \in 1..ArgMax
    /\ j.bufsize \in 1..ArgMax /\ j.bufsize <= BufMax
    /\ j.step \in 0..ArgMax
    /\ j.interval \in 0..ArgMax
Valid(j) == InRange(j) /\ (j.interval # 0 => j.write /\ j.interval >= j.depth)

\* The offset after cur: wrapped so that a whole request still fits.
NextOffset(j, cur) ==
    IF j.size <= j.bufsize THEN 0
    ELSE (cur + EffectiveStep(j)) % (j.size - j.bufsize)
FlushAfter(j, k) ==
    j.interval # 0 /\ k \in 1..j.n /\ (j.n - k) % j.interval = 0
TotalFlushes(j) ==
    IF j.interval = 0 \/ j.n = 0 THEN 0 ELSE (j.n - 1) \div j.interval + 1

Least(a, b) == IF a <= b THEN a ELSE b
UnitsSpanned(from, to, unit) ==
    IF unit = 0 \/ to <= from THEN 0 ELSE (to - 1) \div unit - from \div unit + 1
Coverage == ClusterBytes * (ClusterBytes \div EntryBytes)
LastEnd(j) == j.offset + (j.n - 1) * EffectiveStep(j) + j.bufsize
\* Mutant of Touched: a schedule that ends on the wrap is taken not to wrap.
TouchedLax(j, unit) ==
    LET straddled == j.n * (j.bufsize \div unit + 2)
        spanned == IF j.n = 1 \/ LastEnd(j) <= j.size
                   THEN Least(straddled, UnitsSpanned(j.offset, LastEnd(j), unit))
                   ELSE straddled
    IN Least(spanned, CeilDiv(j.size, unit))
\* Units of one size the schedule can touch: the least of what its requests
\* can straddle, what they span if none wraps, and what the image has.
Touched(j, unit) ==
    LET straddled == j.n * (j.bufsize \div unit + 2)
        spanned == IF j.n = 1 \/ LastEnd(j) < j.size
                   THEN Least(straddled, UnitsSpanned(j.offset, LastEnd(j), unit))
                   ELSE straddled
    IN Least(spanned, CeilDiv(j.size, unit))
WorstCase(j) ==
    IF j.size = 0 THEN 0 ELSE Touched(j, ClusterBytes) + Touched(j, Coverage)

Allocating(j) == j.write /\ j.claim = "qcow2"
TableOf(c) == (c * ClusterBytes) \div Coverage

BenchInit ==
    /\ job \in Jobs
    /\ Init
    /\ ~job.other => in.worst = WorstCase(job)
    /\ bphase = IF job.other THEN "other" ELSE "args"
    /\ next = job.offset /\ pos = job.offset
    /\ completed = 0 /\ flushes = 0
    /\ data = job.mapped
    /\ tables = {TableOf(c) : c \in job.mapped}
    /\ taken = {} /\ scan = 0
    /\ moved = {} /\ synced = {}

\* fail: a result with the error, and the run is over.
Ends(how) == bphase' = how

\* validate_bench_args and run_bench, before the guest is started.
RefusesArgs ==
    /\ bphase = "args"
    /\ ~Valid(job) \/ (job.write /\ job.claim \notin {"raw", "qcow2"})
    /\ Ends("refused")
    /\ UNCHANGED <<vars, job, next, pos, completed, flushes, place, moved, synced>>

\* The guest's own look at sector 0 must bear the claim out, but for an image
\* whose magic is elsewhere.  A qcow2 write test then parses the header.
Corroborated(j) ==
    /\ {j.claim, j.probe} \subseteq Families
    /\ j.probe \in {j.claim, "raw"}
    /\ Allocating(j) => j.probe = "qcow2"
Admitted ==
    /\ bphase = "args" /\ Valid(job)
    /\ job.write => job.claim \in {"raw", "qcow2"}
    /\ bphase' = IF ~Corroborated(job) THEN "refused"
                 ELSE IF Allocating(job) THEN "setup" ELSE "run"
    /\ UNCHANGED <<vars, job, next, pos, completed, flushes, place, moved, synced>>
\* The header or the chain cannot be read, or a write gate refuses.
NotAdmitted ==
    /\ bphase \in {"args", "setup"} /\ pc = "plan" /\ Valid(job)
    /\ Ends("refused")
    /\ UNCHANGED <<vars, job, next, pos, completed, flushes, place, moved, synced>>

Growing ==
    /\ bphase \in {"other", "setup"} /\ Next
    /\ UNCHANGED benchVars
Grown ==
    /\ bphase = "setup"
    /\ \/ pc = "done" /\ bphase' = "run"
       \/ pc \in {"refused", "failed"} /\ Ends("refused")
    /\ UNCHANGED <<vars, job, next, pos, completed, flushes, place, moved, synced>>

Sending == bphase = "run" /\ completed < job.n
ReqEnd == next + job.bufsize
Overrun ==
    /\ Sending /\ pos = next /\ ReqEnd > job.size
    /\ Ends("overrun")
    /\ UNCHANGED <<vars, job, next, pos, completed, flushes, place, moved, synced>>

\* A raw write goes sector by sector, a qcow2 write cluster by cluster, a
\* read in one call.
PieceEnd ==
    CASE Allocating(job) -> Least(ReqEnd, (pos \div ClusterBytes + 1) * ClusterBytes)
      [] job.write /\ ~Allocating(job) ->
            Least(ReqEnd, (pos \div SectorBytes + 1) * SectorBytes)
      [] ~job.write -> ReqEnd
InPlace == Sending /\ ReqEnd <= job.size /\ pos < ReqEnd /\ ~Allocating(job)
\* The file's last sector may lie partly past its end, where the backing store
\* takes no write.
PastFile == job.write /\ (pos \div SectorBytes + 1) * SectorBytes > job.size
Moves ==
    /\ InPlace /\ ~PastFile
    /\ moved' = moved \cup pos .. (PieceEnd - 1)
    /\ pos' = PieceEnd
    /\ UNCHANGED <<vars, job, bphase, next, completed, flushes, place, synced>>
MoveFails ==
    /\ InPlace
    /\ Ends("failed")
    /\ UNCHANGED <<vars, job, next, pos, completed, flushes, place, moved, synced>>

\* The write engine's allocator, over the staged refcounts: first fit from a
\* cursor that never goes back.
Unused(from, held) ==
    {c \in from .. (count * EPB - 1) : rc[c] = 0 /\ c \notin held}
\* Takes n clusters, one by one.
Takes(n, S) ==
    LET got == {c \in S : Cardinality({d \in S : d <= c}) <= n}
    IN /\ taken' = taken \cup got
       /\ scan' = IF got = {} THEN scan ELSE 1 + MaxOf(got)

Here == pos \div ClusterBytes
NewTable == IF TableOf(Here) \in tables THEN 0 ELSE 1
NewData == IF Here \in data THEN 0 ELSE 1
Window == Sending /\ ReqEnd <= job.size /\ pos < ReqEnd /\ Allocating(job)
\* plan_write and its windows.  A part of an unmapped cluster of a backed
\* image is refused once, after the table is there, and sent again whole.
\* With no cluster left the image refuses the write.
WritesWindow ==
    LET enough == Cardinality(Unused(scan, taken)) >= NewTable + NewData IN
    /\ Window
    /\ Takes(NewTable + NewData, Unused(scan, taken))
    /\ tables' = IF enough THEN tables \cup {TableOf(Here)} ELSE tables
    /\ data' = IF enough THEN data \cup {Here} ELSE data
    /\ moved' = IF enough THEN moved \cup pos .. (PieceEnd - 1) ELSE moved
    /\ pos' = IF enough THEN PieceEnd ELSE pos
    /\ bphase' = IF enough THEN bphase ELSE "exhausted"
    /\ UNCHANGED <<vars, job, next, completed, flushes, synced>>
FillFails ==
    /\ Window /\ job.backed /\ NewData = 1
    /\ PieceEnd - pos < Least(ClusterBytes, job.size - Here * ClusterBytes)
    /\ Takes(NewTable, Unused(scan, taken))
    /\ tables' = tables \cup {TableOf(Here)}
    /\ Ends("failed")
    /\ UNCHANGED <<vars, job, next, pos, completed, flushes, data, moved, synced>>
WindowFails ==
    /\ Window
    /\ Ends("failed")
    /\ UNCHANGED <<vars, job, next, pos, completed, flushes, place, moved, synced>>

\* A request is complete; the schedule says whether a flush follows.
Completes ==
    /\ Sending /\ ReqEnd <= job.size /\ pos = ReqEnd
    /\ completed' = completed + 1
    /\ next' = NextOffset(job, next) /\ pos' = next'
    /\ bphase' = IF job.write /\ FlushAfter(job, completed') THEN "flush" ELSE "run"
    /\ UNCHANGED <<vars, job, flushes, place, moved, synced>>
\* plan_flush for a qcow2 image, then the one fsync.
Flushes ==
    /\ bphase = "flush"
    /\ \/ /\ bphase' = "run" /\ flushes' = flushes + 1 /\ synced' = moved
       \/ /\ Ends("failed") /\ UNCHANGED <<flushes, synced>>
    /\ UNCHANGED <<vars, job, next, pos, completed, place, moved>>
\* The last epoch of a qcow2 write test, with no fsync, and the result.
Finishes ==
    /\ bphase = "run" /\ completed = job.n
    /\ \/ Ends("done")
       \/ Allocating(job) /\ Ends("failed")
    /\ UNCHANGED <<vars, job, next, pos, completed, flushes, place, moved, synced>>

Over ==
    /\ bphase \in {"refused", "overrun", "failed", "exhausted", "done"}
    /\ UNCHANGED allVars

BenchNext ==
    \/ RefusesArgs \/ Admitted \/ NotAdmitted \/ Growing \/ Grown
    \/ Overrun \/ Moves \/ MoveFails \/ WritesWindow \/ FillFails \/ WindowFails
    \/ Completes \/ Flushes \/ Finishes \/ Over

BenchSpec == BenchInit /\ [][BenchNext]_allVars

-----------------------------------------------------------------------------
\* Where request k, from 0, is to go: the first as asked, the others round
\* the part of the image in which a whole request fits.
Asked(k) == IF k = 0 THEN job.offset
            ELSE IF job.size <= job.bufsize THEN 0
            ELSE (job.offset + k * EffectiveStep(job)) % (job.size - job.bufsize)

\* Only the first request, which goes where it was asked to, can leave the
\* image: next_offset wraps every later one onto a place where it fits.
LaterFit == bphase = "overrun" => completed = 0

\* A bench that was let in does what it announced: whatever the schedule
\* wraps onto, the refcounts grown beforehand are enough and no request past
\* the first leaves the image; a run that reports success has moved exactly
\* the bytes of its requests, has flushed as often as qemu-img would, and,
\* if it flushes at all, has left nothing behind the last fsync.
BenchProvided ==
    /\ bphase # "exhausted"
    /\ LaterFit
    /\ bphase = "done" =>
         /\ moved = UNION {Asked(k) .. (Asked(k) + job.bufsize - 1) : k \in 0 .. (job.n - 1)}
         /\ flushes = TotalFlushes(job)
         /\ job.interval # 0 => synced = moved
============================================================================
