------------------------------- MODULE Resize -------------------------------
(***************************************************************************)
(* instar resize on a qcow2 image: the planner that sizes the L1 table and *)
(* the refcount structures for the new virtual size, the ordered patches   *)
(* it emits (prepare, header, cleanup), the guest that applies them sector *)
(* by sector with no barrier between them, and the host's post-pass over   *)
(* the appended part of the file.                                          *)
(*                                                                         *)
(* Sizes are in sectors.  A cluster holds E table entries (8 bytes each);  *)
(* refcounts are 64 bits wide, so a refcount block holds E of them too.    *)
(* An image is a record:                                                   *)
(*   hdr  size, the L1 table (l1, l1n), the refcount table (rt, rtN), the  *)
(*        names of the internal snapshots                                  *)
(*   cl   the contents of every cluster, entry by entry                    *)
(*   eof  the file's length, in clusters, rounded up                       *)
(* COPIED flags move with the entries that carry them and are left out.    *)
(* Images the gates refuse (dirty, corrupt, with bitmaps, an external data *)
(* file or a backing file) are not modified and are not modelled.          *)
(***************************************************************************)
EXTENDS Naturals, Sequences, FiniteSets, FiniteSetsExt, SequencesExt

CONSTANTS
    E,         \* 8-byte entries in a cluster
    CS,        \* sectors in a cluster; divides E
    N,         \* bound: clusters of the device
    Images,    \* the images the first invocation may find
    Sizes,     \* the virtual sizes asked for
    Modes,     \* the --preallocation modes asked for
    Limits,    \* the fixed arrays: required, overlap, cleanup, discard
    MaxOps,    \* bound on the number of invocations
    MaxFaults  \* bound on the number of interruptions

VARIABLES
    img,     \* the image
    todo,    \* the writes the running invocation has left
    job,     \* the last invocation: its request, the image it found, its end
    ops,     \* invocations so far
    faults   \* interruptions so far

vars == <<img, todo, job, ops, faults>>

Cluster == 0..(N - 1)
Entry == 0..(E - 1)
CeilDiv(a, b) == (a + b - 1) \div b
Larger(a, b) == IF a > b THEN a ELSE b
Smaller(a, b) == IF a < b THEN a ELSE b
Run(first, n) == [k \in 1..n |-> first + k - 1]

(***************************************************************************)
(* Reading the image: an entry of a table of several clusters, a refcount, *)
(* a guest cluster.                                                        *)
(***************************************************************************)
At(im, c, x) == IF c \in Cluster THEN im.cl[c][x] ELSE 0
TableAt(im, start, k) == At(im, start + k \div E, k % E)
RtEntry(im, k) == IF k < im.hdr.rtN * E THEN TableAt(im, im.hdr.rt, k) ELSE 0
L1Entry(im, i) == IF i < im.hdr.l1n THEN TableAt(im, im.hdr.l1, i) ELSE 0

Rc(im, c) ==
    LET b == RtEntry(im, c \div E) IN IF b = 0 THEN 0 ELSE At(im, b, c % E)

\* An L2 entry whose zero flag is set with no cluster behind it: reads as
\* zero, and the planner's offset mask finds host offset 0 in it.
ZeroFlag == N
Host(e) == IF e = ZeroFlag THEN 0 ELSE e

Guest(size) == 0..(CeilDiv(size, CS) - 1)
DataCluster(im, g) ==
    LET t == L1Entry(im, g \div E) IN IF t = 0 THEN 0 ELSE At(im, t, g % E)
Read(im, g) ==
    LET d == Host(DataCluster(im, g)) IN IF d = 0 THEN 0 ELSE At(im, d, 0)

(***************************************************************************)
(* compute_layout: the sizes of a fresh, compact image.                    *)
(***************************************************************************)
L1Need(size) == CeilDiv(size, CS * E)
L1Clusters(n) == Larger(1, CeilDiv(n, E))
FixedPointRounds == 16

\* extra: the L2 tables and data clusters that a preallocated image has.
LayoutWith(size, extra) ==
    LET l1n == L1Need(size)
        step(p) == LET b == CeilDiv(1 + L1Clusters(l1n) + extra + p.table + p.blocks, E)
                   IN  [blocks |-> b, table |-> CeilDiv(b, E)]
        it[k \in 0..FixedPointRounds] ==
            IF k = 0 THEN [blocks |-> 1, table |-> 1] ELSE step(it[k - 1])
        last == it[FixedPointRounds]
    IN  [l1n |-> l1n, blocks |-> last.blocks, table |-> last.table]
Layout(size) == LayoutWith(size, 0)

(***************************************************************************)
(* compute_append_requirements: the blocks and table clusters that count a *)
(* file to which the new L1 table, and they themselves, are appended.      *)
(***************************************************************************)
Have(im) == Cardinality({k \in 0..(im.hdr.rtN * E - 1) : RtEntry(im, k) # 0})

Requirements(eof, l1c, rtN, have) ==
    LET least == Larger(1, have)
        table(b) == Larger(CeilDiv(b, E), Larger(1, rtN))
        need(b) == Larger(least, CeilDiv(eof + l1c + (b - have)
                                   + (IF table(b) > Larger(1, rtN) THEN table(b) ELSE 0), E))
        \* the loop climbs from below to the first fixed point
        blocks == CHOOSE b \in least..N :
                     need(b) = b /\ \A a \in least..(b - 1) : need(a) # a
    IN  [blocks |-> blocks, table |-> table(blocks)]

(***************************************************************************)
(* plan_grow's classification of a grow request.                           *)
(***************************************************************************)
Decide(im, size) ==
    LET action(sized, l1Grows) ==
            IF sized.blocks > Have(im) \/ sized.table > im.hdr.rtN THEN "full"
            ELSE IF l1Grows THEN "l1" ELSE "header"
        sizes(fresh) ==
            IF fresh.l1n > im.hdr.l1n
            THEN action(Requirements(im.eof, L1Clusters(fresh.l1n), im.hdr.rtN, Have(im)), TRUE)
            ELSE action(fresh, FALSE)
    IN  sizes(Layout(size))

OldL1(im) == Run(im.hdr.l1, L1Clusters(im.hdr.l1n))
OldRt(im) == Run(im.hdr.rt, im.hdr.rtN)

\* The geometry plan_l1_and_refcount_grow appends at the end of the file.
Full(im, size) ==
    LET placed(l1c, have, need, moves) ==
            LET rtAt == im.eof + l1c
                blAt == rtAt + (IF moves THEN need.table ELSE 0)
                delta == IF need.blocks > have THEN need.blocks - have ELSE 0
                total == blAt + delta
                last == Smaller(have * E, total)
            IN  [l1c |-> l1c, have |-> have, table |-> need.table, moves |-> moves,
                 rtAt |-> rtAt, blAt |-> blAt, delta |-> delta, total |-> total,
                 overlap |-> Run(im.eof, IF last > im.eof THEN last - im.eof ELSE 0),
                 cleanup |-> IF moves THEN OldL1(im) \o OldRt(im) ELSE OldL1(im)]
        sized(l1c, have, need) == placed(l1c, have, need, need.table > im.hdr.rtN)
        from(l1c, have) == sized(l1c, have, Requirements(im.eof, l1c, im.hdr.rtN, have))
    IN  from(L1Clusters(Layout(size).l1n), Have(im))

Total(im, size, action) ==
    CASE action = "header" -> im.eof
      [] action = "l1" -> im.eof + L1Clusters(Layout(size).l1n)
      [] action = "full" -> Full(im, size).total

(***************************************************************************)
(* The refcount blocks that count a sequence of clusters, in the order in  *)
(* which the planner first touches them.                                   *)
(***************************************************************************)
BlocksOf(w) ==
    FlattenSeq([k \in 1..Len(w) |->
        IF \A j \in 1..(k - 1) : w[j] \div E # w[k] \div E
        THEN <<w[k] \div E>> ELSE <<>>])

\* compute_grow_query: the blocks the guest stages before it plans.
Required(im, size, action) ==
    LET touched(f) == BlocksOf(f.overlap \o f.cleanup)
    IN  CASE action = "header" -> <<>>
          [] action = "l1" ->
               BlocksOf(Run(im.eof, L1Clusters(Layout(size).l1n)) \o OldL1(im))
          [] action = "full" -> touched(Full(im, size))

(***************************************************************************)
(* The writes of a patch, a sector at a time.                              *)
(***************************************************************************)
Sectors(c, content) ==
    [s \in 1..CS |-> [op |-> "cl", c |-> c, s |-> s - 1, content |-> content]]
Region(start, clusters) ==
    FlattenSeq([k \in 1..Len(clusters) |-> Sectors(start + k - 1, clusters[k])])

\* build_header writes the whole header anew: it names no snapshots.
Header(h) == <<[op |-> "hdr", hdr |-> [h EXCEPT !.snaps = {}]]>>

\* Blocks bs of the image with 1 for the clusters in `ones`, 0 for `zeros`.
BlockWrites(im, bs, ones, zeros) ==
    FlattenSeq([k \in 1..Len(bs) |->
        Sectors(RtEntry(im, bs[k]),
                [x \in Entry |->
                    LET c == bs[k] * E + x
                    IN  IF c \in zeros THEN 0 ELSE IF c \in ones THEN 1
                        ELSE At(im, RtEntry(im, bs[k]), x)])])

\* The old entries, and zeros behind them.
NewL1(im, k) ==
    [x \in Entry |-> L1Entry(im, k * E + x)]

\* plan_header_only
HeaderProg(im, size) == Header([im.hdr EXCEPT !.size = size])

\* Mutant of L1Prog: the header points to the new table before it is written.
L1ProgHeaderFirst(im, size) ==
    LET l1n == Layout(size).l1n
        new == Run(im.eof, L1Clusters(l1n))
    IN  Header([im.hdr EXCEPT !.size = size, !.l1 = im.eof, !.l1n = l1n])
          \o Region(im.eof, [k \in 1..Len(new) |-> NewL1(im, k - 1)])
          \o BlockWrites(im, BlocksOf(new \o OldL1(im)), Range(new), Range(OldL1(im)))

\* plan_l1_grow
L1Prog(im, size) ==
    LET l1n == Layout(size).l1n
        new == Run(im.eof, L1Clusters(l1n))
        old == OldL1(im)
        freed == SelectSeq(BlocksOf(new \o old), LAMBDA b : b \in Range(BlocksOf(old)))
    IN  Region(im.eof, [k \in 1..Len(new) |-> NewL1(im, k - 1)])
          \o BlockWrites(im, BlocksOf(new), Range(new), {})
          \o Header([im.hdr EXCEPT !.size = size, !.l1 = im.eof, !.l1n = l1n])
          \o BlockWrites(im, freed, Range(new), Range(old))

\* The refcount table with an entry for every appended block.
NewRt(im, f, k) ==
    [x \in Entry |->
        LET i == k * E + x
        IN  IF i \in f.have..(f.have + f.delta - 1) THEN f.blAt + (i - f.have)
            ELSE RtEntry(im, i)]

\* A new block counts every cluster of the file after the resize.
NewBlock(f, k) ==
    [x \in Entry |-> IF (f.have + k) * E + x < f.total THEN 1 ELSE 0]

\* Mutant of Cleanup: it forgets what the overlap patches counted.
CleanupUnseeded(im, f) == BlockWrites(im, BlocksOf(f.cleanup), {}, Range(f.cleanup))

\* Frees the tables left behind, in blocks that may hold overlap counts.
Cleanup(im, f) ==
    BlockWrites(im, BlocksOf(f.cleanup), Range(f.overlap), Range(f.cleanup))

\* plan_l1_and_refcount_grow
FullProg(im, size) ==
    LET patches(f) ==
          Region(im.eof, [k \in 1..f.l1c |-> NewL1(im, k - 1)])
          \o Region(f.rtAt, [k \in 1..(IF f.moves THEN f.table ELSE 0) |-> NewRt(im, f, k - 1)])
          \o Region(f.blAt, [k \in 1..f.delta |-> NewBlock(f, k - 1)])
          \o Region(im.hdr.rt, [k \in 1..(IF ~f.moves /\ f.delta > 0 THEN f.table ELSE 0) |->
                                  NewRt(im, f, k - 1)])
          \o BlockWrites(im, BlocksOf(f.overlap), Range(f.overlap), {})
          \o Header([im.hdr EXCEPT !.size = size, !.l1 = im.eof, !.l1n = Layout(size).l1n,
                        !.rt = IF f.moves THEN f.rtAt ELSE im.hdr.rt, !.rtN = f.table])
          \o Cleanup(im, f)
    IN  patches(Full(im, size))

(***************************************************************************)
(* plan_shrink: the clusters to free, in the order the planner walks them, *)
(* and the patches: straddling L2 table, L1 table, refcount blocks, header.*)
(***************************************************************************)
Rounded(size) == (size \div CS) * CS
Coverage == CS * E

\* The L1 entries in use that lie wholly above the new size.
Gone(im, size) ==
    SelectSeq([k \in 1..im.hdr.l1n |-> k - 1],
              LAMBDA i : i >= CeilDiv(size, Coverage) /\ L1Entry(im, i) # 0)

\* The L2 table that maps guest clusters on both sides of the new size.
Straddled(im, size) ==
    IF size % Coverage = 0 THEN 0 ELSE L1Entry(im, size \div Coverage)

Above(size, x) == (size \div Coverage) * Coverage + x * CS >= size

\* The clusters that the given entries of an L2 table name, in order.
Mapped(im, t, entries) ==
    LET named == SelectSeq([x \in 1..E |-> x - 1],
                           LAMBDA x : x \in entries /\ At(im, t, x) # 0)
    IN  [k \in 1..Len(named) |-> Host(At(im, t, named[k]))]

Freed(im, size) ==
    LET gone == Gone(im, size)
        table(i) == Mapped(im, L1Entry(im, i), Entry) \o <<L1Entry(im, i)>>
    IN  FlattenSeq([k \in 1..Len(gone) |-> table(gone[k])])
          \o (IF Straddled(im, size) = 0 THEN <<>>
              ELSE Mapped(im, Straddled(im, size), {x \in Entry : Above(size, x)}))

ShrinkProg(im, asked) ==
    LET size == Rounded(asked)
        gone == Range(Gone(im, size))
        t == Straddled(im, size)
    IN  (IF t = 0 THEN <<>>
         ELSE Sectors(t, [x \in Entry |-> IF Above(size, x) THEN 0 ELSE At(im, t, x)]))
          \o Region(im.hdr.l1, [k \in 1..(IF gone = {} THEN 0 ELSE L1Clusters(im.hdr.l1n)) |->
                 [x \in Entry |-> IF (k - 1) * E + x \in gone THEN 0
                                  ELSE L1Entry(im, (k - 1) * E + x)]])
          \o BlockWrites(im, BlocksOf(Freed(im, size)), {}, Range(Freed(im, size)))
          \o Header([im.hdr EXCEPT !.size = size])

(***************************************************************************)
(* What the planner refuses.                                               *)
(***************************************************************************)
InFile(im, bs) == \A b \in Range(bs) : RtEntry(im, b) # 0

GrowOK(im, size, action) ==
    LET staged(need) == Len(need) <= Limits.required /\ InFile(im, need)
        held(f) == /\ Len(BlocksOf(f.overlap)) <= Limits.overlap
                   /\ Len(BlocksOf(f.cleanup)) <= Limits.cleanup
    IN  /\ staged(Required(im, size, action))
        /\ action = "full" => held(Full(im, size))
        /\ Total(im, size, action) <= N

\* The guest stages only L2 tables that begin below the current size.
ShrinkOK(im, asked) ==
    LET size == Rounded(asked)
    IN  /\ size >= CS
        /\ \A i \in Range(Gone(im, size)) : i * Coverage < im.hdr.size
        /\ Len(BlocksOf(Freed(im, size))) <= Limits.discard
        /\ InFile(im, BlocksOf(Freed(im, size)))

(***************************************************************************)
(* Running a plan.                                                         *)
(***************************************************************************)
PerSector == E \div CS

\* No file, or one that was just truncated.
NoImage ==
    [hdr |-> [size |-> 0, l1 |-> 0, l1n |-> 0, rt |-> 0, rtN |-> 0, snaps |-> {}],
     cl |-> [c \in Cluster |-> [x \in Entry |-> 0]], eof |-> 0]

Apply(im, w) ==
    CASE w.op = "hdr" -> [im EXCEPT !.hdr = w.hdr, !.eof = Larger(@, 1)]
      [] w.op = "cl" ->
           [im EXCEPT !.cl[w.c] = [x \in Entry |->
                                     IF x \div PerSector = w.s THEN w.content[x] ELSE @[x]],
                      !.eof = Larger(@, w.c + 1)]
      \* the host's post-pass over what the guest appended
      [] w.op = "finish" ->
           [im EXCEPT !.eof = w.to,
                      !.cl = [c \in Cluster |->
                                IF w.mode = "full" /\ c \in w.from..(w.to - 1)
                                THEN [x \in Entry |-> 0] ELSE im.cl[c]]]
      \* a create that cannot go on: the host removes the file
      [] w.op = "gone" -> NoImage

Finish(mode, to) == <<[op |-> "finish", mode |-> mode, from |-> img.eof, to |-> to]>>

\* One invocation at a time, on an image that is there and was not cut short
\* while it was made.
MayStart ==
    /\ todo = <<>> /\ ops < MaxOps
    /\ img.hdr.size > 0
    /\ job.op = "create" => job.done

Start(op, size, prog) ==
    /\ ops' = ops + 1
    /\ todo' = prog
    /\ job' = [op |-> op, size |-> size, before |-> img, done |-> FALSE]
    /\ UNCHANGED <<img, faults>>

Prog(size, action) ==
    CASE action = "header" -> HeaderProg(img, size)
      [] action = "l1" -> L1Prog(img, size)
      [] action = "full" -> FullProg(img, size)

Grow(size, mode) ==
    /\ MayStart
    /\ size > img.hdr.size
    /\ \E action \in {Decide(img, size)} :
         /\ GrowOK(img, size, action)
         /\ Start("grow", size,
                  Prog(size, action) \o Finish(mode, Total(img, size, action)))

Shrink(size, mode) ==
    /\ MayStart
    /\ size < img.hdr.size
    /\ ShrinkOK(img, size)
    /\ Start("shrink", Rounded(size), ShrinkProg(img, size) \o Finish(mode, img.eof))

Write ==
    /\ todo # <<>>
    /\ img' = Apply(img, Head(todo))
    /\ todo' = Tail(todo)
    /\ job' = [job EXCEPT !.done = (Len(todo) = 1)]
    /\ UNCHANGED <<ops, faults>>

\* A write fails or the process dies: the rest of the plan is not written.
Interrupt ==
    /\ todo # <<>>
    /\ faults < MaxFaults
    /\ faults' = faults + 1
    /\ todo' = <<>>
    /\ UNCHANGED <<img, job, ops>>

Init ==
    /\ img \in Images
    /\ todo = <<>>
    /\ job = [op |-> "none", size |-> img.hdr.size, before |-> img, done |-> TRUE]
    /\ ops = 0
    /\ faults = 0

Next ==
    \/ \E size \in Sizes, mode \in Modes : Grow(size, mode) \/ Shrink(size, mode)
    \/ Write
    \/ Interrupt

Spec == Init /\ [][Next]_vars

(***************************************************************************)
(* Properties.                                                             *)
(***************************************************************************)

\* The places of the active image that refer to a cluster, with the cluster.
References(im) ==
    LET l1 == {<<<<"l1", i>>, L1Entry(im, i)>> : i \in 0..(im.hdr.l1n - 1)}
        tables == {r \in l1 : r[2] # 0}
        l2 == {<<<<"l2", r[1], x>>, Host(At(im, r[2], x))>> : r \in tables, x \in Entry}
        rt == {<<<<"rt", k>>, RtEntry(im, k)>> : k \in 0..(im.hdr.rtN * E - 1)}
        own == Range(<<0>> \o OldL1(im) \o OldRt(im))
    IN  {<<<<"own">>, c>> : c \in own} \cup {r \in l1 \cup l2 \cup rt : r[2] # 0}

\* A grow or shrink never changes what the guest reads below the smaller of
\* the two sizes, at any point of the plan and whether or not the run is cut
\* short: the header that switches tables is written between the patches
\* that prepare the new ones and those that free the old.  What a completed
\* grow adds reads as zeros, also where an earlier shrink took data away: the
\* shrink cleared the entries it freed.  So does all of a created image.
ViewKept ==
    /\ \A g \in Guest(Smaller(job.before.hdr.size, job.size)) :
          g \in Guest(img.hdr.size) => Read(img, g) = Read(job.before, g)
    /\ job.op \in {"grow", "create"} /\ job.done =>
          \A g \in Guest(img.hdr.size) \ Guest(job.before.hdr.size) : Read(img, g) = 0

\* A refcount block whose own count is in a block the table does not name:
\* a refcount table extended in place over several sectors names one before
\* the other.
Uncounted(r) == r[1][1] = "rt" /\ RtEntry(img, r[2] \div E) = 0

\* A cluster in use has as many references as its count, and so is never
\* handed out twice, at every point of every plan, cut short or not (but for
\* the blocks of a table that is being extended in place).  With
\* no interruption a completed resize leaves no leak either: the append-aware
\* sizing and the overlap and cleanup patches together count each cluster of
\* the file exactly as often as it is used; and so does a completed create,
\* preallocated or not.
Sound ==
    LET count(refs, c) == Cardinality({r \in refs : r[2] = c})
        sound(refs) ==
            /\ \A r \in refs : count(refs, r[2]) <= Rc(img, r[2]) \/ Uncounted(r)
            /\ job.done /\ faults = 0 => \A c \in Cluster : Rc(img, c) = count(refs, c)
        made == img.hdr.size > 0 /\ (job.op = "create" => job.done)
    IN  made => sound(References(img))
=============================================================================
