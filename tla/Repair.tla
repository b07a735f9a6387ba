------------------------------- MODULE Repair -------------------------------
(***************************************************************************)
(* check --repair on a qcow2 image (operations/check/src/main.rs): the     *)
(* walk over the active L1 and L2 tables that finds the referenced         *)
(* clusters, the choice of a tier, the leaks tier, which only frees, and   *)
(* the all tier, which rewrites counts and COPIED flags between setting    *)
(* and clearing the corrupt bit.                                           *)
(***************************************************************************)
EXTENDS Image

\* A read of the walk that fails: none, the L1 table, or the L2 table of
\* entry i from its entry j on.
NoFailure == <<0, 0>>
L1Unread == <<L1Size + 1, 1>>
ReadFailures == {L1Unread} \cup (L1Idx \X L2Idx)

\* What the walk marked in the reference bitmap.  A failed read of the L1
\* ends the walk, one of an L2 table goes on with the next L1 entry.
Marked(m, bad) ==
    IF bad = L1Unread THEN {}
    ELSE LET l1 == {i \in L1Idx : m.l1[i].to # 0}
             read == {p \in l1 \X L2Idx : p[1] = bad[1] => p[2] < bad[2]}
         IN  {m.l1[i].to : i \in l1}
               \cup ({L2At(m.cl, m.l1[p[1]].to)[p[2]].to : p \in read} \ {0})

Overlap(m) == \E c \in Cluster : ChainRefs(m.l1, m.cl, c) > 1

\* result.corruptions # 0
Corruptions(m, bad) == m.hdr.corrupt \/ bad # NoFailure \/ Overlap(m)

(***************************************************************************)
(* The leaks tier: a counted cluster that was not marked becomes free.     *)
(***************************************************************************)
LeaksProg(m, seen) ==
    LET rc == [c \in Cluster |-> IF c \in seen THEN m.rc[c] ELSE 0]
    IN  IF rc = m.rc THEN <<>> ELSE RcSteps(m.rc, rc) \o SyncIgnored

(***************************************************************************)
(* The all tier: the corrupt bit; counts of exactly 0 or 1; COPIED to      *)
(* match; the corrupt bit again.  No fsync result is looked at.            *)
(***************************************************************************)
\* Bit 1 of the word at offset 72, set or cleared.  In version 3 that is the
\* corrupt bit; in version 2 the first extension is there, and the bit is one
\* of its length.
Marking(h, on) ==
    LET bit == (h.fmt \div 2) % 2
    IN  IF h.ver = 3 THEN [h EXCEPT !.corrupt = on]
        ELSE IF h.fmt = 0 THEN h
        ELSE [h EXCEPT !.fmt = IF on THEN @ + 2 * (1 - bit) ELSE @ - 2 * bit]

\* Mutant of AllProg: the corrupt bit goes before the flags are right.
AllProgClearsEarly(m, seen) ==
    LET rc == [c \in Cluster |-> IF c \in seen THEN 1 ELSE 0]
        tables == {m.l1[i].to : i \in L1Idx} \ {0}
    IN  HdrStep(Marking(m.hdr, TRUE)) \o SyncIgnored
          \o (IF rc = m.rc THEN <<>> ELSE RcSteps(m.rc, rc) \o SyncIgnored)
          \o HdrStep(Marking(m.hdr, FALSE))
          \o L1Step(FreshL1(m.l1, rc))
          \o L2Steps(m.l1, m.cl, rc, tables) \o SyncIgnored

AllProg(m, seen) ==
    LET rc == [c \in Cluster |-> IF c \in seen THEN 1 ELSE 0]
        tables == {m.l1[i].to : i \in L1Idx} \ {0}
    IN  HdrStep(Marking(m.hdr, TRUE)) \o SyncIgnored
          \o (IF rc = m.rc THEN <<>> ELSE RcSteps(m.rc, rc) \o SyncIgnored)
          \o L1Step(FreshL1(m.l1, rc))
          \o L2Steps(m.l1, m.cl, rc, tables) \o SyncIgnored
          \o HdrStep(Marking(m.hdr, FALSE)) \o SyncIgnored

AllSupported(m, all, bad) == all /\ m.hdr.nb = 0 /\ ~Corruptions(m, bad)

\* The tier an invocation runs; an image with snapshots is refused.
Check(all, bad) ==
    /\ Idle
    /\ mem.hdr.nb = 0
    /\ IF AllSupported(mem, all, bad)
       THEN Begin("all", bad, AllProg(mem, Marked(mem, bad)))
       ELSE Begin("leaks", bad, LeaksProg(mem, Marked(mem, bad)))
=============================================================================
