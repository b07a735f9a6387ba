---------------------------- MODULE MCGrowthExec ----------------------------
(***************************************************************************)
(* Images with a table of one or two clusters, three to six blocks, and    *)
(* guest clusters packed or with holes; worst cases up to the caps on      *)
(* blocks and table, and beyond them.  Benches of one to four requests     *)
(* that straddle clusters and tables, wrap, end exactly on the wrap, or    *)
(* start past the end; clusters of 8 bytes, two to an L2 table.            *)
(***************************************************************************)
EXTENDS Bench

Mk(n, k, used) == [rt |-> 1, rtN |-> n, l1 |-> n + k + 1, used |-> used,
                   blocks |-> [i \in 0 .. (k - 1) |-> n + 1 + i]]

MCImages == {Mk(1, 3, {}), Mk(1, 4, {7}), Mk(2, 4, {}), Mk(2, 5, {9}),
             Mk(2, 6, {10, 11}), Mk(1, 4, {6})}

MkJob(n, bufsize, step, offset, size) ==
    [other |-> FALSE, n |-> n, depth |-> 1, bufsize |-> bufsize, step |-> step,
     offset |-> offset, write |-> TRUE, interval |-> 0, size |-> size,
     claim |-> "qcow2", probe |-> "qcow2", backed |-> FALSE, mapped |-> {}]
OtherCaller == [MkJob(1, 1, 0, 0, 0) EXCEPT !.other = TRUE]

Writes ==
    {MkJob(n, b, s, o, z) : n \in {1, 2, 4}, b \in {4, 10}, s \in {0, 3, 18},
                          o \in {0, 5, 41}, z \in {45, 48}}
\* The last offset lands on the wrap; the image is a request or less; the
\* first request ends at, or past, the end.
Edges == {MkJob(2, 4, 2, 42, 48), MkJob(3, 4, 22, 0, 48), MkJob(2, 8, 0, 0, 8), MkJob(2, 9, 0, 0, 8),
          MkJob(2, 4, 0, 44, 48), MkJob(2, 4, 0, 60, 48)}
Backed == {[j EXCEPT !.backed = TRUE, !.mapped = {0, 3}, !.interval = i] :
             j \in {MkJob(4, 10, 7, 5, 45), MkJob(3, 8, 16, 8, 48)}, i \in {1, 2, 3}}
Flat == {[j EXCEPT !.claim = "raw", !.probe = "raw", !.write = w, !.interval = i] :
            j \in {MkJob(4, 10, 7, 5, 45), MkJob(3, 8, 16, 8, 48), MkJob(2, 4, 2, 42, 48)},
            w \in BOOLEAN, i \in {0, 2, 3}}
Gated == {[MkJob(1, 4, 0, 0, 48) EXCEPT !.claim = c, !.probe = p, !.write = w] :
             c \in {"raw", "qcow2", "vhd", "luks"}, p \in {"raw", "qcow2", "vhd", "luks"},
             w \in BOOLEAN}
Barred == {[MkJob(1, 4, 0, 0, 48) EXCEPT !.n = 0], [MkJob(1, 4, 0, 0, 48) EXCEPT !.depth = 0],
           MkJob(1, 0, 0, 0, 48), MkJob(1, 70, 0, 0, 48), MkJob(1, 4, 101, 0, 48),
           [MkJob(4, 4, 0, 0, 48) EXCEPT !.depth = 3, !.interval = 2]}
MCJobs == {OtherCaller} \cup Writes \cup Edges \cup Backed \cup Flat \cup Gated \cup Barred
=============================================================================
