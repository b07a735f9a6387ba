------------------------------ MODULE MCRebase ------------------------------
(***************************************************************************)
(* Overlays with two L2 tables of two entries: nothing mapped, one cluster *)
(* in each table, a snapshot that shares a table, and one with the counts  *)
(* of all but a few clusters in use.  VMDK overlays as create writes them, *)
(* with and without a parent, and two with lines in another order.         *)
(***************************************************************************)
EXTENDS Rebase, TLC

Own(c) == [to |-> c, copied |-> TRUE]
Shared(c) == [to |-> c, copied |-> FALSE]

\* b reads differently from a everywhere but in one cluster; c is a by
\* another name, and longer than b.
MCLength == "a" :> 2 @@ "b" :> 1 @@ "c" :> 2
MCContent == "a" :> <<1, 1, 2, 0>> @@ "b" :> <<2, 1, 1, 1>> @@ "c" :> <<1, 1, 2, 0>>

Hdr(nb, tab) == [nb |-> nb, tab |-> tab, corrupt |-> FALSE, auto |-> FALSE,
                 ver |-> 3, lazy |-> FALSE, fmt |-> 3,
                 bm |-> [nb |-> 0, dir |-> 0], text |-> "a", len |-> 2]

Mk(h, l1t, counts, contents) ==
    [hdr |-> h, l1 |-> l1t,
     rc |-> [c \in Cluster |-> IF c \in DOMAIN counts THEN counts[c] ELSE 0],
     cl |-> [c \in Cluster |-> IF c \in DOMAIN contents THEN contents[c]
                                                        ELSE Data(Garbage)]]

Blank == Mk(Hdr(0, 0), <<NoEntry, NoEntry>>, <<>>, <<>>)

TwoTables(used) ==
    Mk(Hdr(0, 0), <<Own(1), Own(2)>>,
       [c \in 1..3 |-> 1] @@ [c \in used |-> 1],
       1 :> Table2(<<NoEntry, Own(3)>>) @@ 2 :> Table2(<<NoEntry, NoEntry>>)
         @@ 3 :> Data(3))

\* A snapshot shares the only table and its cluster.
WithSnapshot ==
    Mk(Hdr(1, 4), <<Shared(1), NoEntry>>,
       1 :> 2 @@ 2 :> 2 @@ 3 :> 1 @@ 4 :> 1,
       1 :> Table2(<<NoEntry, Shared(2)>>) @@ 2 :> Data(3)
         @@ 3 :> Table1(<<Shared(1), NoEntry>>)
         @@ 4 :> SnapTable(<<[name |-> 1, id |-> 1, l1 |-> 3]>>))

MCImages == {Blank, TwoTables({}), TwoTables(5..N), WithSnapshot}

MCCidOf == "a" :> "cida" @@ "b" :> Sentinel @@ "c" :> "cida"

MCDescriptors ==
    {<<Other(1), Cid, Pcid("cida"), Other(2), Hint("a"), Other(3)>>,
     <<Other(1), Cid, Pcid(Sentinel), Other(2), Other(3)>>,
     <<Other(1), Pcid("cida"), Hint("a"), Cid, Other(2), Hint("b")>>,
     <<Other(1), Other(2), Hint("b")>>}
=============================================================================
