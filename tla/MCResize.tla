------------------------------ MODULE MCResize ------------------------------
EXTENDS CheckTables

Blank == [x \in Entry |-> 0]

\* An image written compactly: header, refcount table, blocks, L1 table, L2
\* tables, data; `maps` gives the guest clusters with data.
Compact(size, l1n, used, maps, snaps) ==
    LET blocks == CeilDiv(used, E)
        l1At == 2 + blocks
        l2s == SetToSortSeq({g \div E : g \in maps}, <)
        l2At == l1At + L1Clusters(l1n)
        dataAt == l2At + Len(l2s)
        data == SetToSortSeq(maps, <)
        pos(s, v) == CHOOSE k \in 1..Len(s) : s[k] = v
        content(c) ==
            CASE c = 1 -> [x \in Entry |-> IF x < blocks THEN 2 + x ELSE 0]
              [] c \in 2..(1 + blocks) ->
                   [x \in Entry |-> IF (c - 2) * E + x < used THEN 1 ELSE 0]
              [] c \in l1At..(l2At - 1) ->
                   [x \in Entry |-> LET i == (c - l1At) * E + x
                                    IN IF i \in Range(l2s) THEN l2At + pos(l2s, i) - 1 ELSE 0]
              [] c \in l2At..(dataAt - 1) ->
                   [x \in Entry |-> LET g == l2s[c - l2At + 1] * E + x
                                    IN IF g \in maps THEN dataAt + pos(data, g) - 1 ELSE 0]
              [] c \in dataAt..(dataAt + Len(data) - 1) -> [x \in Entry |-> 100 + c]
              [] OTHER -> Blank
    IN  [hdr |-> [size |-> size, l1 |-> l1At, l1n |-> l1n, rt |-> 1, rtN |-> 1, snaps |-> snaps],
         cl |-> [c \in Cluster |-> content(c)], eof |-> dataAt + Len(data)]

\* The clusters such an image uses.
Used(l1n, maps) ==
    LET rest == 2 + L1Clusters(l1n) + Cardinality({g \div E : g \in maps}) + Cardinality(maps)
    IN  CHOOSE u \in 1..N : u = rest + CeilDiv(u, E)

Image(size, maps, snaps) == Compact(size, L1Need(size), Used(L1Need(size), maps), maps, snaps)

MCImages == {Image(8, {1, 2}, {}), Image(14, {0, 5, 6}, {}),
             Image(20, {0, 3, 4, 7, 8, 9}, {})}
MCLimits == [required |-> 16, overlap |-> 4, cleanup |-> 8, discard |-> 64]

\* Files of the other formats, put together from patches; a guest cell g
\* with data shows <<"data", g, 0>>.
Data(from, n, size) ==
    [i \in 1..n |-> IF from + i <= size THEN <<"data", from + i - 1, 0>> ELSE Zero]
Put(cells, p) == [x \in DOMAIN cells |->
                    IF x - p.at \in DOMAIN p.cells THEN p.cells[x - p.at] ELSE cells[x]]
File(kind, list, len) == [kind |-> kind, sub |-> "plain", cells |-> FoldLeft(Put, Zeros(len), list)]
Pos(s, v) == CHOOSE k \in 1..Len(s) : s[k] = v

Raw(size) == File("raw", <<Patch(0, Data(0, size, size))>>, size)
Fixed(size) == File("fixed", <<Patch(0, Data(0, size, size)), Patch(size, Footer(size))>>, size + SC)

\* A dynamic VHD: blocks in the order written, `slack` sectors before them.
Vpc(size, blocks, slack) ==
    LET n == CeilDiv(size, BLK)
        table == 3 * SC
        first == table + RoundUp(n, SC) + slack * SC
        at(b) == first + (Pos(blocks, b) - 1) * (SC + BLK)
        end == first + Len(blocks) * (SC + BLK)
        bat == [i \in 1..RoundUp(n, SC) |->
                  IF i - 1 \in Range(blocks) THEN To(at(i - 1) \div SC) ELSE Free]
    IN  File("vpc", <<Patch(0, Footer(size)), Patch(DynAt, DynHeader(table, n)),
                      Patch(table, bat)>>
                    \o [k \in 1..Len(blocks) |->
                          Patch(at(blocks[k]) + SC, Data(blocks[k] * BLK, BLK, size))]
                    \o <<Patch(end, Footer(size))>>, end + SC)

Vhdx(size, blocks, seq1, seq2) ==
    LET lay == VhdxLayout(size, FALSE)
        n == lay.meta - BatAt
        at(b) == lay.meta + MB + (Pos(blocks, b) - 1) * MB
        entry(i) == {b \in Range(blocks) : b + b \div Ratio = i}
        bat == [i \in 1..n |-> IF entry(i - 1) = {} THEN Zero
                               ELSE To(at(Min(entry(i - 1))) \div MB)]
        regions == RegionTable(BatAt, n, lay.meta)
    IN  File("vhdx", <<Patch(0, <<<<"fileid", 0, 0>>>>),
                       Patch(Head1, <<<<"head", seq1, 0>>>>), Patch(Head2, <<<<"head", seq2, 0>>>>),
                       Patch(Regions1, regions), Patch(Regions2, regions),
                       Patch(lay.meta, <<<<"vds", size, 0>>>>), Patch(BatAt, bat)>>
                     \o [k \in 1..Len(blocks) |-> Patch(at(blocks[k]), Data(blocks[k] * MB, MB, size))],
             lay.meta + MB + Len(blocks) * MB)

Vmdk(size, grains) ==
    LET gd == 2 * SC
        tables == SetToSortSeq({g \div GTES : g \in Range(grains)}, <)
        gtAt(t) == gd + RoundUp(GdEntries(size), SC) + (Pos(tables, t) - 1) * RoundUp(GTES, SC)
        first == gd + RoundUp(GdEntries(size), SC) + Len(tables) * RoundUp(GTES, SC)
        at(g) == first + (Pos(grains, g) - 1) * BLK
        dir == [i \in 1..RoundUp(GdEntries(size), SC) |->
                  IF i - 1 \in Range(tables) THEN To(gtAt(i - 1) \div SC) ELSE Zero]
        gt(t) == [i \in 1..GTES |-> LET g == t * GTES + i - 1
                                    IN IF g \in Range(grains) THEN To(at(g) \div SC) ELSE Zero]
    IN  File("vmdk", <<Patch(0, <<<<"vmdk", size, gd \div SC>>>>),
                       Patch(DescAt, <<<<"desc", size, 0>>>>), Patch(gd, dir)>>
                     \o [k \in 1..Len(tables) |-> Patch(gtAt(tables[k]), gt(tables[k]))]
                     \o [k \in 1..Len(grains) |-> Patch(at(grains[k]), Data(grains[k] * BLK, BLK, size))],
             first + Len(grains) * BLK)

MCDisks == {Raw(5), Fixed(4), Vpc(2, <<0>>, 0), Vpc(5, <<2, 0>>, 1), Vpc(2, <<>>, 0),
            Vhdx(5, <<1, 0>>, 1, 0), Vhdx(10, <<2, 0>>, 4, 5), Vmdk(4, <<1, 0>>),
            Vmdk(8, <<3, 0>>)}

\* What may be created.
Want(kind, sub, size) ==
    [kind |-> kind, sub |-> sub, size |-> size, parent |-> NoParent, hint |-> "none",
     zeroed |-> TRUE]
Parent(kind, size, child) == [kind |-> kind, size |-> size, child |-> child]
Child(kind, size, parent, hint) ==
    [Want(kind, "child", size) EXCEPT !.parent = parent, !.hint = hint]
MCNewFiles ==
    {Want("raw", "plain", 5), Want("fixed", "plain", 4), Want("vpc", "plain", 5),
     Want("vhdx", "plain", 5), Want("vhdx", "whole", 9),
     [Want("vhdx", "whole", 9) EXCEPT !.zeroed = FALSE],
     Want("vmdk", "plain", 5), Want("vmdk", "stream", 5),
     Child("vmdk", 0, Parent("raw", 4, FALSE), "none"),
     Child("vpc", 0, Parent("vpc", 4, FALSE), "vpc"),
     Child("vpc", 4, Parent("vpc", 4, FALSE), "none"),
     Child("vpc", 6, Parent("vpc", 4, FALSE), "none"),
     Child("vpc", 0, Parent("vpc", 4, TRUE), "none"),
     Child("vhdx", 0, Parent("vhdx", 10, FALSE), "vhdx"),
     Child("vhdx", 0, Parent("raw", 4, FALSE), "none")}
MCNewImages == [size : {8, 20, 34}, mode : {"off", "metadata", "full"}]
=============================================================================
