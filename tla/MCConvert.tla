----------------------------- MODULE MCConvert -----------------------------
(***************************************************************************)
(* Chains of every input format, each copied to every output format, pairs *)
(* of them compared, and single images mapped and measured.                *)
(***************************************************************************)
EXTENDS Measure, Compare, MapExtents, Discover

(***************************************************************************)
(* The operations that read images through the chain reader and its table  *)
(* lookups, and the discovery of a chain before them: each behaviour is    *)
(* one of them.                                                            *)
(***************************************************************************)

\* An operation that is not the one asked for.
NoConvert ==
    /\ job = [chain |-> <<>>, fmt |-> "raw", start |-> 0, len |-> 0, skip |-> FALSE,
              dd |-> FALSE, ss |-> Big]
    /\ w = <<>> /\ st = FreshStaging /\ todo = <<>> /\ dev = <<>> /\ size = 0
    /\ phase = "idle"
NoCompare ==
    /\ pair = <<>> /\ off = 0 /\ staged = FreshStaging /\ result = NoResult
    /\ cphase = "idle"
NoMap ==
    /\ map = [vsize |-> 0, from |-> 0, max |-> 0] /\ entry = 0 /\ walk = NoWalk
    /\ mphase = "idle"
NoDiscover ==
    /\ call = <<>> /\ cur = Root /\ seen = <<>> /\ queue = <<>> /\ path = NoPath
    /\ probed = {} /\ trail = <<>> /\ target = <<>>
    /\ dphase = "idle" /\ answer = "none"

OpInit == \/ Init /\ NoCompare /\ NoMap /\ NoDiscover
          \/ CompareInit /\ NoConvert /\ NoMap /\ NoDiscover
          \/ MapInit /\ NoConvert /\ NoCompare /\ NoDiscover
          \/ DiscoverInit /\ NoConvert /\ NoCompare /\ NoMap
ConvertStep == Next /\ UNCHANGED <<compareVars, mapVars, discoverVars>>
CompareStep == CompareNext /\ UNCHANGED <<vars, mapVars, discoverVars>>
MapStep == MapNext /\ UNCHANGED <<vars, compareVars, discoverVars>>
DiscoverStep == DiscoverNext /\ UNCHANGED <<vars, compareVars, mapVars>>
OpSpec ==
    OpInit /\ [][ConvertStep \/ CompareStep \/ MapStep \/ DiscoverStep]_<<vars, compareVars, mapVars,
                                                                     discoverVars>>

-----------------------------------------------------------------------------
Dev(i, fmt, cs, cap, table) ==
    [fmt |-> fmt, cs |-> cs, cap |-> cap, map |-> table, gr |-> 1, diff |-> FALSE,
     packed |-> FALSE, data |-> i, size |-> 0, holes |-> {}]
E(at, flag) == [NoEntry EXCEPT !.at = at, !.flag = flag]
Table(s) == [k \in 0..(Len(s) - 1) |-> s[k + 1]]

RawFile == <<[Dev(1, "raw", 0, 16, <<>>) EXCEPT !.holes = 0..3 \cup 6..11]>>
\* A compressed and a plain cluster over a shorter raw file.
OverRaw == <<Dev(1, "qcow2", 8, 40, Table(<<E(8, "comp"), NoEntry>>)),
             [Dev(2, "raw", 0, 13, <<>>) EXCEPT !.holes = {10}]>>
\* Small clusters over large compressed ones, one staging buffer for both.
Staged == <<Dev(1, "qcow2", 2, 40, Table(<<NoEntry, E(8, "plain"), NoEntry, NoEntry,
                                           E(NoPlace, "zero"), NoEntry, NoEntry, NoEntry>>)),
            Dev(2, "qcow2", 8, 60, Table(<<E(16, "comp"), E(32, "comp")>>))>>
\* Subclusters over grains smaller than the cluster.
Granules ==
    <<Dev(1, "qcow2", 8, 40,
          Table(<<[at |-> 8, flag |-> "ext", own |-> {1, 2, 6}, zero |-> {3}],
                  [at |-> NoPlace, flag |-> "ext", own |-> {}, zero |-> {0, 7}]>>)),
      [Dev(2, "vmdk", 2, 40, Table(<<E(4, "plain"), E(8, "plain"), NoEntry, E(12, "plain"),
                                     E(16, "plain"), E(20, "zeroed"), NoEntry, E(30, "plain")>>))
         EXCEPT !.packed = TRUE]>>
Grains == <<[Dev(1, "vmdk", 8, 40, Table(<<E(8, "plain"), NoEntry>>)) EXCEPT !.packed = TRUE],
            Dev(2, "vmdk", 4, 40, Table(<<E(4, "plain"), NoEntry, E(12, "plain")>>))>>
Vhds == <<[Dev(1, "vhd", 8, 40, Table(<<[E(8, "plain") EXCEPT !.own = {0, 1, 5}], NoEntry>>))
             EXCEPT !.diff = TRUE],
          Dev(2, "vhd", 8, 40, Table(<<E(4, "plain"), E(20, "plain")>>))>>
Vhdxs == <<[Dev(1, "vhdx", 8, 40, Table(<<[E(8, "partial") EXCEPT !.own = {2, 3}],
                                          E(24, "unmapped")>>)) EXCEPT !.diff = TRUE],
           Dev(2, "vhdx", 8, 40, Table(<<E(4, "present"), E(NoPlace, "zero")>>))>>
External == <<[Dev(1, "qcow2", 4, 40, Table(<<E(0, "plain"), NoEntry, E(8, "plain")>>))
                 EXCEPT !.data = 2],
              Dev(2, "data", 0, 16, <<>>),
              Dev(3, "vdi", 4, 9, Table(<<NoEntry, E(4, "plain"), E(0, "discarded"),
                                          E(6, "plain")>>))>>
Extended == <<[Dev(1, "flat", 0, 16, <<>>) EXCEPT !.data = 2],
              [Dev(2, "data", 0, 8, <<>>) EXCEPT !.size = 8],
              [Dev(3, "data", 0, 6, <<>>) EXCEPT !.size = 8]>>
Desktop == <<Dev(1, "parallels", 4, 20, Table(<<E(4, "plain"), NoEntry, E(17, "plain")>>))>>
Old == <<Dev(1, "qcow1", 8, 40, Table(<<E(8, "comp"), NoEntry>>)),
         Dev(2, "fixed", 0, 16, <<>>)>>
Mac == <<Dev(1, "dmg", 8, 40, Table(<<E(8, "zlib"), E(24, "raw")>>))>>
\* Images measure and map can scan, their data in pieces smaller than the
\* units of the target.
Pieced == <<Dev(1, "qcow2", 2, 60, Table(<<E(8, "plain"), NoEntry, E(10, "plain"), NoEntry,
                                           E(NoPlace, "zero"), E(20, "comp"), E(40, "zero"),
                                           E(22, "plain"), E(24, "plain")>>))>>
Subbed == <<Dev(1, "qcow2", 8, 40,
                Table(<<[at |-> 8, flag |-> "ext", own |-> {0, 3, 6, 7}, zero |-> {2}],
                        [at |-> 16, flag |-> "ext", own |-> {0, 1, 7}, zero |-> {4, 5}]>>))>>
Invalid == <<Dev(1, "qcow2", 8, 40,
                 Table(<<E(8, "plain"),
                         [at |-> 16, flag |-> "ext", own |-> {1}, zero |-> {1}]>>))>>
Grained == <<Dev(1, "vmdk", 2, 40, Table(<<E(4, "plain"), E(6, "plain"), NoEntry, E(12, "plain"),
                                           E(16, "zeroed"), NoEntry, E(20, "plain")>>))>>
Sparse == <<Dev(1, "vhd", 8, 40, Table(<<E(4, "plain"), NoEntry>>))>>
Blocky == <<Dev(1, "vhdx", 4, 40, Table(<<E(4, "present"), E(8, "present"),
                                          E(NoPlace, "zero"), E(12, "unmapped")>>))>>
\* A chunk no block answers for, and a table entry out of range: refused.
Placeless == <<Dev(1, "vhdx", 8, 40, Table(<<E(NoPlace, "present")>>))>>
Broken == {<<Dev(1, "dmg", 8, 40, Table(<<E(8, "zero")>>))>>, Placeless}

Whole16 == {RawFile, OverRaw, Staged, Granules, Grains, Vhds, Vhdxs, External, Extended,
            Desktop, Old, Mac}
Formats == {"raw", "flat", "qcow2", "extl2", "qcow2c", "vmdk", "vmdkc", "vhd", "vhdx", "vhdxf"}
Job(chain, fmt, start, len, skip, dd, ss) ==
    [chain |-> chain, fmt |-> fmt, start |-> start, len |-> len, skip |-> skip,
     dd |-> dd, ss |-> ss]
Window_(chain, fmt, start, len) ==
    Job(chain, fmt, start, len, FALSE, TRUE, IF fmt = "raw" THEN Small ELSE Big)
MCJobs ==
    {Job(c, f, 0, 16, TRUE, FALSE, Big) : c \in Whole16, f \in Formats}
    \cup {Job(c, f, 0, 14, FALSE, FALSE, Big) : c \in {OverRaw, Granules}, f \in Formats}
    \cup {Job(c, f, 0, 14, TRUE, FALSE, Small) :
            c \in {RawFile, Staged}, f \in {"raw", "qcow2", "vhdx", "vhdxf"}}
    \cup {Job(c, "qcow2", 0, 16, TRUE, FALSE, Big) : c \in Broken}
    \cup {Job(c, f, 0, n, TRUE, FALSE, Big) : c \in {Pieced, Subbed, Grained, Sparse, Blocky},
            f \in Sized, n \in {14, 16}}
    \cup {Window_(c, f, s, n) : c \in {OverRaw, Granules, Grains},
            f \in Formats \ {"flat", "qcow2c", "vmdkc", "vhdxf"}, s \in {0, 3}, n \in {0, 9}}

\* The same image twice, and against others; a device names its own data.
Shifted(chain, n) == [i \in 1..Len(chain) |-> [chain[i] EXCEPT !.data = @ + n]]
Pair(a, b, size1, size2, odd, strict) ==
    [devs |-> a \o Shifted(b, Len(a)), n |-> Len(a), size1 |-> size1, size2 |-> size2,
     ss |-> Small, odd |-> odd, strict |-> strict]
\* The sizes are such that no image reads what the other has left staged:
\* two chains that both inflate are no longer than one chunk.
MCPairs ==
    {Pair(a, b, n, m, odd, strict) :
       a \in {RawFile, Granules, External, Sparse}, b \in {RawFile, OverRaw, Granules, Staged, Mac},
       n \in {14, 16}, m \in {14, 16}, odd \in {{}, {5}, {13}}, strict \in BOOLEAN}
    \cup {Pair(a, b, n, m, odd, FALSE) :
            a \in {Staged, OverRaw, Old, Mac}, b \in {OverRaw, Staged, Grains},
            n \in {3, 4}, m \in {3, 4, 6}, odd \in {{}, {2}}}
    \cup {Pair(a, RawFile, 16, 16, {}, FALSE) : a \in Broken}
MapJob(chain, vsize, from, max) ==
    [src |-> chain[1], vsize |-> vsize, backed |-> Len(chain) > 1, from |-> from, max |-> max]
MCMaps ==
    {MapJob(c, n, f, m) :
       c \in {Pieced, Subbed, Invalid, Grained, Sparse, Blocky},
       n \in {13, 16, 20}, f \in {0, 3, 9, 21}, m \in {0, 1, 6, 30}}
    \cup {MapJob(c, 16, f, 6) : c \in {RawFile, OverRaw, Vhds, Vhdxs, Placeless}, f \in {0, 3, 21}}

-----------------------------------------------------------------------------
(***************************************************************************)
(* Calls of chain discovery: hosts with links in and out of the image's    *)
(* directory, references and allowlists spelled every way, chains of every *)
(* policy, and commit with and without -b.                                 *)
(***************************************************************************)

Folder == [kind |-> "dir"]
File(fmt, back, data) == [kind |-> "file", fmt |-> fmt, back |-> back, data |-> data]
RawImage == File("raw", <<>>, <<>>)
Link(to) == [kind |-> "link", to |-> to]
Ref(abs, names) == [abs |-> abs, names |-> names, windows |-> FALSE]
Rel(names) == Ref(FALSE, names)
Abs(names) == Ref(TRUE, names)
\* /i holds the images; /o is elsewhere; l is a link beside the image, /k and
\* /o/m are ways the operator may spell a directory.
HostWith(a, b, l, more) ==
    (Root :> Folder) @@ (<<"i">> :> Folder) @@ (<<"i", "s">> :> Folder) @@ (<<"o">> :> Folder)
    @@ (<<"i", "s", "t">> :> Folder) @@ (<<"k">> :> Link(Abs(<<"i">>)))
    @@ (<<"i", "a">> :> a) @@ (<<"i", "s", "a">> :> a) @@ (<<"i", "n">> :> Link(Rel(<<"s", "a">>)))
    @@ (<<"i", "b">> :> b) @@ (<<"i", "s", "b">> :> RawImage) @@ (<<"i", "l">> :> Link(l)) @@ more
Elsewhere == (<<"o", "b">> :> RawImage) @@ (<<"o", "m">> :> Link(Abs(<<"i", "s">>)))
Links == {Rel(<<"s">>), Rel(<<"s", "t">>), Rel(<<Up>>), Rel(<<Up, "o">>), Abs(<<"o">>),
          Abs(<<"k", "b">>), Rel(<<"l">>), Rel(<<"z">>), Abs(<<"o", "m">>)}
Refs == {Rel(n) : n \in {<<"b">>, <<"l">>, <<"l", "b">>, <<"l", Up, "b">>, <<"s", Up, "b">>,
                         <<Up, "o", "b">>, <<Up, "i", "b">>, <<"b", Up, "b">>,
                         <<"l", "i", "b">>, <<"z">>, <<"s", "l", "b">>}}
        \cup {Abs(n) : n \in {<<"i", "b">>, <<"o", "b">>, <<"k", "b">>, <<"k", "s", "b">>,
                              <<"i", "z">>, <<"i", "l", "b">>, <<"o", Up, "i", "b">>, <<"i", Up>>, <<"o", "m", "b">>}}
Allowed == {{ImageDir}, {<<"i">>, <<"o">>}, {<<"k", "s">>}, {<<"i", "l", Up>>},
            {<<"o", "m">>}, {<<"z">>, <<"k">>}}
Call(h, top, allow, use, diff, base, depth) ==
    [host |-> h, top |-> top, allow |-> allow, use |-> use, diff |-> diff, base |-> base,
     depth |-> depth]
Tops == {<<"i", "a">>, <<"k", "a">>, <<"i", "n">>, <<"i", "l", Up, "a">>}
WalkCalls ==
    {Call(HostWith(File("qcow2", <<r>>, <<>>), RawImage, l, more),
          how[1], allow, how[2], FALSE, <<>>, 3) :
       r \in Refs, l \in Links, more \in {<<>>, Elsewhere}, allow \in Allowed,
       how \in {<<<<"i", "a">>, "compose">>, <<<<"i", "n">>, "compose">>,
                <<<<"i", "a">>, "commit">>, <<<<"k", "a">>, "commit">>, <<<<"i", "l", Up, "a">>, "commit">>}}
Windows == [Rel(<<"c">>) EXCEPT !.windows = TRUE]
ChainCalls ==
    {Call(HostWith(File(f, <<r>>, d), File(g, s, d), Rel(<<"s", "b">>), <<>>),
          <<"i", "a">>, {ImageDir}, how[1], how[2], <<>>, depth) :
       f \in {"qcow2", "vhd", "desc"}, g \in {"qcow2", "vhd", "foreign"},
       r \in {Rel(<<"b">>), Rel(<<"l">>), Windows, Abs(<<"i">>), Rel(<<"z">>)},
       s \in {<<>>, <<Rel(<<"a">>)>>, <<Rel(<<"l">>)>>, <<Rel(<<"z">>)>>},
       d \in {<<>>, <<Rel(<<"b">>)>>, <<Rel(<<"l">>), Rel(<<Up, "o">>)>>},
       how \in {<<"compose", TRUE>>, <<"compose", FALSE>>, <<"report", FALSE>>},
       depth \in {1, 2, 3}}
CommitCalls ==
    {Call(HostWith(File("qcow2", r, <<>>), File("qcow2", s, <<>>), Rel(<<"s">>), Elsewhere),
          top, {ImageDir}, "commit", FALSE, base, 3) :
       r \in {<<>>} \cup {<<x>> : x \in Refs}, s \in {<<>>, <<Rel(<<"a">>)>>}, top \in Tops,
       base \in {<<b>> : b \in {<<"i", "b">>, <<"k", "b">>, <<"o", "b">>, <<"i", "z">>,
                                <<"i", "s", Up, "b">>}}}
MCCalls == WalkCalls \cup ChainCalls \cup CommitCalls
=============================================================================
