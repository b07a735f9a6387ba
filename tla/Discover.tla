----------------------------- MODULE Discover ------------------------------
(***************************************************************************)
(* Chain discovery: from the image a command names, each image's reference *)
(* to its parent, its data file or its extents is resolved to a file, and  *)
(* the walk goes on from the parent.  A reference is resolved one name at  *)
(* a time, from what lies under the allowlist alone.  commit resolves the  *)
(* file it writes into the same way.                                       *)
(*                                                                         *)
(* A path is the sequence of its names, ".." among them; a spelling may    *)
(* start at the root or not.  A host is a function from the paths that     *)
(* exist to a directory, a link or an image file.                          *)
(***************************************************************************)
EXTENDS Integers, SequencesExt, FiniteSetsExt

CONSTANTS
    Calls,     \* the commands, each with the host it runs on
    MaxHops    \* MAX_SYMLINK_HOPS

(***************************************************************************)
(* A call is a record: host; top the image's path and allow the allowlist, *)
(* as the operator spells them; depth the depth limit; use "compose",      *)
(* "report" or "commit"; diff whether a differencing parent is read; base  *)
(* what -b names, if anything.                                             *)
(***************************************************************************)
VARIABLES
    call,     \* the call
    cur,      \* current: the image whose turn it is
    seen,     \* seen_paths, which are also the paths of the chain
    queue,    \* the references of that image still to be resolved
    path,     \* walk_within_allowlist: pending, physical, hops; written or beside
    probed,   \* every path looked at for a reference
    trail,    \* the references resolved so far
    target,   \* the file commit writes into
    dphase,   \* "start", "look", "ask", "walk", "done"
    answer    \* how the command ended

discoverVars == <<call, cur, seen, queue, path, probed, trail, target, dphase, answer>>

Root == <<>>
ImageDir == <<"$IMAGE_DIR">>
Up == ".."
Above(p) == IF p = Root THEN Root ELSE Front(p)
NoPath == [pending |-> <<>>, physical |-> Root, hops |-> 0, written |-> TRUE]

----------------------------------------------------------------------------
(* Paths *)

RECURSIVE Kernel(_, _, _, _)
\* Where the kernel finds a path, as a sequence of at most one.
Kernel(host, at, names, hops) ==
    IF names = <<>> THEN <<at>>
    ELSE LET next == Append(at, Head(names)) IN
         CASE host[at].kind # "dir" -> <<>>
           [] host[at].kind = "dir" /\ Head(names) = Up ->
                Kernel(host, Above(at), Tail(names), hops)
           [] host[at].kind = "dir" /\ Head(names) # Up /\ next \notin DOMAIN host -> <<>>
           [] OTHER ->
                IF host[next].kind # "link" THEN Kernel(host, next, Tail(names), hops)
                ELSE IF hops = 0 THEN <<>>
                ELSE Kernel(host, IF host[next].to.abs THEN Root ELSE at,
                            host[next].to.names \o Tail(names), hops - 1)
Canonical(names) == Kernel(call.host, Root, names, MaxHops)

\* normalize_lexically, of a path from the root.
Normal(names) ==
    FoldLeft(LAMBDA p, n : IF n = Up THEN Above(p) ELSE Append(p, n), Root, names)
Joined(dir, ref) == IF ref.abs THEN ref.names ELSE dir \o ref.names
HasUp(names) == Up \in Range(names)

\* AllowlistForms: an entry as spelled counts only if it has no "..".
LexicalAll(entries) == {Normal(e) : e \in entries}
Lexical(entries) == {Normal(e) : e \in {e \in entries : ~HasUp(e)}}
Physical(entries) == UNION {Range(Canonical(e)) : e \in entries}
Forms(entries) == Lexical(entries) \cup Physical(entries)
Allows(forms, p) == \E e \in forms : IsPrefix(e, p)
MayProbe(entries, p) == \E e \in Forms(entries) : IsPrefix(e, p) \/ IsPrefix(p, e)

----------------------------------------------------------------------------
(* The reference being resolved *)

Asked == Head(queue)
ForCommit(q) == q.role \in {"target", "parent"}
\* validate_reference: the directory references are joined to is canonical;
\* the image's directory is allowed as spelled too.
Spelled(q, from) == IF ForCommit(q) THEN Above(call.top) ELSE Above(from)
Dir(q, from) == Canonical(Spelled(q, from))[1]
AllowEntries(q, from) ==
    {IF e = ImageDir THEN Dir(q, from) ELSE e : e \in call.allow}
    \cup (IF ImageDir \in call.allow /\ ~HasUp(Spelled(q, from))
          THEN {Spelled(q, from)} ELSE {})
Inside(q, from) ==
    Allows(Forms(AllowEntries(q, from)), Normal(Joined(Dir(q, from), q.ref)))
Beside(q, from) == Append(Dir(q, from), Last(q.ref.names))
\* The file name beside the image stands in for an absolute reference, but
\* not for a file that will be written.
MayStandIn(q, from) ==
    /\ q.ref.abs /\ q.role # "target"
    /\ q.ref.names # <<>> /\ Last(q.ref.names) # Up
    /\ Allows(Forms(AllowEntries(q, from)), Beside(q, from))

End(how) ==
    /\ answer' = how /\ dphase' = "done"
    /\ queue' = <<>> /\ path' = NoPath
    /\ UNCHANGED <<call, cur, target>>
\* A listing ends where a command that reads the parent fails.
Unresolved(why) == End(IF Asked.soft THEN "ok" ELSE why)
Walk(names, written) ==
    /\ path' = [NoPath EXCEPT !.pending = names, !.written = written]
    /\ dphase' = "walk"
    /\ UNCHANGED <<call, cur, queue, target, answer>>
StandIn ==
    IF MayStandIn(Asked, cur) THEN Walk(Beside(Asked, cur), FALSE)
    ELSE Unresolved(IF Inside(Asked, cur) THEN "missing" ELSE "outside")

GoOn(p) ==
    /\ cur' = p /\ queue' = <<>> /\ path' = NoPath /\ dphase' = "look"
    /\ UNCHANGED <<call, answer>>
Resolved(p) ==
    CASE Asked.role = "data" ->
           /\ queue' = Tail(queue) /\ path' = NoPath /\ dphase' = "ask"
           /\ UNCHANGED <<call, cur, target, answer>>
      [] Asked.role = "next" ->
           IF Asked.soft /\ p \in Range(seen) THEN End("ok")
           ELSE GoOn(p) /\ UNCHANGED target
      [] Asked.role = "target" -> GoOn(p) /\ target' = <<p>>
      [] Asked.role = "parent" ->
           IF Canonical(call.base[1]) = <<p>> THEN GoOn(p) /\ UNCHANGED target
           ELSE End("intermediate")

----------------------------------------------------------------------------
(* One name of a path *)

\* How a walk that found nothing goes on.
Stopped(how) ==
    IF ~path.written THEN Unresolved(IF Inside(Asked, cur) THEN "missing" ELSE "outside")
    ELSE IF how = "missing" THEN StandIn
    ELSE Unresolved(how)

WalkUp ==
    /\ dphase = "walk" /\ path.pending # <<>> /\ Head(path.pending) = Up
    /\ path' = [path EXCEPT !.pending = Tail(@), !.physical = Above(@)]
    /\ UNCHANGED <<call, cur, seen, queue, probed, trail, target, dphase, answer>>
Followed(node, rest) ==
    path' = [path EXCEPT !.pending = node.to.names \o rest, !.hops = @ + 1,
                         !.physical = IF node.to.abs THEN Root ELSE @]
WalkInto ==
    /\ dphase = "walk" /\ path.pending # <<>> /\ Head(path.pending) # Up
    /\ LET next == Append(path.physical, Head(path.pending))
           rest == Tail(path.pending)
           host == call.host
       IN IF ~MayProbe(AllowEntries(Asked, cur), next) THEN Stopped("outside") /\ UNCHANGED probed
          ELSE /\ probed' = probed \cup {[at |-> next, for |-> Asked, from |-> cur]}
               /\ IF next \notin DOMAIN host THEN Stopped("missing")
                  ELSE IF host[next].kind = "link" /\ path.hops = MaxHops THEN Stopped("loop")
                  ELSE /\ IF host[next].kind = "link" THEN Followed(host[next], rest)
                          ELSE path' = [path EXCEPT !.pending = rest, !.physical = next]
                       /\ UNCHANGED <<call, cur, queue, target, dphase, answer>>
    /\ UNCHANGED <<seen, trail>>
WalkEnds ==
    /\ dphase = "walk" /\ path.pending = <<>>
    /\ IF Allows(Physical(AllowEntries(Asked, cur)), path.physical)
       THEN /\ Resolved(path.physical)
            /\ trail' = Append(trail, [for |-> Asked, from |-> cur, got |-> path.physical,
                                       written |-> path.written])
       ELSE Stopped("outside") /\ UNCHANGED trail
    /\ UNCHANGED <<seen, probed>>

----------------------------------------------------------------------------
(* discover_backing_chain, and what commit does before it *)

\* classify_parent_walk: what is done with the parent an image names.
ParentWalk(node) ==
    LET soft == node.fmt = "vhd" /\ call.use = "report"
    IN IF node.fmt = "vhd" /\ call.use # "report" /\ ~call.diff THEN <<>>
       ELSE [i \in DOMAIN node.back |-> [ref |-> node.back[i], role |-> "next", soft |-> soft]]
\* The extents of a descriptor, and the data file of the top image only.
Parts(node) ==
    IF node.fmt = "desc" \/ (node.fmt = "qcow2" /\ seen = <<>>)
    THEN [i \in DOMAIN node.data |-> [ref |-> node.data[i], role |-> "data", soft |-> FALSE]]
    ELSE <<>>

\* reference_spells_path.
Spells(ref, names) ==
    LET named == Joined(Above(call.top), ref)
    IN ~HasUp(named) /\ ~HasUp(names) /\ named = names
\* run_commit: -b names the file to write, which must be the parent; else it
\* is the recorded parent.
CommitStarts(overlay) ==
    LET back == overlay.back
        given == Canonical(call.base[1])
        asks(role) == <<[ref |-> back[1], role |-> role, soft |-> FALSE]>>
    IN CASE back = <<>> -> End("no parent")
         [] back # <<>> /\ call.base = <<>> ->
              /\ queue' = asks("target") /\ dphase' = "ask"
              /\ UNCHANGED <<call, cur, path, target, answer>>
         [] back # <<>> /\ call.base # <<>> ->
              IF given = <<>> THEN End("missing")
              ELSE /\ target' = given
                   /\ IF Spells(back[1], call.base[1]) \/ Spells(back[1], given[1])
                      THEN GoOn(given[1])
                      ELSE /\ queue' = asks("parent") /\ dphase' = "ask"
                           /\ UNCHANGED <<call, cur, path, answer>>
Discovery ==
    /\ dphase = "start"
    /\ LET top == Canonical(call.top) IN
       IF top = <<>> THEN End("missing")
       ELSE IF call.use = "commit" THEN CommitStarts(call.host[top[1]])
       ELSE GoOn(top[1]) /\ UNCHANGED target
    /\ UNCHANGED <<seen, probed, trail>>

\* check_circular_reference
Circular(p) == p \in Range(seen)
\* check_chain_depth
TooDeep == Len(seen) >= call.depth
Look ==
    /\ dphase = "look"
    /\ LET node == call.host[cur] IN
       IF Circular(cur) THEN End("circular") /\ UNCHANGED seen
       ELSE IF TooDeep THEN End("deep") /\ UNCHANGED seen
       ELSE /\ seen' = Append(seen, cur)
            /\ IF node.kind # "file" THEN End("no image")
               ELSE IF node.fmt = "foreign" THEN End("unsupported")
               ELSE /\ queue' = Parts(node) \o ParentWalk(node)
                    /\ dphase' = "ask"
                    /\ UNCHANGED <<call, cur, path, target, answer>>
    /\ UNCHANGED <<probed, trail>>
\* The guest that looks at the image fails, or commit will not merge these
\* two images.
Fails ==
    /\ dphase = "look" /\ End("refused")
    /\ UNCHANGED <<seen, probed, trail>>

Ask ==
    /\ dphase = "ask"
    /\ IF queue = <<>> THEN End("ok")
       ELSE IF Asked.soft /\ (Asked.ref.windows \/ TooDeep) THEN End("ok")
       ELSE IF Inside(Asked, cur) THEN Walk(Joined(Dir(Asked, cur), Asked.ref), TRUE)
       ELSE StandIn
    /\ UNCHANGED <<seen, probed, trail>>

DiscoverInit ==
    /\ call \in Calls
    /\ cur = Root /\ seen = <<>> /\ queue = <<>> /\ path = NoPath
    /\ probed = {} /\ trail = <<>> /\ target = <<>>
    /\ dphase = "start" /\ answer = "none"
DiscoverNext == Discovery \/ Look \/ Fails \/ Ask \/ WalkUp \/ WalkInto \/ WalkEnds

----------------------------------------------------------------------------
(* What discovery promises *)

\* A path was looked at only if it lies under an entry, or leads to one.
OnlyInside ==
    \A x \in probed :
        LET entries == AllowEntries(x.for, x.from) IN
        Allows(Physical(entries), x.at) \/ \E e \in Forms(entries) : IsPrefix(x.at, e)
\* What was found is the kernel's file and under an entry; or it stands in
\* for a file the kernel does not find, or that is outside.
KernelAgrees(t) ==
    LET q == t.for
        kernel == Canonical(Joined(Dir(q, t.from), q.ref))
    IN /\ Allows(Physical(AllowEntries(q, t.from)), t.got)
       /\ IF t.written THEN kernel \in {<<>>, <<t.got>>}
          ELSE /\ q.ref.abs /\ q.role # "target"
               /\ Canonical(Beside(q, t.from)) = <<t.got>>
               /\ Inside(q, t.from) => kernel = <<>>
Listed ==
    LET last == call.host[Last(seen)] IN
    last.back = <<>> \/ (last.fmt = "vhd" /\ (call.use = "report" \/ ~call.diff))
\* The overlay's recorded parent, as the kernel finds it, is what commit
\* writes; only a parent the operator names may be there in its stead.
IntoParent ==
    LET back == call.host[Canonical(call.top)[1]].back IN
    \/ Canonical(Joined(Above(call.top), back[1])) \in {<<>>, target}
    \/ call.base # <<>> /\ target = Canonical(call.base[1]) /\ ~trail[1].written

\* Chain discovery answers from the allowlist alone and answers right: what
\* a reference resolves to is the file the kernel would open, whatever
\* links and ".." it is spelled with, or the stand-in a reader is allowed;
\* nothing outside the allowlist is looked at on the way; the chain has no
\* image twice and ends within the depth limit, at an image with no parent
\* unless the caller lists the chain or does not read such a parent; and
\* commit writes into the parent its overlay records, as the kernel finds
\* it from the overlay's directory.
Discovered ==
    /\ OnlyInside
    /\ \A i \in DOMAIN trail : KernelAgrees(trail[i])
    /\ IsInjective(seen)
    /\ dphase # "idle" => Len(seen) <= call.depth
    /\ answer = "ok" => Listed
    /\ answer = "ok" /\ call.use = "commit" => IntoParent
=============================================================================
