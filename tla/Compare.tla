------------------------------ MODULE Compare ------------------------------
(***************************************************************************)
(* instar compare: the guest reads the same range of two chains, chunk by  *)
(* chunk, up to the smaller size, then looks for anything but zeros in the *)
(* rest of the larger image; the host turns the result into an exit code.  *)
(* The devices of both chains are numbered in one sequence, and both       *)
(* chains inflate into one staging buffer.                                 *)
(***************************************************************************)
EXTENDS ChainRead

CONSTANTS
    Pairs,      \* what may be compared
    MaxSector   \* MAX_SECTOR_SIZE: what a comparison buffer holds

(***************************************************************************)
(* A pair is a record: devs the devices, n how many of them are the first  *)
(* image's, size1 and size2 the virtual sizes, ss the sector size, odd the *)
(* offsets at which two stored units differ, strict the --strict flag.     *)
(***************************************************************************)
VARIABLES
    pair,     \* the pair
    off,      \* virtual_offset, or extra_offset
    staged,   \* the staging buffer
    result,   \* what send_compare_result carries, and the exit code
    cphase    \* "idle", "common", "extra", "sent", "done"

compareVars == <<pair, off, staged, result, cphase>>

NoMismatch == -1
\* CompareResult::new, with what the host makes of it.  failed says that no
\* comparison was made to its end.
NoResult == [identical |-> FALSE, at |-> NoMismatch, failed |-> FALSE, exit |-> NoMismatch]

Smaller(p) == Min({p.size1, p.size2})
Larger(p) == Max({p.size1, p.size2})
Granule(p, i) == IF p.devs[i].cs > 0 THEN p.devs[i].cs ELSE p.ss
\* The larger cluster of the two top images, as far as the buffers go.
ChunkSize(p) == Min({MaxSector, Max({Granule(p, 1), Granule(p, p.n + 1)})})

First(p) == SubSeq(p.devs, 1, p.n)
ReadFirst(p, o, n, s) == Read(First(p), 1, o, n, s)
ReadSecond(p, o, n, s) == Read(p.devs, p.n + 1, o, n, s)

\* What a stored unit holds: images store the same at the same offset, but
\* for the odd ones.
Text(p, side, cell) ==
    LET chain == IF side = 1 THEN First(p) ELSE p.devs
        top == IF side = 1 THEN 1 ELSE p.n + 1
        named(at) == CASE at = {} -> -1
                       [] at # {} -> IF side = 2 /\ Min(at) \in p.odd
                                     THEN 1000 + Min(at) ELSE 1 + Min(at)
    IN IF cell = Zero THEN 0
       ELSE named({v \in 0..(Larger(p) - 1) : ChainByte(chain, top, v) = cell})
Differ(p, a, b) == {x \in DOMAIN a : Text(p, 1, a[x]) # Text(p, 2, b[x])}

\* The staging buffer is forgotten before the second image is read.
ForgetNot(s) == s
Forget(s) == [s EXCEPT !.key = NoKey]

CompareInit ==
    /\ pair \in Pairs
    /\ off = 0
    /\ staged = FreshStaging
    /\ result = NoResult
    /\ cphase = "common"

\* The devices do not agree, or a chain's state cannot be set up: the empty
\* result is sent.
NotStarted ==
    /\ cphase = "common" /\ off = 0
    /\ result' = [result EXCEPT !.failed = TRUE]
    /\ cphase' = "sent"
    /\ UNCHANGED <<pair, off, staged>>

\* One chunk of the common range; bad is the image whose read fails for a
\* reason of its own, 0 for neither.
Compared(bad) ==
    LET n == Min({ChunkSize(pair), Smaller(pair) - off}) IN
    \E a \in {ReadFirst(pair, off, n, staged)} :
    \E b \in {ReadSecond(pair, off, n, Forget(a.st))} :
       IF bad # 0 \/ ~a.ok \/ ~b.ok
       THEN /\ result' = [result EXCEPT !.failed = TRUE]
            /\ cphase' = "sent"
            /\ UNCHANGED <<pair, off, staged>>
       ELSE \E d \in {Differ(pair, a.bytes, b.bytes)} :
            /\ staged' = b.st
            /\ off' = IF d = {} THEN off + n ELSE off
            /\ result' = IF d = {} THEN result ELSE [result EXCEPT !.at = off + Min(d) - 1]
            /\ cphase' = IF d = {} THEN cphase ELSE "sent"
            /\ UNCHANGED pair
CompareChunk ==
    /\ cphase = "common" /\ off < Smaller(pair)
    /\ \E bad \in 0..2 : Compared(bad)
CompareEnds ==
    /\ cphase = "common" /\ off >= Smaller(pair)
    /\ IF pair.size1 = pair.size2
       THEN cphase' = "sent" /\ result' = [result EXCEPT !.identical = TRUE]
       ELSE cphase' = "extra" /\ UNCHANGED result
    /\ UNCHANGED <<pair, off, staged>>

\* One chunk of the rest of the larger image.  A read that fails counts as a
\* mismatch.
Extra(bad) ==
    LET side == IF pair.size1 > pair.size2 THEN 1 ELSE 2
        n == Min({ChunkSize(pair), Larger(pair) - off})
    IN
    \E a \in {IF side = 1 THEN ReadFirst(pair, off, n, staged)
              ELSE ReadSecond(pair, off, n, staged)} :
    \E d \in {{x \in DOMAIN a.bytes : Text(pair, side, a.bytes[x]) # 0}} :
       LET lost == bad \/ ~a.ok IN
       IF lost \/ d # {}
       THEN /\ result' = [result EXCEPT !.at = IF lost THEN off ELSE off + Min(d) - 1,
                                        !.failed = lost]
            /\ cphase' = "sent"
            /\ UNCHANGED <<pair, off, staged>>
       ELSE off' = off + n /\ staged' = a.st /\ UNCHANGED <<pair, result, cphase>>
ExtraChunk ==
    /\ cphase = "extra" /\ off < Larger(pair)
    /\ \E bad \in BOOLEAN : Extra(bad)
ExtraEnds ==
    /\ cphase = "extra" /\ off >= Larger(pair)
    /\ result' = [result EXCEPT !.identical = TRUE]
    /\ cphase' = "sent"
    /\ UNCHANGED <<pair, off, staged>>

\* run_compare: exit 0 or 1; a strict comparison also wants equal sizes.
Verdict ==
    /\ cphase = "sent"
    /\ cphase' = "done"
    /\ result' = [result EXCEPT
         !.exit = IF result.identical /\ (pair.strict => pair.size1 = pair.size2)
                  THEN 0 ELSE 1]
    /\ UNCHANGED <<pair, off, staged>>
\* The machine fails, nothing was sent, or what was sent stands for an image
\* the guest refused: an error, which exits as a mismatch does.
NoAnswer ==
    /\ cphase \in {"common", "extra", "sent"}
    /\ cphase' = "done"
    /\ result' = [NoResult EXCEPT !.failed = TRUE, !.exit = 1]
    /\ UNCHANGED <<pair, off, staged>>

CompareNext ==
    NotStarted \/ CompareChunk \/ CompareEnds \/ ExtraChunk \/ ExtraEnds \/ Verdict \/ NoAnswer

\* The offsets at which the two images show a guest different bytes, the
\* shorter one read as zeros past its end.
Different ==
    {v \in 0..(Larger(pair) - 1) :
       LET a == IF v < pair.size1 THEN Text(pair, 1, ChainByte(First(pair), 1, v)) ELSE 0
           b == IF v < pair.size2 THEN Text(pair, 2, ChainByte(pair.devs, pair.n + 1, v)) ELSE 0
       IN a # b}

\* compare tells the truth: it exits 0 only for images a guest cannot tell
\* apart (and of equal size when strict), whatever was staged, split or
\* failed on the way; and a mismatch it reports without a failed read is the
\* first offset at which the images differ.
CompareExact ==
    cphase = "done" =>
      /\ result.exit = 0 => Different = {} /\ (pair.strict => pair.size1 = pair.size2)
      /\ result.exit = 1 /\ ~result.failed =>
           IF result.identical THEN pair.strict /\ pair.size1 # pair.size2
           ELSE Different # {} /\ result.at = Min(Different)
=============================================================================
