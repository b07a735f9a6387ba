---------------------------- MODULE BenchProofs -----------------------------
(***************************************************************************)
(* Proofs about a bench: its growth leaves the image sound at every        *)
(* moment, and its requests lie within the image, for every geometry,      *)
(* image and request.                                                      *)
(***************************************************************************)
EXTENDS Bench, GrowthProofs, FiniteSetTheorems, WellFoundedInduction

-----------------------------------------------------------------------------
(* The growth *)

\* A set of numbers that is not empty has a least, and a bounded one a greatest.
LEMMA LeastExists ==
    ASSUME NEW T \in SUBSET Nat, T # {} PROVE \E x \in T : \A y \in T : x <= y
<1> DEFINE Less == {p \in Nat \X Nat : p[1] < p[2]}
<1>1. IsWellFoundedOn(Less, Nat)
  BY NatLessThanWellFounded, Zenon DEF OpToRel
<1>2. PICK x \in T : \A y \in T : ~(<<y, x>> \in Less)
  <2> HIDE DEF Less
  <2> QED BY <1>1, WFMin
<1>3. ASSUME NEW y \in T PROVE x <= y
  <2>1. x \in Nat /\ y \in Nat
    OBVIOUS
  <2>2. y < x => <<y, x>> \in Less
    BY <2>1
  <2> QED BY <1>2, <2>1, <2>2
<1> QED BY <1>3

\* MaxOf finds it.
LEMMA MaxOfIs ==
    ASSUME NEW n \in Nat, NEW S \in SUBSET (0..n), S # {}
    PROVE  MaxOf(S) \in S /\ \A y \in S : y <= MaxOf(S)
<1> DEFINE T == {n - y : y \in S}
<1>1. T \in SUBSET Nat /\ T # {}
  <2>1. \A y \in S : n - y \in Nat
    OBVIOUS
  <2>2. T \subseteq Nat
    BY <2>1
  <2>3. PICK z \in S : TRUE
    OBVIOUS
  <2>4. n - z \in T
    OBVIOUS
  <2> QED BY <2>2, <2>4
<1>2. PICK x \in T : \A y \in T : x <= y
  <2> HIDE DEF T
  <2> QED BY <1>1, LeastExists
<1>3. PICK z \in S : x = n - z
  BY <1>2
<1>4. ASSUME NEW y \in S PROVE y <= z
  <2>1. n - y \in T
    OBVIOUS
  <2>2. x <= n - y
    BY <1>2, <2>1
  <2> QED BY <1>3, <2>2
<1> QED BY <1>3, <1>4 DEF MaxOf

\* What setup finds in an image it accepts: what the image holds lies before the
\* file end and within what its blocks count.
LEMMA ImageFacts == ImagesFit
<1> SUFFICES ASSUME NEW im \in Images
             PROVE  /\ Blocks(im) \in 1..MaxBlocks /\ Blocks(im) <= im.rtN * RPC
                    /\ im.blocks \in [0..(Blocks(im) - 1) -> Nat \ {0}]
                    /\ Held(im) \subseteq 0..(Blocks(im) * EPB - 1)
                    /\ FileEnd(im) \in Nat /\ Held(im) \subseteq 0..(FileEnd(im) - 1)
  BY DEF ImagesFit
<1>1. WellFormed(im)
  BY ExecAssumption DEF ExecAssumption
<1>2. PICK n \in 1..MaxBlocks : /\ im.blocks \in [0..(n - 1) -> Nat \ {0}]
                                /\ n <= im.rtN * RPC
                                /\ \A c \in Held(im) : c < n * EPB
  BY <1>1 DEF WellFormed
<1>3. n \in Nat /\ EPB \in Nat \ {0} /\ n * EPB \in Nat
  BY PlanAssumption DEF PlanAssumption
<1>4. Blocks(im) = n
  <2>1. DOMAIN im.blocks = 0..(n - 1)
    BY <1>2
  <2> QED BY <1>3, <2>1, FS_Interval DEF Blocks
<1>5. /\ im.rt \in Nat \ {0} /\ im.rtN \in Nat \ {0} /\ im.l1 \in Nat /\ im.used \subseteq Nat
  BY <1>1 DEF WellFormed
<1>6. Held(im) \subseteq Nat
  BY <1>2, <1>5 DEF Held
<1>7. Held(im) \subseteq 0..(n * EPB - 1)
  BY <1>2, <1>3, <1>6
<1> DEFINE S == im.used \cup {0, im.rt + im.rtN - 1, im.l1}
                \cup {im.blocks[k] : k \in DOMAIN im.blocks}
<1>8. im.rt + im.rtN - 1 \in Held(im)
  BY <1>5 DEF Held
<1>9. S \subseteq Held(im) /\ 0 \in S /\ im.rt + im.rtN - 1 \in S
  BY <1>8 DEF Held
<1>10. S \in SUBSET (0..(n * EPB))
  <2> HIDE DEF S
  <2> QED BY <1>3, <1>7, <1>9
<1>11. MaxOf(S) \in S /\ \A y \in S : y <= MaxOf(S)
  <2> HIDE DEF S
  <2> QED BY <1>3, <1>9, <1>10, MaxOfIs
<1>12. FileEnd(im) = 1 + MaxOf(S)
  BY DEF FileEnd
<1>13. FileEnd(im) \in Nat /\ \A y \in S : y < FileEnd(im)
  <2>1. S \subseteq Nat
    BY <1>6, <1>9
  <2>2. MaxOf(S) \in Nat
    BY <1>11, <2>1
  <2>3. ASSUME NEW y \in S PROVE y < FileEnd(im)
    <3>1. y \in Nat /\ y <= MaxOf(S)
      BY <1>11, <2>1
    <3> HIDE DEF S
    <3> QED BY <1>12, <2>2, <3>1
  <2> HIDE DEF S
  <2> QED BY <1>12, <2>2, <2>3
<1>14. ASSUME NEW c \in Held(im) PROVE c \in 0..(FileEnd(im) - 1)
  <2>1. c \in S \/ c \in im.rt .. (im.rt + im.rtN - 1)
    BY DEF Held
  <2>2. CASE c \in S
    BY <1>6, <1>13, <2>2
  <2>3. CASE c \in im.rt .. (im.rt + im.rtN - 1)
    <3>1. im.rt + im.rtN - 1 < FileEnd(im)
      BY <1>9, <1>13
    <3> HIDE DEF S
    <3> QED BY <1>5, <1>13, <2>3, <3>1
  <2> QED BY <2>1, <2>2, <2>3
<1> QED BY <1>2, <1>4, <1>7, <1>13, <1>14


\* Setup reads the image as it is: what is staged is what is on the device.
LEMMA InitExec == Init => ExecInv
<1> SUFFICES ASSUME Init PROVE ExecInv
  OBVIOUS
<1>1. /\ image \in Images /\ count = Blocks(image) /\ dirty = {} /\ pc = "plan"
      /\ rt = [k \in Slot |-> IF k \in DOMAIN image.blocks THEN image.blocks[k] ELSE 0]
      /\ rc = [c \in 0 .. (NCluster * EPB) |-> IF c \in Held(image) THEN 1 ELSE 0]
      /\ dHdr = OldHdr /\ pHdr = {OldHdr}
  BY DEF Init, OldHdr
<1>2. /\ dRt = [c \in Cluster |-> IF c \in OldTable THEN RtAt(rt, c - image.rt) ELSE EmptyRt]
      /\ dBlk = [c \in Cluster |->
                   IF \E k \in DOMAIN image.blocks : image.blocks[k] = c
                   THEN BlockAt(rc, CHOOSE k \in DOMAIN image.blocks : image.blocks[k] = c)
                   ELSE NoBlock]
      /\ pRt = [c \in Cluster |-> {dRt[c]}] /\ pBlk = [c \in Cluster |-> {dBlk[c]}]
  BY DEF Init, OldTable
<1>3. /\ image.rt \in Nat \ {0} /\ image.rtN \in Nat \ {0}
      /\ Blocks(image) \in 1..MaxBlocks /\ FileEnd(image) \in Nat
  <2>1. WellFormed(image)
    BY <1>1, ExecAssumption DEF ExecAssumption
  <2>2. image.rt \in Nat \ {0} /\ image.rtN \in Nat \ {0}
    BY <2>1 DEF WellFormed
  <2> QED BY <1>1, <2>2, ImageFacts DEF ImagesFit
<1>4. PICK w \in 0..MaxWorst :
         in = [fileEnd |-> FileEnd(image), populated |-> count,
               rtCapacity |-> image.rtN * RPC, worst |-> w]
  BY DEF Init
<1>5. PlanInv
  <2>1. image.rtN * RPC \in Nat /\ w \in Nat /\ count \in 0..MaxBlocks
    <3>1. image.rtN * RPC \in Nat
      BY <1>3, Params
    <3>2. w \in Nat
      BY ExecAssumption DEF ExecAssumption
    <3>3. count \in 0..MaxBlocks
      BY <1>1, <1>3, Params
    <3> QED BY <3>1, <3>2, <3>3
  <2>2. in \in Input
    BY <1>3, <1>4, <2>1 DEF Input
  <2> QED BY <2>2, PlanStart DEF Init
<1>6. ShapeInv
  <2>1. /\ in.populated = Blocks(image) /\ in.fileEnd = FileEnd(image)
        /\ in.rtCapacity = image.rtN * RPC
    BY <1>1, <1>4
  <2> QED BY <1>1, <1>2, <2>1, ImageFacts DEF ShapeInv
<1>7. Fits
  BY <1>5, <1>6, Geometry
<1>8. count = in.populated /\ in.populated \in Nat /\ DOMAIN image.blocks = 0..(count - 1)
  BY <1>1, <1>4, <1>7 DEF Fits
<1>9. SizeInv
  BY <1>1, <1>8 DEF SizeInv, Ungrown
<1>10. Live = Held(image)
  BY <1>1 DEF Live, Ungrown, Moved
<1>11. count <= NCluster
  <2>1. 1 * count <= EPB * count
    BY <1>8, ScaleUp, Params
  <2>2. count * EPB \in Nat /\ count * EPB <= NCluster
    BY <1>7, <1>8, Params DEF Fits
  <2> QED BY <1>8, <2>1, <2>2, Params
<1>12. StagedInv
  <2>1. ASSUME NEW k \in 0..(count - 1) PROVE rt[k] = image.blocks[k] /\ k < in.populated
    <3>1. k \in Slot
      BY <1>8, <1>11, Params DEF Slot
    <3> QED BY <1>1, <1>8, <3>1
  <2> QED BY <1>1, <1>10, <2>1 DEF StagedInv
<1>13. Placed
  BY <1>5, <1>6, <1>9, <1>12, Placement
<1>14. \A k \in 0..(count - 1) : rt[k] = image.blocks[k]
  BY <1>8, <1>12 DEF StagedInv
<1>15. ASSUME NEW k \in 0..(count - 1) PROVE dBlk[rt[k]] = BlockAt(rc, k)
  <2>1. rt[k] \in Cluster /\ image.blocks[k] = rt[k]
    BY <1>13, <1>14 DEF Placed
  <2>2. \A j \in DOMAIN image.blocks : image.blocks[j] = rt[k] => j = k
    BY <1>7, <1>8, <2>1 DEF Fits
  <2>3. k \in DOMAIN image.blocks
    BY <1>8
  <2>4. (CHOOSE j \in DOMAIN image.blocks : image.blocks[j] = rt[k]) = k
    BY <2>1, <2>2, <2>3
  <2> QED BY <1>2, <2>1, <2>3, <2>4
<1>16. BlocksInv
  BY <1>1, <1>15 DEF BlocksInv
<1>17. HeaderInv
  BY <1>1 DEF HeaderInv
<1>18. Counted(Held(image))
  <2> SUFFICES ASSUME NEW c \in Held(image)
               PROVE  /\ dBlk[rt[c \div EPB]][c % EPB] = 1
                      /\ Fsync => \A b \in pBlk[rt[c \div EPB]] : b[c % EPB] = 1
    BY DEF Counted
  <2>1. dBlk[rt[c \div EPB]][c % EPB] = 1
    BY <1>1, <1>5, <1>6, <1>9, <1>10, <1>12, <1>16, DeviceCounts
  <2>2. c \in 0..(count * EPB - 1)
    BY <1>5, <1>6, <1>9, <1>12, LiveFits
  <2>3. rt[c \div EPB] \in Cluster
    BY <1>8, <1>13, <2>2, EntryAt DEF Placed
  <2> QED BY <1>2, <2>1, <2>3
<1>19. Named(image.rt, in.populated)
  <2> SUFFICES ASSUME NEW k \in 0..(count - 1)
               PROVE  /\ dRt[image.rt + k \div RPC][k % RPC] = rt[k]
                      /\ Fsync => \A t \in pRt[image.rt + k \div RPC] : t[k % RPC] = rt[k]
    BY <1>8 DEF Named
  <2>1. image.rt + k \div RPC \in Cluster
    BY <1>7, <1>8, TablesOnDevice
  <2>2. image.rtN * RPC \in Nat /\ count <= image.rtN * RPC
    <3>1. image.rtN * RPC \in Nat
      BY <1>3, Params
    <3> QED BY <1>7, <1>8, <3>1 DEF Fits
  <2>3. k \in Nat /\ k < image.rtN * RPC
    BY <1>8, <2>2
  <2>4. image.rt + k \div RPC \in OldTable
    BY <1>3, <2>3, SlotCluster DEF OldTable
  <2>5. /\ k \div RPC \in Nat /\ k % RPC \in 0..(RPC - 1)
        /\ k = (k \div RPC) * RPC + (k % RPC)
    BY <2>3, DivMod, Params
  <2>6. PICK q \in Nat, x \in RtIndex : q = k \div RPC /\ x = k % RPC /\ k = q * RPC + x
    BY <2>5 DEF RtIndex
  <2>7. (image.rt + q) - image.rt = q
    BY <1>3
  <2>8. dRt[image.rt + q] = RtAt(rt, q)
    BY <1>2, <2>1, <2>4, <2>6, <2>7
  <2>9. dRt[image.rt + q][x] = rt[k]
    BY <2>6, <2>8 DEF RtAt
  <2>10. pRt[image.rt + q] = {dRt[image.rt + q]}
    BY <1>2, <2>1, <2>6
  <2> QED BY <2>6, <2>9, <2>10
<1>20. CountsInv /\ TablesInv
  BY <1>1, <1>18, <1>19 DEF CountsInv, TablesInv
<1>21. Recoverable
  BY <1>1, <1>5, <1>6, <1>9, <1>12, <1>17, <1>20, CrashSafe DEF Going
<1> QED BY <1>5, <1>6, <1>9, <1>12, <1>16, <1>17, <1>20, <1>21 DEF ExecInv

\* Of n counts, those past the clusters in use are free.
LEMMA RoomLeft ==
    ASSUME NEW n \in Nat, NEW e \in Nat, NEW w \in Nat, e + w <= n, NEW S \in SUBSET (0..(e - 1)),
           \A c \in 0..(n - 1) : rc[c] = IF c \in S THEN 1 ELSE 0
    PROVE  Cardinality({c \in 0..(n - 1) : rc[c] = 0}) >= w
<1> DEFINE Z == {c \in 0..(n - 1) : rc[c] = 0}
<1>1. e..(n - 1) \subseteq Z
  OBVIOUS
<1>2. IsFiniteSet(0..(n - 1)) /\ Z \subseteq 0..(n - 1)
  BY FS_Interval
<1>3. IsFiniteSet(Z)
  <2> HIDE DEF Z
  <2> QED BY <1>2, FS_Subset
<1>4. Cardinality(e..(n - 1)) <= Cardinality(Z)
  <2> HIDE DEF Z
  <2> QED BY <1>1, <1>3, FS_Subset
<1>5. Cardinality(e..(n - 1)) = n - e
  <2>1. e \in Int /\ n - 1 \in Int
    OBVIOUS
  <2>2. Cardinality(e..(n - 1)) = IF e > n - 1 THEN 0 ELSE (n - 1) - e + 1
    BY <2>1, FS_Interval
  <2> QED BY <2>2
<1>6. Cardinality(Z) \in Nat
  <2> HIDE DEF Z
  <2> QED BY <1>3, FS_CardinalityType
<1> HIDE DEF Z
<1>7. Cardinality(Z) >= w
  BY <1>4, <1>5, <1>6
<1> QED BY <1>7 DEF Z

\* What a growth that succeeds leaves is what GrownExact says.
LEMMA DoneExact == ExecInv => GrownExact
<1> SUFFICES ASSUME ExecInv, pc = "done" PROVE GrownExact
  BY DEF GrownExact
<1>1. Fits /\ Placed /\ plan = "ok"
  BY Geometry, Placement DEF ExecInv, SizeInv
<1>2. /\ count \in Nat /\ in.populated \in Nat /\ in.fileEnd \in Nat /\ in.worst \in Nat
      /\ newRt \in Nat /\ newBlocks \in Nat /\ needed \in Nat /\ count * EPB \in Nat
  BY <1>1, Params DEF Fits, Placed
<1>3. \A k \in 0 .. (count - 1) : /\ dRt[Holder(dHdr, k)][k % RPC] = rt[k]
                                  /\ dBlk[rt[k]] = BlockAt(rc, k)
  BY DEF ExecInv, TablesInv, BlocksInv
<1>4. \A c \in 0..(count * EPB - 1) : rc[c] = IF c \in Live THEN 1 ELSE 0
  BY LiveFits DEF ExecInv, StagedInv
<1> DEFINE B == {rt[k] : k \in 0..(count - 1)}
           OB == {image.blocks[k] : k \in 0..(in.populated - 1)}
<1>5. \A k \in 0..(count - 1) : rt[k] = IF k < in.populated THEN image.blocks[k]
                                        ELSE in.fileEnd + newRt + (k - in.populated)
  BY DEF ExecInv, StagedInv, BlockHost
<1>6. DOMAIN image.blocks = 0..(in.populated - 1) /\ in.populated <= count
  BY <1>1 DEF Fits, Placed
<1>7. /\ InUse(OldHdr) = Held(image)
      /\ Held(image) = {0, image.l1} \cup image.used \cup OldTable \cup OB
      /\ InUse(NewHdr) = {0, image.l1} \cup image.used
                         \cup in.fileEnd..(in.fileEnd + newRt - 1) \cup OB
  BY <1>6 DEF InUse, OldHdr, NewHdr, Held, OldTable
<1>8. CASE newBlocks = 0
  <2>1. /\ count = in.populated /\ dHdr = OldHdr /\ Live = Held(image)
    BY <1>8 DEF ExecInv, SizeInv, Ungrown, HeaderInv, Live, Moved
  <2>2. B = OB
    <3>1. \A k \in 0..(count - 1) : rt[k] = image.blocks[k]
      <4>1. \A k \in 0..(count - 1) : k < in.populated
        BY <1>2, <2>1
      <4> QED BY <1>5, <4>1
    <3>2. 0..(count - 1) = 0..(in.populated - 1)
      BY <2>1
    <3> QED BY <3>1, <3>2
  <2>3. Live = InUse(dHdr) \cup B
    <3> HIDE DEF B, OB
    <3> QED BY <1>7, <2>1, <2>2
  <2>4. in.fileEnd + in.worst <= count * EPB
    <3>1. in.fileEnd + in.worst + newRt + newBlocks <= needed * EPB
      BY <1>1 DEF ExecInv, PlanInv, PlanCovers
    <3>2. needed <= in.populated
      BY <1>1, <1>2, <1>8 DEF ExecInv, PlanInv, BlocksFor
    <3>3. needed * EPB <= count * EPB /\ needed * EPB \in Nat
      BY <1>2, <2>1, <3>2, ScaleUp, Params
    <3> QED BY <1>2, <3>1, <3>3
  <2>5. Live \subseteq 0..(in.fileEnd - 1)
    BY <1>1, <2>1 DEF Fits
  <2>6. Cardinality({c \in 0 .. (count * EPB - 1) : rc[c] = 0}) >= in.worst
    BY <1>2, <1>4, <2>4, <2>5, RoomLeft
  <2> QED BY <1>3, <1>4, <2>3, <2>6 DEF GrownExact
<1>9. CASE newBlocks # 0
  <2>1. /\ newBlocks > 0 /\ count = needed /\ Room
        /\ dHdr = IF Relocating THEN NewHdr ELSE OldHdr
        /\ Live = (Held(image) \cup Structures) \ (IF Relocating THEN OldTable ELSE {})
    BY <1>1, <1>2, <1>9, RoomFor DEF ExecInv, SizeInv, Ungrown, HeaderInv, Live, Moved
  <2>2. count = in.populated + newBlocks
    BY <2>1 DEF Room
  <2> DEFINE NB == (in.fileEnd + newRt)..(in.fileEnd + newRt + newBlocks - 1)
  <2>3. B = OB \cup NB
    <3>1. ASSUME NEW k \in 0..(count - 1) PROVE rt[k] \in OB \cup NB
      <4>1. CASE k < in.populated
        BY <1>2, <1>5, <4>1
      <4>2. CASE ~(k < in.populated)
        BY <1>2, <1>5, <2>2, <4>2
      <4> QED BY <4>1, <4>2
    <3>2. ASSUME NEW k \in 0..(in.populated - 1) PROVE image.blocks[k] \in B
      <4>1. k \in 0..(count - 1) /\ k < in.populated
        BY <1>2, <2>2
      <4> QED BY <1>5, <4>1
    <3>3. ASSUME NEW c \in NB PROVE c \in B
      <4> DEFINE k == c - in.fileEnd - newRt + in.populated
      <4>1. k \in 0..(count - 1) /\ ~(k < in.populated)
        BY <1>2, <2>2
      <4>2. rt[k] = in.fileEnd + newRt + (k - in.populated)
        BY <1>5, <4>1
      <4>3. rt[k] = c
        BY <1>2, <4>2
      <4> HIDE DEF k
      <4> QED BY <4>1, <4>3
    <3> QED BY <3>1, <3>2, <3>3
  <2>4. Structures = in.fileEnd..(in.fileEnd + newRt - 1) \cup NB
    BY <1>2 DEF Structures
  <2>5. OldTable \cap (({0, image.l1} \cup image.used) \cup OB \cup Structures) = {}
    <3>1. OldTable \cap ({0, image.l1} \cup image.used) = {} /\ OldTable \cap OB = {}
      BY <1>1 DEF Fits
    <3>2. OldTable \subseteq 0..(in.fileEnd - 1)
      <4>1. OldTable \subseteq Held(image)
        BY DEF OldTable, Held
      <4> QED BY <1>1, <4>1 DEF Fits
    <3>3. OldTable \cap Structures = {}
      BY <1>2, <3>2 DEF Structures
    <3> HIDE DEF OB
    <3> QED BY <3>1, <3>3
  <2>6. Live = InUse(dHdr) \cup B
    <3>1. CASE Relocating
      <4> HIDE DEF B, OB, NB
      <4> QED BY <1>7, <2>1, <2>3, <2>4, <2>5, <3>1
    <3>2. CASE ~Relocating
      <4>1. in.fileEnd..(in.fileEnd + newRt - 1) = {}
        BY <1>2, <3>2 DEF Relocating
      <4> HIDE DEF B, OB, NB
      <4> QED BY <1>7, <2>1, <2>3, <2>4, <3>2, <4>1
    <3> QED BY <3>1, <3>2
  <2>7. Live \subseteq 0..(in.fileEnd + newRt + newBlocks - 1)
    <3>1. Held(image) \subseteq 0..(in.fileEnd - 1)
      BY <1>1 DEF Fits
    <3>2. Held(image) \cup Structures \subseteq 0..(in.fileEnd + newRt + newBlocks - 1)
      BY <1>2, <3>1 DEF Structures
    <3> QED BY <2>1, <3>2
  <2>8. (in.fileEnd + newRt + newBlocks) + in.worst <= count * EPB
    <3>1. in.fileEnd + in.worst + newRt + newBlocks <= count * EPB
      BY <2>1 DEF Room
    <3> QED BY <1>2, <3>1
  <2>9. Cardinality({c \in 0 .. (count * EPB - 1) : rc[c] = 0}) >= in.worst
    <3>1. PICK e \in Nat, n \in Nat : e = in.fileEnd + newRt + newBlocks /\ n = count * EPB
      BY <1>2
    <3>2. /\ e + in.worst <= n /\ Live \in SUBSET (0..(e - 1))
          /\ \A c \in 0..(n - 1) : rc[c] = IF c \in Live THEN 1 ELSE 0
      <4>1. e + in.worst <= n
        BY <2>8, <3>1
      <4>2. Live \in SUBSET (0..(e - 1))
        <5>1. e - 1 = in.fileEnd + newRt + newBlocks - 1
          BY <1>2, <3>1
        <5> QED BY <2>7, <5>1
      <4>3. \A c \in 0..(n - 1) : rc[c] = IF c \in Live THEN 1 ELSE 0
        BY <1>4, <3>1, Zenon
      <4> QED BY <4>1, <4>2, <4>3
    <3>3. Cardinality({c \in 0..(n - 1) : rc[c] = 0}) >= in.worst
      BY <1>2, <3>2, RoomLeft
    <3> QED BY <3>1, <3>3
  <2> QED BY <1>3, <1>4, <2>6, <2>9 DEF GrownExact
<1> QED BY <1>8, <1>9

\* The growth's part of a bench, or of another caller's run, is all that
\* touches its state.
LEMMA BenchGrowth ==
    /\ BenchInit => ExecInv
    /\ ExecInv /\ [BenchNext]_allVars => ExecInv'
<1>1. BenchInit => ExecInv
  BY InitExec DEF BenchInit
<1>2. ASSUME [BenchNext]_allVars PROVE [Next]_vars
  <2>1. CASE Growing
    BY <2>1 DEF Growing
  <2>2. CASE UNCHANGED allVars \/ Over
    BY <2>2 DEF allVars, Over
  <2>3. CASE RefusesArgs \/ Admitted \/ NotAdmitted \/ Grown \/ Overrun
    BY <2>3 DEF RefusesArgs, Admitted, NotAdmitted, Grown, Overrun
  <2>4. CASE Moves \/ MoveFails \/ FillFails \/ WindowFails
    BY <2>4 DEF Moves, MoveFails, FillFails, WindowFails
  <2>5. CASE WritesWindow
    BY <2>5 DEF WritesWindow
  <2>6. CASE Completes \/ Flushes \/ Finishes
    BY <2>6 DEF Completes, Flushes, Finishes
  <2> QED BY <1>2, <2>1, <2>2, <2>3, <2>4, <2>5, <2>6 DEF BenchNext
<1> QED BY <1>1, <1>2, NextExec

\* On a device with an fsync, whatever a power cut leaves of a growth at any
\* moment, a write cut short or a failed fsync included, every cluster the image
\* uses is counted: the order of grow_refcounts (blocks, table, fsync, header,
\* fsync, free) never leaves one to be allocated twice, for every geometry,
\* image and plan.
THEOREM GrowthCrashSafe == ASSUME Fsync PROVE BenchSpec => []CrashCounted
<1>1. ExecInv => CrashCounted
  BY DEF ExecInv, Recoverable
<1> QED BY BenchGrowth, <1>1, PTL DEF BenchSpec

\* A growth that grow_refcounts reports as done has written exactly the staged
\* table and blocks, counts what is in use and nothing else, and leaves as many
\* free clusters as the run may allocate; with or without an fsync.
THEOREM GrowthExact == BenchSpec => []GrownExact
BY BenchGrowth, DoneExact, PTL DEF BenchSpec

\* The plan that setup accepts covers the image it has read, the run, and the
\* structures it adds.
THEOREM GrowthPlanned == BenchSpec => []PlanCovers
<1>1. ExecInv => PlanCovers
  BY DEF ExecInv, PlanInv
<1> QED BY BenchGrowth, <1>1, PTL DEF BenchSpec

-----------------------------------------------------------------------------
(* The schedule of a bench *)

\* A request that fits is followed by one that fits: next_offset, whatever
\* the step.
LEMMA WrapFits ==
    ASSUME NEW j \in Job, NEW cur \in Nat, cur + j.bufsize <= j.size
    PROVE  /\ NextOffset(j, cur) \in Nat
           /\ NextOffset(j, cur) + j.bufsize <= j.size
<1>1. j.size \in Nat /\ j.bufsize \in Nat /\ EffectiveStep(j) \in Nat
  BY DEF Job, EffectiveStep
<1>2. CASE j.size <= j.bufsize
  BY <1>1, <1>2 DEF NextOffset
<1>3. CASE ~(j.size <= j.bufsize)
  <2> DEFINE m == j.size - j.bufsize
             x == cur + EffectiveStep(j)
  <2>1. m \in Nat \ {0} /\ x \in Nat
    BY <1>1, <1>3
  <2>2. x % m \in 0 .. (m - 1)
    BY <2>1
  <2>3. NextOffset(j, cur) = x % m
    BY <1>3 DEF NextOffset
  <2>4. QED
    BY <1>1, <2>1, <2>2, <2>3
<1>4. QED
  BY <1>2, <1>3

\* Once a request has been completed the schedule's next offset fits.
Fitting ==
    /\ job \in Job /\ next \in Nat /\ completed \in Nat
    /\ completed > 0 => next + job.bufsize <= job.size
    /\ LaterFit

\* The later requests of a bench never leave the image, so a run that ends
\* with a request past the end has completed none: what the EOF check of the
\* request loops says of next_offset.
THEOREM RequestsFit == BenchSpec => []LaterFit
<1>1. BenchInit => Fitting
  <2> SUFFICES ASSUME BenchInit PROVE Fitting
    OBVIOUS
  <2>1. job \in Job
    BY BenchAssumption DEF BenchInit
  <2>2. next \in Nat /\ completed = 0
    BY <2>1 DEF BenchInit, Job
  <2>3. QED
    BY <2>1, <2>2 DEF Fitting, LaterFit
<1>2. Fitting /\ [BenchNext]_allVars => Fitting'
  <2> SUFFICES ASSUME Fitting, [BenchNext]_allVars PROVE Fitting'
    OBVIOUS
  <2>1. CASE Completes
    <3>1. /\ job' = job /\ completed' = completed + 1
          /\ next + job.bufsize <= job.size /\ next' = NextOffset(job, next)
          /\ bphase' # "overrun"
      BY <2>1 DEF Completes, ReqEnd
    <3>2. next' \in Nat /\ next' + job.bufsize <= job.size
      BY <3>1, WrapFits DEF Fitting
    <3>3. QED
      BY <3>1, <3>2 DEF Fitting, LaterFit
  <2>2. CASE Overrun
    <3>1. UNCHANGED <<job, next, completed>> /\ next + job.bufsize > job.size
      BY <2>2 DEF Overrun, ReqEnd
    <3>2. completed = 0
      BY <3>1 DEF Fitting, Job
    <3>3. QED
      BY <3>1, <3>2 DEF Fitting, LaterFit
  <2>3. CASE /\ UNCHANGED <<job, next, completed>>
             /\ bphase' \in {bphase, "refused", "setup", "run", "failed", "done",
                             "exhausted"}
    BY <2>3 DEF Fitting, LaterFit
  <2>4. CASE RefusesArgs
    BY <2>4, <2>3 DEF RefusesArgs, Ends
  <2>5. CASE Admitted
    BY <2>5, <2>3 DEF Admitted
  <2>6. CASE NotAdmitted
    BY <2>6, <2>3 DEF NotAdmitted, Ends
  <2>7. CASE Growing
    BY <2>7, <2>3 DEF Growing, benchVars
  <2>8. CASE Grown
    BY <2>8, <2>3 DEF Grown, Ends
  <2>9. CASE Moves \/ MoveFails
    BY <2>9, <2>3 DEF Moves, MoveFails, Ends
  <2>10. CASE WritesWindow
    BY <2>10, <2>3 DEF WritesWindow
  <2>11. CASE FillFails \/ WindowFails
    BY <2>11, <2>3 DEF FillFails, WindowFails, Ends
  <2>12. CASE Flushes
    BY <2>12, <2>3 DEF Flushes, Ends
  <2>13. CASE Finishes
    BY <2>13, <2>3 DEF Finishes, Ends
  <2>14. CASE Over \/ UNCHANGED allVars
    BY <2>14, <2>3 DEF Over, allVars, benchVars
  <2>15. QED
    BY <2>1, <2>2, <2>4, <2>5, <2>6, <2>7, <2>8, <2>9, <2>10, <2>11, <2>12,
       <2>13, <2>14 DEF BenchNext
<1>3. Fitting => LaterFit
  BY DEF Fitting
<1>4. QED
  BY <1>1, <1>2, <1>3, PTL DEF BenchSpec
=============================================================================
