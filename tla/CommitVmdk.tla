----------------------------- MODULE CommitVmdk -----------------------------
(***************************************************************************)
(* The vmdk runner of the commit guest.  Grain tables have no refcounts:   *)
(* an overlay grain is written over the backing's grain, or appended past  *)
(* what the guest takes for the end of the backing file.                   *)
(* Positions on the backing device are in grains.                          *)
(***************************************************************************)
EXTENDS Integers

CONSTANTS NGrain,     \* overlay_grain_count
          Entries,    \* num_gtes_per_gt
          FileSize,   \* of the backing file
          MinHint,    \* the least capacity the host exposes (1 GiB)
          Overlays    \* grain table entries of the overlay to start from

Grain == 0..(NGrain - 1)
Table == 0..((NGrain - 1) \div Entries)
TableOf(g) == g \div Entries
Kind == {"none", "data", "zeroed"}

\* run_commit: a hint large enough for the writes past the end of the file.
Capacity == IF 2 * FileSize > MinHint THEN 2 * FileSize ELSE MinHint

VARIABLES ov,       \* the overlay's grain tables on its device
          gd,       \* tables the backing has
          gt,       \* the backing's grain table entries on its device, 0 none
          data,     \* contents of the backing's grains
          want,     \* what the guest saw before commit
          sov, sgt, \* staged entries
          dirty,    \* staged backing tables to write back
          next,     \* next_grain_sector
          i, pc

device == <<ov, gd, gt, data>>
vars == <<device, want, sov, sgt, dirty, next, i, pc>>

OverlayData(g) == 10 + g
\* A table entry of 1 names the sector after the header.
HeaderData == 98
BackingView(g) == IF gt[g] = 0 THEN 0 ELSE data[gt[g]]
ChainRead(g) == CASE ov[g] = "none" -> BackingView(g)
                  [] ov[g] = "zeroed" -> 0
                  [] ov[g] = "data" -> OverlayData(g)

\* A grain the backing holds lies in its file, under a table.
Init ==
    /\ ov \in Overlays
    /\ gd \in SUBSET Table
    /\ gt \in [Grain -> 0..(FileSize - 1)]
    /\ \A g \in Grain : gt[g] # 0 => TableOf(g) \in gd
    /\ \A g, h \in Grain : gt[g] = gt[h] /\ gt[g] # 0 => g = h
    /\ data = [x \in 1..(Capacity - 1) |->
                 IF x < FileSize THEN 20 + x ELSE 0]
    /\ want = [g \in Grain |-> ChainRead(g)]
    /\ sov = ov /\ sgt = gt /\ dirty = {} /\ i = 0 /\ pc = "merge"
    \* BackingGrainAllocationState::at_eof(get_output_capacity)
    /\ next = Capacity

Unchanged == UNCHANGED <<gd, want, sov>>

Merging == pc = "merge" /\ i < NGrain /\ sov[i] # "none" /\ TableOf(i) \in gd

\* Nothing in the overlay, or no table in the backing to hold it.
Skip ==
    /\ pc = "merge" /\ i < NGrain
    /\ sov[i] = "none" \/ TableOf(i) \notin gd
    /\ i' = i + 1
    /\ UNCHANGED <<device, want, sov, sgt, dirty, next, pc>>

\* The overlay's bytes at the entry's sector; a zeroed entry is not singled out.
Bytes == IF sov[i] = "zeroed" THEN HeaderData ELSE OverlayData(i)

Overwrite ==
    /\ Merging /\ sgt[i] # 0
    /\ data' = [data EXCEPT ![sgt[i]] = Bytes]
    /\ i' = i + 1
    /\ UNCHANGED <<ov, gt, sgt, dirty, next, pc>> /\ Unchanged

\* The entry is staged first; the device rejects what is past its capacity.
Append ==
    /\ Merging /\ sgt[i] = 0
    /\ sgt' = [sgt EXCEPT ![i] = next]
    /\ dirty' = dirty \cup {TableOf(i)}
    /\ next' = next + 1
    /\ data' = IF next \in DOMAIN data THEN [data EXCEPT ![next] = Bytes] ELSE data
    /\ pc' = IF next < Capacity THEN "merge" ELSE "rejected"
    /\ i' = IF next < Capacity THEN i + 1 ELSE i
    /\ UNCHANGED <<ov, gt>> /\ Unchanged

\* All dirty tables, then the clear pass.
FlushTables ==
    /\ pc = "merge" /\ i = NGrain
    /\ gt' = [g \in Grain |-> IF TableOf(g) \in dirty THEN sgt[g] ELSE gt[g]]
    /\ dirty' = {} /\ i' = 0 /\ pc' = "clear"
    /\ UNCHANGED <<ov, data, sgt, next>> /\ Unchanged

\* The merge loop's skip predicate, mirrored.
Committed(g) == sov[g] # "none" /\ TableOf(g) \in gd

ClearStep ==
    /\ pc = "clear" /\ i < NGrain
    /\ ov' = IF Committed(i) THEN [ov EXCEPT ![i] = "none"] ELSE ov
    /\ i' = i + 1
    /\ UNCHANGED <<gt, data, sgt, dirty, next, pc>> /\ Unchanged

Done ==
    /\ pc = "clear" /\ i = NGrain
    /\ pc' = "ok"
    /\ UNCHANGED <<device, want, sov, sgt, dirty, next, i>>

\* A device error, or a killed process.
Stop ==
    /\ pc \in {"merge", "clear"}
    /\ pc' = "failed"
    /\ UNCHANGED <<device, want, sov, sgt, dirty, next, i>>

Next == Skip \/ Overwrite \/ Append \/ FlushTables \/ ClearStep \/ Done \/ Stop
Spec == Init /\ [][Next]_vars
-----------------------------------------------------------------------------
\* Reading through the overlay returns the same bytes during and after commit:
\* a grain is cleared only if the backing has it.
ChainView == \A g \in Grain : ChainRead(g) = want[g]

=============================================================================
