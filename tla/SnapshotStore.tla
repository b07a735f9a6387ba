---------------------------- MODULE SnapshotStore ----------------------------
(***************************************************************************)
(* What an image promises its user: the guest's disk and a list of named   *)
(* frozen copies of it.  Every operation takes effect at one instant; a    *)
(* crash leaves the image as it is or as it was when it was last flushed.  *)
(***************************************************************************)
EXTENDS Naturals, Sequences, FiniteSetsExt

CONSTANTS Guest,    \* guest clusters
          Values,   \* what a guest writes
          Names,    \* names of snapshots
          Start     \* the contents the image may start with

VARIABLES now,      \* [disk, snaps] as reads see it
          stable    \* [disk, snaps] as a crash leaves it

SInit == now \in Start /\ stable = now

NextId == IF now.snaps = <<>> THEN 1
          ELSE Max({now.snaps[k].id : k \in 1..Len(now.snaps)}) + 1

SWrite(g, v) ==
    /\ now' = [now EXCEPT !.disk[g] = v]
    /\ UNCHANGED stable

SCreate(n) ==
    /\ now' = [now EXCEPT !.snaps =
                 Append(@, [name |-> n, id |-> NextId, disk |-> now.disk])]
    /\ UNCHANGED stable

\* The first snapshot of that name.
SDelete(n) ==
    \E k \in 1..Len(now.snaps) :
        /\ now.snaps[k].name = n
        /\ \A x \in 1..(k - 1) : now.snaps[x].name # n
        /\ now' = [now EXCEPT !.snaps = SubSeq(@, 1, k - 1)
                                          \o SubSeq(@, k + 1, Len(@))]
        /\ UNCHANGED stable

\* The snapshot with that ID, or else the first of that name.
SRevert(a) ==
    \E k \in 1..Len(now.snaps) :
        /\ \/ now.snaps[k].id = a
           \/ /\ now.snaps[k].name = a
              /\ \A x \in 1..Len(now.snaps) : now.snaps[x].id # a
              /\ \A x \in 1..(k - 1) : now.snaps[x].name # a
        /\ now' = [now EXCEPT !.disk = now.snaps[k].disk]
        /\ UNCHANGED stable

SFlush == stable' = now /\ UNCHANGED now

SCrash == \E x \in {now, stable} : now' = x /\ stable' = x

SNext ==
    \/ \E g \in Guest, v \in Values : SWrite(g, v)
    \/ \E n \in Names : SCreate(n) \/ SDelete(n) \/ SRevert(n)
    \/ SFlush
    \/ SCrash

SSpec == SInit /\ [][SNext]_<<now, stable>>
=============================================================================
