------------------------------- MODULE Amend -------------------------------
(***************************************************************************)
(* amend (operations/amend, crates/amend): the compatibility version of a  *)
(* qcow2 image and its lazy-refcounts flag, changed by rewriting the       *)
(* header.  A version 2 header has no feature words: where they would be,  *)
(* its extensions begin, so a change of version moves the extensions and   *)
(* the backing name, and loses the autoclear bits.                         *)
(*                                                                         *)
(* Left out: refcounts of another width than 16 bits and the incompatible  *)
(* features that block a downgrade; extensions and backing names that do   *)
(* not fit into the sector of the header (README).                         *)
(***************************************************************************)
EXTENDS Image

CONSTANT Amends   \* what may be asked: compat 2, 3 or 0, and the lazy flag

TargetVersion(h, r) == IF r.compat = 0 THEN h.ver ELSE r.compat
TargetLazy(h, r) ==
    CASE h.ver = 3 /\ TargetVersion(h, r) = 2 -> FALSE
      [] r.lazy = "keep" -> h.lazy
      [] OTHER -> r.lazy = "on"

\* The refusals of plan_amend_qcow2.
AmendOK(h, r) == ~h.corrupt /\ ~(r.lazy = "on" /\ TargetVersion(h, r) = 2)

\* rebuild_cross_version: fields and extensions are carried over, the
\* feature words are not.
Rebuilt(h, r) ==
    [h EXCEPT !.ver = TargetVersion(h, r), !.lazy = TargetLazy(h, r), !.auto = FALSE]

Amended(h, r) ==
    IF TargetVersion(h, r) = h.ver THEN [h EXCEPT !.lazy = TargetLazy(h, r)] ELSE Rebuilt(h, r)

\* run_amend: nothing is written, nor flushed, when nothing changes.
AmendProg(m, r) ==
    IF Amended(m.hdr, r) = m.hdr THEN <<>> ELSE HdrStep(Amended(m.hdr, r)) \o Sync

Amend(r) ==
    /\ Idle
    /\ AmendOK(mem.hdr, r)
    /\ Begin("amend", r, AmendProg(mem, r))
=============================================================================
