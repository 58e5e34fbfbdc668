------------------------------ MODULE MCDelivery ------------------------------
(***************************************************************************)
(* The delivery queue for TLC. Neither the rows nor the devices are told    *)
(* apart by anything but their name, so the safety run identifies states    *)
(* that differ by a renaming. The liveness run uses CrossPointDelivery      *)
(* itself: TLC's liveness check does not allow symmetry.                    *)
(***************************************************************************)
EXTENDS CrossPointDelivery, TLC

Symmetry == Permutations(Rows) \cup Permutations(Devices)

\* Deliveries that share a device meet an error and a crash in one behaviour,
\* deliveries to devices of their own only the one or the other.
Bound == faults + crashes <= 1 \/ \A r, s \in Rows : device[r] = device[s]
===============================================================================
