--------------------------- MODULE MCSerialization ---------------------------
(***************************************************************************)
(* Instances of Serialization: commands a1 and a2 on the vdev va, b1 on    *)
(* vb.  A key is asked for again while its command is active or gone.      *)
(***************************************************************************)
EXTENDS Serialization

CONSTANTS va, vb, a1, a2, b1

VdevOf == [c \in Cmd |-> IF c = b1 THEN vb ELSE va]

\* All requesters of the driver block (built with CONN_MGR_ADV_FEATURE).
AllBlocking == {Cmd}

\* All block, or none does.
Uniform == {Cmd, {}}

\* The vdevs, each with its command, may be exchanged.
Exchange == {f \in Permutations(Vdev \cup Cmd) :
               \A c \in Cmd : f[c] \in Cmd /\ VdevOf[f[c]] = f[VdevOf[c]]}
=============================================================================
