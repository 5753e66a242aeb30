---------------------------- MODULE ArtifactStore ----------------------------
(***************************************************************************)
(* What the registry promises of the coordinates it serves: a coordinate   *)
(* (name, version) is published at most once and then keeps its content.   *)
(***************************************************************************)
CONSTANTS Coordinates, Contents, NoRow

VARIABLE rows   \* the content a coordinate maps to

Init == rows = [c \in Coordinates |-> NoRow]

Publish(c, x) ==
  /\ rows[c] = NoRow
  /\ rows' = [rows EXCEPT ![c] = x]

Next == \E c \in Coordinates, x \in Contents : Publish(c, x)

Spec == Init /\ [][Next]_rows
=============================================================================
