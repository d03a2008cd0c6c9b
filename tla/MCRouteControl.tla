--------------------------- MODULE MCRouteControl ---------------------------
(***************************************************************************)
(* Instances of RouteControl for TLC.  The backend of m2 has the name of   *)
(* its model, that of m1 has not.                                          *)
(***************************************************************************)
EXTENDS RouteControl

CONSTANTS m1, m2

MCRouteOf == [m \in Models |-> IF m = m1 THEN 1 ELSE 2]
MCOriginal == [m \in Models |-> IF m = m1 THEN "b1" ELSE "m2"]
MCNameOf == [m \in Models |-> IF m = m1 THEN "m1" ELSE "m2"]
MCReroutes == {[source |-> m1, target |-> m2]}

=============================================================================
