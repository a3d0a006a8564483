------------------------ MODULE MCMonitorSupervisor ------------------------
(***************************************************************************)
(* Instance of MonitorSupervisor for TLC: two monitors, whose desktop is   *)
(* empty (also what enumerate() returns when it fails), has both, has both *)
(* with number and primary flag exchanged, or has one with another size;   *)
(* or the CCD lookup of one fails and its device name is its stable_id.    *)
(***************************************************************************)
EXTENDS MonitorSupervisor, TLC

CONSTANTS DisplayA, DisplayB, NameOfA

MCMonitors == {DisplayA, DisplayB, NameOfA}

Info(number, primary, handle, size) ==
  [number |-> number, primary |-> primary, handle |-> handle, size |-> size]

NoMonitors  == [m \in {} |-> None]
Both        == DisplayA :> Info(1, TRUE, 1, "hd") @@
               DisplayB :> Info(2, FALSE, 2, "hd")
Renumbered  == DisplayA :> Info(2, FALSE, 1, "hd") @@
               DisplayB :> Info(1, TRUE, 2, "hd")
OneResized  == DisplayA :> Info(1, TRUE, 1, "uhd")

LookupFails == NameOfA :> Info(1, TRUE, 1, "hd") @@
               DisplayB :> Info(2, FALSE, 2, "hd")

MCLayouts == {NoMonitors, Both, Renumbered, OneResized, LookupFails}

=============================================================================
