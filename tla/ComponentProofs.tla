--------------------------- MODULE ComponentProofs ---------------------------
(***************************************************************************)
(* The types of the components, for every value of the constants. Each     *)
(* follows from an inductive invariant of its component, which relates the *)
(* variables: what is in a queue, an answer or a snapshot must be typed    *)
(* for what it is stored in to stay so.                                    *)
(***************************************************************************)
EXTENDS ServerProofs, ClientProofs, WorkspaceProofs, ComponentTypes

(* The variables of every component keep their types, whatever the other   *)
(* components do (the code of each is named in its module): notes that are *)
(* shown, marked and edited are notes, the active view is one the          *)
(* configuration has, and counters and queues keep their bounds.           *)
THEOREM TypesHold ==
    (/\ ProjectionSpec /\ PresenceSpec /\ AccessSpec /\ ServerSpec /\ CaptureSpec /\ SignInSpec
     /\ TuiSpec /\ ConfigSpec /\ UiSpec /\ FilesSpec /\ PluginSpec /\ BrowserSignInSpec)
    => []TypesOK
<1>1. (/\ ProjectionTypeOK /\ PresenceTypeOK /\ AccessTypeOK /\ ServerTypeOK /\ CaptureTypeOK
       /\ SignInTypeOK /\ TuiTypeOK /\ ConfigTypeOK /\ UiTypeOK /\ FilesTypeOK
       /\ PluginTypeOK /\ BrowserSignInTypeOK)
      => TypesOK
  BY DEF TypesOK
<1> QED BY <1>1, ProjectionTyped, PresenceTyped, AccessTyped, ServerTyped, CaptureLimits,
           SignInTyped, TuiTyped, ConfigTyped, UiTyped, FilesTyped, PluginTyped,
           BrowserSignInTyped, PTL
==============================================================================
