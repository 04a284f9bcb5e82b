---------------------------- MODULE ComponentTypes ----------------------------
(* The components that keep state of their own beside the replicated records, and what *)
(* their variables hold.                                                                *)
EXTENDS Projection, Presence, AccessControl, ServerLifecycle, UrlCapture, NativeSignIn,
        TerminalApp, WorkspaceConfig, BrowserUi, ContentFiles, PluginRun, BrowserSignIn

\* The variables of every component keep their types.
TypesOK ==
    /\ ProjectionTypeOK /\ PresenceTypeOK /\ AccessTypeOK /\ ServerTypeOK /\ CaptureTypeOK
    /\ SignInTypeOK /\ TuiTypeOK /\ ConfigTypeOK /\ UiTypeOK /\ FilesTypeOK
    /\ PluginTypeOK /\ BrowserSignInTypeOK
===============================================================================
