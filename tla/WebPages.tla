------------------------------ MODULE WebPages -------------------------------
(***************************************************************************)
(* The pages whose state lives in the browser.  body[data-fw-page] says    *)
(* which OpenHaldex page is open, and every initialiser but that page's    *)
(* returns at once; "scope" is the SignalScope page's table and editors,   *)
(* "api" what the address and the storage make of the API's base, "shell"  *)
(* the theme's menus around each of them.                                  *)
(***************************************************************************)
EXTENDS BehaviorBuilder, CurvePage, MapEditor, SetupPage, FirmwareApi, Shell,
        ScopeEditor

Pages == {"behavior", "curve", "map", "setup", "api", "shell", "scope"}

WebPagesVars ==
  <<pageVars, builderVars, curveVars, mapVars, setupVars, apiVars, shellVars,
    editorVars>>

WebPagesInit ==
  /\ page \in Pages
  /\ BuilderInit /\ CurveInit /\ MapInit /\ SetupInit /\ ApiInit /\ ShellInit
  /\ EditorInit /\ (page = "scope" => CallsInit(<<>>))

WebPagesNext ==
  /\ UNCHANGED page
  /\ IF page = "behavior" THEN BuilderNext ELSE UNCHANGED builderVars
  /\ IF page = "curve" THEN CurveNext ELSE UNCHANGED curveVars
  /\ IF page = "map" THEN MapNext ELSE UNCHANGED mapVars
  /\ IF page = "setup" THEN SetupNext ELSE UNCHANGED setupVars
  /\ IF page = "api" THEN ApiNext ELSE UNCHANGED apiVars
  /\ IF page = "shell" THEN ShellNext ELSE UNCHANGED shellVars
  /\ IF page = "scope" THEN EditorNext /\ UNCHANGED pageVars
     ELSE UNCHANGED editorVars

WebPagesSpec == WebPagesInit /\ [][WebPagesNext]_WebPagesVars
=============================================================================
