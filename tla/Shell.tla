-------------------------------- MODULE Shell --------------------------------
(***************************************************************************)
(* The shell of every page (data/assets/js/config.js and the               *)
(* ThemeCustomizer of data/assets/js/app.js): the size of the side menu,   *)
(* which follows the width of the window, the class and the backdrop of a  *)
(* menu that is opened over a page, and the configuration that survives a  *)
(* reload in the session storage.  Of the settings that only set an        *)
(* attribute, the theme stands for all.                                    *)
(*                                                                         *)
(* A definition named ...Mutant is a faulty version of the one after it,   *)
(* kept to show that a property notices the fault; nothing uses it.        *)
(***************************************************************************)
EXTENDS PageCalls

Widths == {"narrow", "middle", "wide"}   \* up to 767, up to 1140, and more
Sizes == {"default", "condensed", "full"}
Themes == {"light", "dark"}
Modes == {"fluid", "boxed"}
DefaultConfig == [size |-> "default", theme |-> "dark", mode |-> "fluid"]

VARIABLES
  width,     \* window.innerWidth
  config,    \* the customizer's config
  session,   \* __CONFIG__ in the session storage: <<>> or the one stored
  shown,     \* the attributes of the html element
  enabled,   \* its class sidebar-enable
  backdrops  \* the elements custom-backdrop

shellVars == <<width, config, session, shown, enabled, backdrops>>

-----------------------------------------------------------------------------
(* setSwitchFromConfig stores the config with every change that is saved.  *)
Saves(new) == config' = new /\ session' = <<new>>
HideBackdrop == backdrops' = IF backdrops > 0 THEN backdrops - 1 ELSE 0

(* _adjustLayout                                                           *)
AdjustLayoutMutant(w, new, attributes) ==
  CASE w = "narrow" ->
         /\ shown' = [attributes EXCEPT !.size = "full"]
         /\ enabled' = FALSE /\ UNCHANGED backdrops
    [] w = "middle" ->
         /\ shown' = [attributes EXCEPT !.size = IF new.size # "full" THEN "condensed" ELSE @]
         /\ HideBackdrop /\ UNCHANGED enabled
    [] w = "wide" ->
         /\ shown' = [attributes EXCEPT !.size = new.size, !.mode = new.mode]
         /\ HideBackdrop /\ UNCHANGED enabled
AdjustLayout(w, new, attributes) ==
  CASE w = "narrow" ->
         /\ shown' = [attributes EXCEPT !.size = "full"]
         /\ enabled' = FALSE /\ HideBackdrop
    [] w = "middle" ->
         /\ shown' = [attributes EXCEPT !.size = IF new.size # "full" THEN "condensed" ELSE @]
         /\ HideBackdrop /\ UNCHANGED enabled
    [] w = "wide" ->
         /\ shown' = [attributes EXCEPT !.size = new.size, !.mode = new.mode]
         /\ HideBackdrop /\ UNCHANGED enabled

Resize(w) ==
  /\ width' = w
  /\ AdjustLayout(w, config, shown)
  /\ UNCHANGED config
  /\ session' = IF w = "wide" THEN <<config>> ELSE session

(* The button of the menu: over the page when it is full, else condensed   *)
(* and back, which is not saved.                                           *)
ToggleMenu ==
  /\ IF shown.size = "full"
     THEN /\ IF enabled THEN HideBackdrop ELSE backdrops' = backdrops + 1
          /\ UNCHANGED shown
     ELSE /\ shown' = [shown EXCEPT !.size =
               IF @ # "condensed" THEN "condensed"
               ELSE IF config.size = "condensed" THEN "default" ELSE config.size]
          /\ HideBackdrop
  /\ enabled' = ~enabled
  /\ UNCHANGED <<width, config, session>>

ClickBackdrop ==
  /\ backdrops > 0
  /\ enabled' = FALSE /\ HideBackdrop
  /\ UNCHANGED <<width, config, session, shown>>

Change(what, value) ==
  /\ Saves([config EXCEPT ![what] = value])
  /\ shown' = [shown EXCEPT ![what] = value]
  /\ UNCHANGED <<width, enabled, backdrops>>

ChangeSetting ==
  \/ \E size \in Sizes : Change("size", size)
  \/ \E theme \in Themes : Change("theme", theme)
  \/ \E mode \in Modes : Change("mode", mode)

ResetTheme ==
  /\ Saves(DefaultConfig)
  /\ AdjustLayout(width, DefaultConfig, DefaultConfig)
  /\ UNCHANGED width

(* config.js and then the customizer's init, on a fresh html element.      *)
Opening(stored) ==
  [(IF stored = <<>> THEN DefaultConfig ELSE stored[1]) EXCEPT !.mode = "fluid"]
SizeAt(w, size) ==
  IF w = "narrow" THEN "full"
  ELSE IF w = "middle" /\ size # "full" THEN "condensed" ELSE size

ReloadPage ==
  /\ Saves(Opening(session))
  /\ shown' = [config' EXCEPT !.size = SizeAt(width, @)]
  /\ enabled' = FALSE /\ backdrops' = 0
  /\ UNCHANGED width

ShellInit ==
  /\ width \in Opened("shell", Widths)
  /\ config = DefaultConfig /\ session = <<config>>
  /\ shown = [config EXCEPT !.size = SizeAt(width, @)]
  /\ enabled = FALSE /\ backdrops = 0
  /\ page = "shell" => CallsInit(<<>>)

ShellNext ==
  /\ UNCHANGED <<calls, user_steps>>
  /\ \/ \E w \in Widths : Resize(w)
     \/ ToggleMenu \/ ClickBackdrop \/ ChangeSetting \/ ResetTheme \/ ReloadPage

-----------------------------------------------------------------------------
(* A backdrop, which catches every click, covers the page only while the   *)
(* menu is open over it, and there is never a second one that the menu's   *)
(* button would leave behind.                                              *)
BackdropHasMenu == backdrops <= 1 /\ (backdrops > 0 => enabled)
=============================================================================
