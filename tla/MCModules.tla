------------------------------ MODULE MCModules ------------------------------
(* PowertoyModules for TLC. *)
EXTENDS PowertoyModules

CONSTANTS GpoOn, GpoOff   \* the modules a group policy enables or disables

MCGpo == [m \in Module |-> IF m \in GpoOn THEN "enabled"
                           ELSE IF m \in GpoOff THEN "disabled" ELSE "none"]

(* What is saved has nothing to do with shortcuts, keys and processes: the *)
(* threads that open Settings are looked at where these are at rest, from  *)
(* their beginning until what they saved is the user's choice again.       *)
AtRest ==
    /\ \A m \in Module : config[m] = [hotkeys |-> {}, hotkeyEx |-> NoShortcut, tracks |-> FALSE]
    /\ \A m \in Module : process[m] = "none"
    /\ down = {} /\ taken = {} /\ messages = <<>>
SettingsAlone == opening # {} \/ astray => AtRest
=============================================================================
