---------------------------- MODULE MCServices ----------------------------
(***************************************************************************)
(* A small instance of Services.                                           *)
(***************************************************************************)
EXTENDS Services

Rule(p, m) == [process |-> p, mode |-> m]
Config(on, ac, battery, rules, also) ==
    [enabled |-> on, ac_mode |-> ac, battery_mode |-> battery,
     app_rules |-> rules, apps_on_battery |-> also]

\* Two rules of which one is for the charger alone, and switching turned off.
TwoConfigs ==
    {Config(TRUE, "custom", "performance",
            <<Rule("game", "performance"), Rule("video", "max-power")>>, TRUE),
     Config(FALSE, "balanced", "low-power", <<>>, FALSE)}
=============================================================================
