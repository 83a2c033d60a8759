-------------------------- MODULE SettingsRegister --------------------------
(***************************************************************************)
(* What the settings file promises to the processes that share it: one     *)
(* value, changed by whole edits, each applied to the value the one before *)
(* it left; a value that cannot be parsed is replaced by the defaults.     *)
(***************************************************************************)
CONSTANTS
    Default,    \* AppConfig::default()
    Edits,      \* functions from configurations to configurations
    Absent,     \* no settings file
    Corrupt     \* a file that does not parse

VARIABLE value

Parsed(v) == IF v \in {Absent, Corrupt} THEN Default ELSE v

Init == value \in {Absent, Default}

Edit == \E f \in Edits : value' = f[Parsed(value)]

\* Somebody edits the file by hand, and gets it wrong.
Spoil == value' = Corrupt

\* The unparsable file is moved aside.
SetAside == value = Corrupt /\ value' = Absent

Next == Edit \/ Spoil \/ SetAside

Spec == Init /\ [][Next]_value
=============================================================================
