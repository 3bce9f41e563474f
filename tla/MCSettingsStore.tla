--------------------------- MODULE MCSettingsStore ---------------------------
(***************************************************************************)
(* Model-checking instance of SettingsStore.                               *)
(***************************************************************************)
EXTENDS SettingsStore

CONSTANTS d, e, m, c1, c2

MCDocuments == {d, e, m}
MCCorrupt == {c1, c2}
MCIntruders == {e, c1, c2, Legacy, Invalid, Nothing}
==============================================================================
