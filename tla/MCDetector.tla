----------------------------- MODULE MCDetector -----------------------------
(* Small instances of Detector for TLC.                                     *)
EXTENDS Detector

\* What each target watches.
OneWatched == <<{1}>>
TwoWatched == <<{1, 2}>>
TwoAlike == <<{1}, {1}>>

\* Suppression as loader.go accepts it: no scenario names itself, no two
\* name each other.
NoneSuppressed == <<{}>>
FirstSuppressesSecond == <<{2}, {}>>

\* for-durations
NoHold == <<0>>
HoldOne == <<1>>
SlowRootQuickSymptom == <<2, 0>>

\* maxAppliesPerHour
LimitOne == <<1>>
SymptomLimited == <<0, 1>>

\* What the lock may leave unlocked when a process starts.
NothingUnlocked == {{}}
SometimesUnlocked == {{}, {1}}

\* Where the process may stop: between ticks only, or anywhere.
AtRest == {"sleep"}
Anywhere == {"probe", "evaluate", "save", "sleep"}
=============================================================================
