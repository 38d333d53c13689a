------------------------------ MODULE MCCall ------------------------------
(***************************************************************************)
(* Values for the constants of Call.                                       *)
(***************************************************************************)
EXTENDS CallProperties

\* The in-call requests that a run's clients make.
EveryRequest == InCall
WithoutPause == {"send", "inject", "end"}
SpeakAndEnd == {"send", "end"}
SpeakAndPause == {"send", "pause", "resume"}
PauseAndEnd == {"pause", "end"}
JustSpeak == {"send"}
JustEnd == {"end"}

CallerFirst == {"caller"}
============================================================================
