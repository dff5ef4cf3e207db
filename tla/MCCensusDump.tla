---------------------------- MODULE MCCensusDump -----------------------------
(***************************************************************************)
(* CensusDump for TLC.                                                     *)
(***************************************************************************)
EXTENDS CensusDump

\* Everything; from before the start; a part in one go and in batches; and, with a limit of
\* 8 for an int, a range whose end passes it.
AskedRanges == {<<0, -1>>, <<-1, 1>>, <<1, 1>>, <<0, 2>>, <<1, 7>>}

=============================================================================
