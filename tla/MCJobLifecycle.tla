--------------------------- MODULE MCJobLifecycle ---------------------------
(* Small instances of JobLifecycle for TLC. *)
EXTENDS JobLifecycle, TLC

CONSTANTS Crashes, Errors, Slowdowns, Refusals, BothFormats

MCLimit ==
  [m \in Mishaps |-> CASE m = "crash" -> Crashes [] m = "error" -> Errors
                       [] m = "slow" -> Slowdowns [] m = "refusal" -> Refusals]

\* All jobs of a mode ask for the same document, so any of them may be reused.
MCCacheKey == [j \in Jobs |-> j \in BothFormats]

MCFormats == [j \in Jobs |-> IF j \in BothFormats THEN {"docx", "pdf"} ELSE {"docx"}]

Symmetry == Permutations(Workers)
=============================================================================
