---------------------------- MODULE MCLifecycle ----------------------------
(* Instance of Lifecycle for TLC: two backends, each of which may hop ports by
   a rule; the panel of one of them may send what makes the program panic.  The
   file is edited to name that one only, or not to parse. *)
EXTENDS Lifecycle

CONSTANTS a1, a2

MCApis == {a1, a2}
MCFirstFile == <<a1, a2>>
MCFiles == {<<a2>>, Broken}
=============================================================================
