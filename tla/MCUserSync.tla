----------------------------- MODULE MCUserSync -----------------------------
(* Instance of UserSync for TLC: two users whose accounts build and one whose
   account does not, a speed limit that changes, two runs that may overlap.
   The controller starts with one user or with two; the other first lists
   differ from these in the names only. *)
EXTENDS UserSync

CONSTANTS alice, bob, carol

MCUuids == {alice, bob, carol}
MCUnbuildable == {carol}
MCSpeeds == {10, 20}

(* The list of these users, with one speed limit for all but alice. *)
ListOf(us, speed) ==
    [u \in MCUuids |-> IF u \notin us THEN None ELSE IF u = alice THEN speed ELSE 10]

MCFirstLists == {ListOf(us, 10) : us \in {{alice}, {alice, bob}}}
MCPanelLists ==
    {ListOf(us, speed) : us \in SUBSET MCUuids \ {{}, {carol}}, speed \in MCSpeeds}
MCEmptiedLists == MCPanelLists \cup {NoUsers}
=============================================================================
