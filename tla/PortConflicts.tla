---------------------------- MODULE PortConflicts ----------------------------
(***************************************************************************)
(* FindAllConflicts of common/portmap/portmap.go: the port ranges that     *)
(* startBackends has collected are grouped one by one.  A range that       *)
(* overlaps groups goes into the first of them, and the others are merged  *)
(* into that one, from the last to the second, each removed from the slice *)
(* that the collected indices point into.                                  *)
(* A record is known by its place in the input; its host and its label are *)
(* carried along and printed.  The input may be any list: each step takes  *)
(* some range for its next element.  The order of the result is that of    *)
(* the groups, and left out.                                               *)
(***************************************************************************)
EXTENDS Naturals, SequencesExt, FiniteSets

CONSTANTS
    MaxPort,    \* the largest port (65535)
    MaxRecords  \* the length of the input (a bound)

ASSUME MaxPortAssumption == MaxPort \in Nat \ {0}
ASSUME MaxRecordsAssumption == MaxRecords \in Nat

Ports == 1..MaxPort
Ranges == {r \in [start : Ports, end : Ports] : r.start <= r.end}

VARIABLES
    ranges,    \* the records grouped so far
    groups,    \* the groups so far
    merge,     \* the mergeIndices whose groups are still apart; the least is the target
    conflicts, \* the result
    pc

conflictsVars == <<ranges, groups, merge, conflicts, pc>>

Group == [start : Ports, end : Ports, records : Seq(1..MaxRecords)]

ConflictsTypeOK ==
    /\ ranges \in Seq(Ranges) /\ Len(ranges) <= MaxRecords
    /\ groups \in Seq(Group) /\ \A i \in 1..Len(groups) : groups[i].records # <<>>
    /\ merge \in SUBSET (1..Len(groups))
    /\ conflicts \in SUBSET Group
    /\ pc \in {"group", "done"}

ConflictsInit ==
    /\ ranges = <<>>
    /\ groups = <<>>
    /\ merge = {}
    /\ conflicts = {}
    /\ pc = "group"

-----------------------------------------------------------------------------
overlaps_Strict(a, b) == a.start < b.end /\ a.end > b.start  \* Mutant

overlaps(a, b) == a.start <= b.end /\ a.end >= b.start

Least(m, n) == IF m < n THEN m ELSE n
Greatest(m, n) == IF m > n THEN m ELSE n

(* Mutant: the end of the merged group stays. *)
Joined_KeepsEnd(g, h) ==
    [start   |-> Least(g.start, h.start),
     end     |-> g.end,
     records |-> g.records \o h.records]

Joined(g, h) ==
    [start   |-> Least(g.start, h.start),
     end     |-> Greatest(g.end, h.end),
     records |-> g.records \o h.records]

Single_NoRecord(r) ==  \* Mutant
    [start |-> r.start, end |-> r.end, records |-> <<>>]

(* The group of the next record alone. *)
Single(r) ==
    [start |-> r.start, end |-> r.end, records |-> <<Len(ranges) + 1>>]

mergeIndices(r) == {i \in 1..Len(groups) : overlaps(r, groups[i])}

(* One group alone is not left to merge. *)
Apart(m) == IF m = {Min(m)} THEN {} ELSE m

-----------------------------------------------------------------------------
Grouping == pc = "group" /\ merge = {}

Take(r) ==
    /\ Grouping
    /\ Len(ranges) < MaxRecords
    /\ ranges' = Append(ranges, r)

NewGroup(r) ==
    /\ Take(r)
    /\ mergeIndices(r) = {}
    /\ groups' = Append(groups, Single(r))
    /\ UNCHANGED <<merge, conflicts, pc>>

(* Mutant: the record joins one of its groups and the others stay. *)
JoinFirst_Only(r) ==
    /\ Take(r)
    /\ LET indices == mergeIndices(r)
       IN /\ indices # {}
          /\ groups' = [groups EXCEPT ![Min(indices)] = Joined(@, Single(r))]
          /\ merge' = {}
    /\ UNCHANGED <<conflicts, pc>>

JoinFirst(r) ==
    /\ Take(r)
    /\ LET indices == mergeIndices(r)
       IN /\ indices # {}
          /\ groups' = [groups EXCEPT ![Min(indices)] = Joined(@, Single(r))]
          /\ merge' = Apart(indices)
    /\ UNCHANGED <<conflicts, pc>>

MergeLast ==
    /\ merge # {}
    /\ LET idx == Max(merge)
       IN /\ groups' = RemoveAt([groups EXCEPT ![Min(merge)] = Joined(@, groups[idx])], idx)
          /\ merge' = Apart(merge \ {idx})
    /\ UNCHANGED <<ranges, conflicts, pc>>

Filter ==
    /\ Grouping
    /\ conflicts' = {g \in ToSet(groups) : Len(g.records) >= 2}
    /\ pc' = "done"
    /\ UNCHANGED <<ranges, groups, merge>>

ConflictsNext ==
    \/ \E r \in Ranges : NewGroup(r) \/ JoinFirst(r)
    \/ MergeLast \/ Filter

ConflictsSpec == ConflictsInit /\ [][ConflictsNext]_conflictsVars

-----------------------------------------------------------------------------
Span(g) == g.start..g.end
Members(g) == {g.records[i] : i \in 1..Len(g.records)}

(* The next record is compared with the hulls of the groups only: a hull has
   no port that none of its records has, whatever was merged into it. *)
HullsAreCovered ==
    \A i \in 1..Len(groups) :
        Span(groups[i]) = UNION {Span(ranges[m]) : m \in Members(groups[i])}

(* One pass over the groups is enough: a group that did not overlap the
   record does not overlap what the record's groups are merged into. *)
GroupsAreApart ==
    merge = {} =>
        \A i, j \in 1..Len(groups) : i # j => Span(groups[i]) \cap Span(groups[j]) = {}

Records == 1..Len(ranges)

(* A set of records none of which shares a port with another record. *)
Closed(S) ==
    \A m \in S, n \in Records \ S : Span(ranges[m]) \cap Span(ranges[n]) = {}

(* The records that share a port with i, with one of those, and so on. *)
Component(i) == {j \in Records : \A S \in SUBSET Records : i \in S /\ Closed(S) => j \in S}

(* The result names every conflict once: its groups are the connected
   components, under sharing a port, that have at least two records, each of
   which is listed once, and their ports are those of the records. *)
ConflictsAreComponents ==
    pc = "done" =>
        /\ {Members(g) : g \in conflicts}
              = {c \in {Component(i) : i \in Records} : Cardinality(c) >= 2}
        /\ \A g, h \in conflicts : Members(g) = Members(h) => g = h
        /\ \A g \in conflicts :
              /\ Len(g.records) = Cardinality(Members(g))
              /\ Span(g) = UNION {Span(ranges[m]) : m \in Members(g)}
=============================================================================
