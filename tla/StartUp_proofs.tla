--------------------------- MODULE StartUp_proofs ---------------------------
(***************************************************************************)
(* Proofs about the two computations over the panel's settings that a      *)
(* start makes: FindAllConflicts over the ports of all backends            *)
(* (PortConflicts) and GetCustomConfig for one (CustomConfig), for any     *)
(* ports and for any lists, lines, matchers and names.  The two share no   *)
(* variable, only the lemmas about the least place in a list.              *)
(*                                                                         *)
(* GroupsAreApart is not inductive: while a record's groups are merged,    *)
(* they share its ports.  The invariant says which two groups may then     *)
(* overlap, the target and one that is still to be merged with it, and     *)
(* that each of these does.  That the result are components needs, of      *)
(* every group, that a set of records which shares no port with others     *)
(* has all of it or nothing (Whole).                                       *)
(*                                                                         *)
(* RoutesAsConfigured needs that the rules match what the items seen so    *)
(* far take and nothing else (RulesCover): an item that is added may only  *)
(* get the traffic that no rule matches yet.                               *)
(***************************************************************************)
EXTENDS PortConflicts, CustomConfig, FiniteSetTheorems, TLAPS

-----------------------------------------------------------------------------
(* The least and the greatest of a set of places *)

(* A set of naturals has a least element: of the intervals that end in one of
   them, one includes no other. *)
LEMMA LeastExists ==
    ASSUME NEW T \in SUBSET Nat, T # {}
    PROVE  \E x \in T : \A y \in T : x <= y
<1> DEFINE Below == {0..x : x \in T}
<1>1. Below \subseteq FiniteSubsetsOf(Nat)
    <2>1. \A x \in T : IsFiniteSet(0..x)
        BY FS_Interval
    <2> QED BY <2>1 DEF FiniteSubsetsOf
<1>2. PICK least \in Below : \A b \in Below : <<b, least>> \notin StrictSubsetOrdering(Nat)
    <2>1. Below # {}
        OBVIOUS
    <2> HIDE DEF Below
    <2> QED BY <1>1, <2>1, FS_StrictSubsetOrderingWellFounded, WFMin
<1>3. PICK x \in T : least = 0..x
    OBVIOUS
<1>4. ASSUME NEW y \in T, y < x
      PROVE  FALSE
    <2>1. 0..y \in Below /\ 0..y \subseteq least /\ 0..y # least
        <3>1. x \in least /\ x \notin 0..y
            BY <1>3, <1>4
        <3>2. 0..y \subseteq 0..x
            BY <1>4
        <3> QED BY <3>1, <3>2, <1>3, <1>4
    <2>2. <<0..y, least>> \in StrictSubsetOrdering(Nat)
        BY <2>1, <1>1 DEF StrictSubsetOrdering, FiniteSubsetsOf
    <2> QED BY <2>1, <2>2, <1>2
<1> QED BY <1>4

(* Min and Max of places in a list are what they are called. *)
LEMMA MinIsLeast ==
    ASSUME NEW T \in SUBSET Nat, T # {}
    PROVE  Min(T) \in T /\ \A y \in T : Min(T) <= y
BY LeastExists DEF Min

LEMMA MaxIsGreatest ==
    ASSUME NEW n \in Nat, NEW T \in SUBSET (1..n), T # {}
    PROVE  Max(T) \in T /\ \A y \in T : y <= Max(T)
<1> DEFINE Mirror == {n - x : x \in T}
<1>1. Mirror \in SUBSET Nat /\ Mirror # {}
    OBVIOUS
<1> HIDE DEF Mirror
<1>2. PICK least \in Mirror : \A m \in Mirror : least <= m
    BY <1>1, LeastExists
<1>3. PICK x \in T : least = n - x
    BY DEF Mirror
<1>4. \A y \in T : y <= x
    <2> SUFFICES ASSUME NEW y \in T
                 PROVE  y <= x
        OBVIOUS
    <2>1. n - y \in Mirror
        BY DEF Mirror
    <2> QED BY <1>2, <1>3, <2>1
<1> QED BY <1>4 DEF Max

(* What is left of a list without its i-th element. *)
LEMMA RemoveAtType ==
    ASSUME NEW T, NEW s \in Seq(T), NEW i \in 1..Len(s)
    PROVE  /\ RemoveAt(s, i) \in Seq(T)
           /\ Len(RemoveAt(s, i)) = Len(s) - 1
           /\ \A k \in 1..(Len(s) - 1) : RemoveAt(s, i)[k] = IF k < i THEN s[k] ELSE s[k + 1]
<1> DEFINE a == SubSeq(s, 1, i - 1)
           b == SubSeq(s, i + 1, Len(s))
<1>1. a \in Seq(T) /\ Len(a) = i - 1 /\ \A k \in 1..(i - 1) : a[k] = s[k]
    OBVIOUS
<1>2. b \in Seq(T) /\ Len(b) = Len(s) - i /\ \A k \in 1..(Len(s) - i) : b[k] = s[i + k]
    OBVIOUS
<1>3. RemoveAt(s, i) = a \o b
    BY DEF RemoveAt
<1> HIDE DEF a, b
<1>4. Len(a \o b) = Len(s) - 1
    BY <1>1, <1>2
<1>5. ASSUME NEW k \in 1..(Len(s) - 1)
      PROVE  (a \o b)[k] = IF k < i THEN s[k] ELSE s[k + 1]
    <2>1. CASE k < i
        BY <1>1, <1>2, <2>1
    <2>2. CASE ~(k < i)
        <3>1. (a \o b)[k] = b[k - (i - 1)] /\ k - (i - 1) \in 1..(Len(s) - i)
            BY <1>1, <1>2, <2>2
        <3> QED BY <1>2, <2>2, <3>1
    <2> QED BY <2>1, <2>2
<1> QED BY <1>1, <1>2, <1>3, <1>4, <1>5

-----------------------------------------------------------------------------
(* One group *)

ClosedIn(S, rs) ==
    \A m \in S, n \in (1..Len(rs)) \ S : Span(rs[m]) \cap Span(rs[n]) = {}

(* A group of the records rs: it lists some of them once each, its hull is what
   they cover, and a set that shares no port with other records has all of it
   or nothing. *)
Whole(g, rs) ==
    /\ g \in Group /\ g.records # <<>>
    /\ g.start <= g.end
    /\ Members(g) \subseteq 1..Len(rs)
    /\ Span(g) = UNION {Span(rs[m]) : m \in Members(g)}
    /\ \A i, j \in 1..Len(g.records) : g.records[i] = g.records[j] => i = j
    /\ \A S \in SUBSET (1..Len(rs)) :
          ClosedIn(S, rs) /\ S \cap Members(g) # {} => Members(g) \subseteq S

(* Two ranges overlap if they share a port. *)
LEMMA OverlapsIsSharing ==
    ASSUME NEW a \in [start : Ports, end : Ports], NEW b \in Group,
           a.start <= a.end, b.start <= b.end
    PROVE  overlaps(a, b) <=> Span(a) \cap Span(b) # {}
<1>1. a.start \in Nat /\ a.end \in Nat /\ b.start \in Nat /\ b.end \in Nat
    BY MaxPortAssumption DEF Group, Ports
<1>2. CASE overlaps(a, b) /\ a.start <= b.start
    <2>1. b.start \in Span(a) \cap Span(b)
        BY <1>1, <1>2 DEF overlaps, Span
    <2> QED BY <1>2, <2>1
<1>3. CASE overlaps(a, b) /\ b.start <= a.start
    <2>1. a.start \in Span(a) \cap Span(b)
        BY <1>1, <1>3 DEF overlaps, Span
    <2> QED BY <1>3, <2>1
<1>4. ASSUME NEW p \in Span(a) \cap Span(b)
      PROVE  overlaps(a, b)
    BY <1>1, <1>4 DEF overlaps, Span
<1> QED BY <1>1, <1>2, <1>3, <1>4

(* A group has a record, and its ports. *)
LEMMA WholeHasMember ==
    ASSUME NEW rs, NEW g, Whole(g, rs)
    PROVE  /\ g.records \in Seq(1..MaxRecords) /\ Len(g.records) >= 1
           /\ g.records[1] \in Members(g)
<1>1. g.records \in Seq(1..MaxRecords) /\ g.records # <<>>
    BY DEF Whole, Group
<1>2. Len(g.records) >= 1
    BY <1>1
<1> QED BY <1>1, <1>2 DEF Members

(* A group stays a group when another record is read. *)
LEMMA WholeKept ==
    ASSUME NEW rs \in Seq(Ranges), NEW r \in Ranges, NEW g, Whole(g, rs)
    PROVE  Whole(g, Append(rs, r))
<1> DEFINE more == Append(rs, r)
<1>1. Len(more) = Len(rs) + 1 /\ \A m \in 1..Len(rs) : more[m] = rs[m]
    OBVIOUS
<1> HIDE DEF more
<1>2. Members(g) \subseteq 1..Len(more)
    BY <1>1 DEF Whole
<1>3. {Span(more[m]) : m \in Members(g)} = {Span(rs[m]) : m \in Members(g)}
    BY <1>1 DEF Whole
<1>4. ASSUME NEW S \in SUBSET (1..Len(more)), ClosedIn(S, more), S \cap Members(g) # {}
      PROVE  Members(g) \subseteq S
    <2> DEFINE R == S \cap 1..Len(rs)
    <2>1. ClosedIn(R, rs)
        <3> SUFFICES ASSUME NEW m \in R, NEW n \in (1..Len(rs)) \ R
                     PROVE  Span(rs[m]) \cap Span(rs[n]) = {}
            BY DEF ClosedIn
        <3>1. m \in S /\ n \in (1..Len(more)) \ S
            BY <1>1
        <3>2. Span(more[m]) \cap Span(more[n]) = {}
            BY <1>4, <3>1 DEF ClosedIn
        <3> QED BY <1>1, <3>2
    <2>2. R \cap Members(g) # {}
        BY <1>4 DEF Whole
    <2>3. Members(g) \subseteq R
        BY <2>1, <2>2 DEF Whole
    <2> QED BY <2>3
<1> QED BY <1>2, <1>3, <1>4 DEF Whole, more

(* The group of the next record alone is a group. *)
LEMMA SingleIsWhole ==
    ASSUME ranges \in Seq(Ranges), Len(ranges) < MaxRecords, NEW r \in Ranges
    PROVE  /\ Whole(Single(r), Append(ranges, r))
           /\ Members(Single(r)) = {Len(ranges) + 1}
           /\ Span(Single(r)) = Span(r)
<1> DEFINE more == Append(ranges, r)
           g == Single(r)
<1>1. Len(more) = Len(ranges) + 1 /\ more[Len(ranges) + 1] = r
    OBVIOUS
<1>2. /\ g.start = r.start /\ g.end = r.end
      /\ g.records = <<Len(ranges) + 1>>
    BY DEF Single
<1>3. g \in Group /\ g.start <= g.end
    BY <1>2, MaxRecordsAssumption DEF Single, Group, Ranges
<1>4. Members(g) = {Len(ranges) + 1}
    BY <1>2 DEF Members
<1>5. Span(g) = Span(r)
    BY <1>2 DEF Span
<1> HIDE DEF more, g
<1>6. Members(g) \subseteq 1..Len(more)
    BY <1>1, <1>4
<1>7. Span(g) = UNION {Span(more[m]) : m \in Members(g)}
    BY <1>1, <1>4, <1>5
<1>8. g.records # <<>> /\ \A i, j \in 1..Len(g.records) : g.records[i] = g.records[j] => i = j
    BY <1>2
<1>9. \A S : S \cap Members(g) # {} => Members(g) \subseteq S
    BY <1>4
<1>10. Whole(g, more)
    BY <1>3, <1>6, <1>7, <1>8, <1>9 DEF Whole
<1> QED BY <1>4, <1>5, <1>10 DEF more, g

(* Two lists without repetitions and without a common element, one after the
   other. *)
LEMMA JoinedLists ==
    ASSUME NEW T, NEW s \in Seq(T), NEW t \in Seq(T),
           \A i, j \in 1..Len(s) : s[i] = s[j] => i = j,
           \A i, j \in 1..Len(t) : t[i] = t[j] => i = j,
           \A i \in 1..Len(s), j \in 1..Len(t) : s[i] # t[j]
    PROVE  /\ s \o t \in Seq(T) /\ Len(s \o t) = Len(s) + Len(t)
           /\ {(s \o t)[i] : i \in 1..Len(s \o t)} = {s[i] : i \in 1..Len(s)} \cup {t[i] : i \in 1..Len(t)}
           /\ \A i, j \in 1..Len(s \o t) : (s \o t)[i] = (s \o t)[j] => i = j
<1> DEFINE u == s \o t
<1>1. u \in Seq(T) /\ Len(u) = Len(s) + Len(t) /\ Len(s) \in Nat /\ Len(t) \in Nat
    OBVIOUS
<1>2. \A i \in 1..Len(s) : u[i] = s[i]
    OBVIOUS
<1>3. \A i \in 1..Len(t) : u[Len(s) + i] = t[i]
    OBVIOUS
<1> HIDE DEF u
<1>4. ASSUME NEW i \in 1..Len(u), ~(i <= Len(s))
      PROVE  i - Len(s) \in 1..Len(t) /\ u[i] = t[i - Len(s)]
    <2>1. i - Len(s) \in 1..Len(t) /\ Len(s) + (i - Len(s)) = i
        BY <1>1, <1>4
    <2> QED BY <1>3, <2>1
<1>5. ASSUME NEW i \in 1..Len(u), i <= Len(s)
      PROVE  i \in 1..Len(s) /\ u[i] = s[i]
    BY <1>1, <1>2, <1>5
<1>6. {u[i] : i \in 1..Len(u)} = {s[i] : i \in 1..Len(s)} \cup {t[i] : i \in 1..Len(t)}
    <2>1. \A i \in 1..Len(s) : i \in 1..Len(u)
        BY <1>1
    <2>2. \A i \in 1..Len(t) : Len(s) + i \in 1..Len(u)
        BY <1>1
    <2>3. {u[i] : i \in 1..Len(u)} \subseteq {s[i] : i \in 1..Len(s)} \cup {t[i] : i \in 1..Len(t)}
        BY <1>4, <1>5
    <2>4. {s[i] : i \in 1..Len(s)} \subseteq {u[i] : i \in 1..Len(u)}
        BY <1>2, <2>1
    <2>5. {t[i] : i \in 1..Len(t)} \subseteq {u[i] : i \in 1..Len(u)}
        BY <1>3, <2>2
    <2> QED BY <2>3, <2>4, <2>5
<1>7. ASSUME NEW i \in 1..Len(u), NEW j \in 1..Len(u), u[i] = u[j]
      PROVE  i = j
    <2>1. CASE i <= Len(s) /\ j <= Len(s)
        BY <1>5, <1>7, <2>1
    <2>2. CASE ~(i <= Len(s)) /\ ~(j <= Len(s))
        <3>1. i - Len(s) = j - Len(s)
            BY <1>4, <1>7, <2>2
        <3> QED BY <1>1, <3>1
    <2>3. CASE (i <= Len(s)) # (j <= Len(s))
        BY <1>4, <1>5, <1>7, <2>3
    <2> QED BY <2>1, <2>2, <2>3
<1> QED BY <1>1, <1>6, <1>7 DEF u

(* Two groups that share a port and no record make one. *)
LEMMA JoinedIsWhole ==
    ASSUME NEW rs \in Seq(Ranges), NEW g, NEW h, Whole(g, rs), Whole(h, rs),
           Members(g) \cap Members(h) = {}, Span(g) \cap Span(h) # {}
    PROVE  /\ Whole(Joined(g, h), rs)
           /\ Members(Joined(g, h)) = Members(g) \cup Members(h)
           /\ Span(Joined(g, h)) = Span(g) \cup Span(h)
           /\ Len(Joined(g, h).records) >= 2
<1> DEFINE j == Joined(g, h)
<1>1. /\ g.start \in Ports /\ g.end \in Ports /\ h.start \in Ports /\ h.end \in Ports
      /\ g.start <= g.end /\ h.start <= h.end
    BY DEF Whole, Group
<1>2. /\ g.records \in Seq(1..MaxRecords) /\ h.records \in Seq(1..MaxRecords)
      /\ Len(g.records) >= 1 /\ Len(h.records) >= 1
    BY WholeHasMember DEF Whole, Group
<1>3. /\ j.start = Least(g.start, h.start) /\ j.end = Greatest(g.end, h.end)
      /\ j.records = g.records \o h.records
    BY DEF Joined
<1>4. j \in Group /\ j.start <= j.end
    BY <1>1, <1>2, MaxPortAssumption DEF Joined, Group, Ports, Least, Greatest
<1>5. Span(j) = Span(g) \cup Span(h)
    <2>1. PICK p : p \in Span(g) /\ p \in Span(h)
        OBVIOUS
    <2>2. /\ g.start \in Nat /\ g.end \in Nat /\ h.start \in Nat /\ h.end \in Nat /\ p \in Int
          /\ g.start <= p /\ p <= g.end /\ h.start <= p /\ p <= h.end
        BY <1>1, <2>1, MaxPortAssumption DEF Ports, Span
    <2>3. \A q \in Int :
              j.start <= q /\ q <= j.end <=> (g.start <= q /\ q <= g.end) \/ (h.start <= q /\ q <= h.end)
        BY <1>3, <2>2 DEF Least, Greatest
    <2>4. j.start \in Nat /\ j.end \in Nat
        BY <1>3, <2>2 DEF Least, Greatest
    <2> HIDE DEF j
    <2> QED BY <2>2, <2>3, <2>4 DEF Span
<1> HIDE DEF j
<1>6. /\ j.records \in Seq(1..MaxRecords) /\ Len(j.records) >= 2
      /\ Members(j) = Members(g) \cup Members(h)
      /\ \A i, k \in 1..Len(j.records) : j.records[i] = j.records[k] => i = k
    <2>1. /\ \A i, k \in 1..Len(g.records) : g.records[i] = g.records[k] => i = k
          /\ \A i, k \in 1..Len(h.records) : h.records[i] = h.records[k] => i = k
        BY DEF Whole
    <2>2. \A i \in 1..Len(g.records), k \in 1..Len(h.records) : g.records[i] # h.records[k]
        BY DEF Members
    <2> DEFINE s == g.records
               u == h.records
    <2>3. s \in Seq(1..MaxRecords) /\ u \in Seq(1..MaxRecords)
        BY <1>2
    <2>4. Members(g) = {s[i] : i \in 1..Len(s)} /\ Members(h) = {u[i] : i \in 1..Len(u)}
        BY DEF Members
    <2>5. j.records = s \o u /\ Members(j) = {(s \o u)[i] : i \in 1..Len(s \o u)}
        BY <1>3 DEF Members
    <2>6. Len(s) >= 1 /\ Len(u) >= 1
        BY <1>2
    <2> HIDE DEF s, u
    <2>7. /\ s \o u \in Seq(1..MaxRecords) /\ Len(s \o u) = Len(s) + Len(u)
          /\ {(s \o u)[i] : i \in 1..Len(s \o u)} = {s[i] : i \in 1..Len(s)} \cup {u[i] : i \in 1..Len(u)}
          /\ \A i, k \in 1..Len(s \o u) : (s \o u)[i] = (s \o u)[k] => i = k
        BY <2>1, <2>2, <2>3, JoinedLists DEF s, u
    <2>8. Len(s \o u) >= 2
        BY <2>3, <2>6, <2>7
    <2> QED BY <2>4, <2>5, <2>7, <2>8
<1>9. Members(j) \subseteq 1..Len(rs) /\ Span(j) = UNION {Span(rs[k]) : k \in Members(j)}
    BY <1>5, <1>6 DEF Whole
<1>10. ASSUME NEW S \in SUBSET (1..Len(rs)), ClosedIn(S, rs), S \cap Members(j) # {}
       PROVE  Members(j) \subseteq S
    <2>1. PICK a \in Members(g), b \in Members(h) : Span(rs[a]) \cap Span(rs[b]) # {}
        <3>1. PICK p : p \in Span(g) /\ p \in Span(h)
            OBVIOUS
        <3>2. PICK a \in Members(g) : p \in Span(rs[a])
            BY <3>1 DEF Whole
        <3>3. PICK b \in Members(h) : p \in Span(rs[b])
            BY <3>1 DEF Whole
        <3> QED BY <3>2, <3>3
    <2>2. a \in 1..Len(rs) /\ b \in 1..Len(rs)
        BY DEF Whole
    <2>3. a \in S <=> b \in S
        <3>1. a \in S => b \in S
            BY <1>10, <2>1, <2>2 DEF ClosedIn
        <3>2. b \in S => a \in S
            BY <1>10, <2>1, <2>2 DEF ClosedIn
        <3> QED BY <3>1, <3>2
    <2>4. S \cap Members(g) # {} => Members(g) \subseteq S
        BY <1>10 DEF Whole
    <2>5. S \cap Members(h) # {} => Members(h) \subseteq S
        BY <1>10 DEF Whole
    <2> QED BY <1>6, <1>10, <2>3, <2>4, <2>5
<1>11. j.records # <<>>
    BY <1>6
<1>12. Whole(j, rs)
    BY <1>4, <1>6, <1>9, <1>10, <1>11 DEF Whole
<1> QED BY <1>5, <1>6, <1>12 DEF j

-----------------------------------------------------------------------------
(* The invariant *)

GroupsAreWhole == \A i \in 1..Len(groups) : Whole(groups[i], ranges)

(* Every record is in one group, and in one only. *)
GroupsPartition ==
    /\ \A i, j \in 1..Len(groups) : i # j => Members(groups[i]) \cap Members(groups[j]) = {}
    /\ \A m \in Records : \E i \in 1..Len(groups) : m \in Members(groups[i])

(* Two groups share no port, but for the target of a merge and those it is
   still to be merged with ... *)
ApartUnlessMerging ==
    \A i, j \in 1..Len(groups) :
        i # j => \/ Span(groups[i]) \cap Span(groups[j]) = {}
                 \/ i \in merge /\ j \in merge /\ (i = Min(merge) \/ j = Min(merge))

(* ... which do share one with it. *)
MergedShare ==
    /\ \A i \in merge : Span(groups[Min(merge)]) \cap Span(groups[i]) # {}
    /\ merge # {} => merge # {Min(merge)}

Filtered ==
    pc = "done" => /\ merge = {}
                   /\ conflicts = {g \in ToSet(groups) : Len(g.records) >= 2}

GroupsInv == GroupsAreWhole /\ GroupsPartition /\ ApartUnlessMerging /\ MergedShare

ConflictsInv == ConflictsTypeOK /\ GroupsInv /\ Filtered

(* The target, its overlapping groups and the one that is merged next are
   groups. *)
LEMMA MergeIndices ==
    ASSUME NEW n \in Nat, NEW m \in SUBSET (1..n), m # {}
    PROVE  /\ Min(m) \in m /\ \A i \in m : Min(m) <= i
           /\ Max(m) \in m /\ \A i \in m : i <= Max(m)
           /\ m # {Min(m)} => Min(m) < Max(m)
<1>1. Min(m) \in m /\ \A i \in m : Min(m) <= i
    BY MinIsLeast
<1>2. Max(m) \in m /\ \A i \in m : i <= Max(m)
    BY MaxIsGreatest
<1>3. ASSUME m # {Min(m)}
      PROVE  Min(m) < Max(m)
    <2>1. PICK i \in m : i # Min(m)
        BY <1>1, <1>3
    <2>2. \A k \in m : k \in Nat
        OBVIOUS
    <2>3. Min(m) <= i /\ i <= Max(m)
        BY <1>1, <1>2, <2>1
    <2>4. Min(m) \in Nat /\ Max(m) \in Nat /\ i \in Nat
        BY <1>1, <1>2, <2>1, <2>2
    <2> QED BY <2>1, <2>3, <2>4
<1> QED BY <1>1, <1>2, <1>3

(* The range of a record, and a group it is compared with, share a port where
   the code finds that they overlap. *)
LEMMA mergeIndicesShare ==
    ASSUME ConflictsInv, NEW r \in Ranges, NEW i \in 1..Len(groups)
    PROVE  i \in mergeIndices(r) <=> Span(r) \cap Span(groups[i]) # {}
<1>1. groups[i] \in Group /\ groups[i].start <= groups[i].end
    BY DEF ConflictsInv, GroupsInv, GroupsAreWhole, Whole
<1>2. r \in [start : Ports, end : Ports] /\ r.start <= r.end
    BY DEF Ranges
<1> QED BY <1>1, <1>2, OverlapsIsSharing DEF mergeIndices

(* The next record is one that no group has yet. *)
LEMMA NextRecordIsNew ==
    ASSUME ConflictsInv, NEW r \in Ranges, Take(r)
    PROVE  /\ ranges \in Seq(Ranges) /\ ranges' = Append(ranges, r)
           /\ ranges' \in Seq(Ranges) /\ Len(ranges') = Len(ranges) + 1
           /\ Len(ranges) < MaxRecords /\ Len(ranges') <= MaxRecords
           /\ merge = {} /\ pc = "group"
           /\ groups \in Seq(Group) /\ Len(groups) \in Nat
           /\ \A i \in 1..Len(groups) :
                 Whole(groups[i], ranges') /\ Len(ranges) + 1 \notin Members(groups[i])
           /\ Whole(Single(r), ranges')
           /\ Members(Single(r)) = {Len(ranges) + 1} /\ Span(Single(r)) = Span(r)
<1>1. /\ ranges \in Seq(Ranges) /\ groups \in Seq(Group)
      /\ ranges' = Append(ranges, r) /\ Len(ranges) < MaxRecords
      /\ merge = {} /\ pc = "group"
    BY DEF ConflictsInv, ConflictsTypeOK, Take, Grouping
<1>2. /\ ranges' \in Seq(Ranges) /\ Len(ranges') = Len(ranges) + 1
      /\ Len(ranges) \in Nat /\ Len(groups) \in Nat /\ Len(ranges') <= MaxRecords
    BY <1>1, MaxRecordsAssumption
<1>3. ASSUME NEW i \in 1..Len(groups)
      PROVE  Whole(groups[i], ranges') /\ Len(ranges) + 1 \notin Members(groups[i])
    <2>1. Whole(groups[i], ranges)
        BY DEF ConflictsInv, GroupsInv, GroupsAreWhole
    <2>2. Whole(groups[i], ranges')
        BY <1>1, <2>1, WholeKept
    <2>3. Members(groups[i]) \subseteq 1..Len(ranges)
        BY <2>1 DEF Whole
    <2>4. Len(ranges) + 1 \notin 1..Len(ranges)
        BY <1>2
    <2> QED BY <2>2, <2>3, <2>4
<1> QED BY <1>1, <1>2, <1>3, SingleIsWhole

(* A record that overlaps no group makes a group of its own. *)
LEMMA NewGroupStep ==
    ASSUME ConflictsInv, NEW r \in Ranges, NewGroup(r)
    PROVE  GroupsInv' /\ groups' \in Seq(Group) /\ merge' \in SUBSET (1..Len(groups'))
<1> DEFINE n == Len(groups)
           g == Single(r)
<1>1. Take(r)
    BY DEF NewGroup
<1>2. groups' = Append(groups, g) /\ merge' = {} /\ merge = {}
    BY <1>1, NextRecordIsNew DEF NewGroup
<1>3. /\ groups \in Seq(Group) /\ n \in Nat /\ Whole(g, ranges')
      /\ \A i \in 1..n : Whole(groups[i], ranges') /\ Len(ranges) + 1 \notin Members(groups[i])
      /\ Members(g) = {Len(ranges) + 1} /\ Span(g) = Span(r)
      /\ ranges \in Seq(Ranges) /\ Len(ranges') = Len(ranges) + 1
    BY <1>1, NextRecordIsNew
<1>4. g \in Group
    BY <1>3 DEF Whole
<1> HIDE DEF g
<1>5. groups' \in Seq(Group) /\ Len(groups') = n + 1 /\ groups'[n + 1] = g /\ \A i \in 1..n : groups'[i] = groups[i]
    BY <1>2, <1>3, <1>4
<1>6. \A i \in 1..(n + 1) : i \in 1..n \/ i = n + 1
    BY <1>3
<1>7. GroupsAreWhole'
    BY <1>3, <1>5, <1>6 DEF GroupsAreWhole
<1>8. GroupsPartition'
    <2>1. \A i, j \in 1..n : i # j => Members(groups[i]) \cap Members(groups[j]) = {}
        BY DEF ConflictsInv, GroupsInv, GroupsPartition
    <2>2. ASSUME NEW i \in 1..(n + 1), NEW j \in 1..(n + 1), i # j
          PROVE  Members(groups'[i]) \cap Members(groups'[j]) = {}
        <3>1. CASE i \in 1..n /\ j \in 1..n
            BY <1>5, <2>1, <2>2, <3>1
        <3>2. CASE i \in 1..n /\ j = n + 1
            BY <1>3, <1>5, <3>2
        <3>3. CASE i = n + 1 /\ j \in 1..n
            BY <1>3, <1>5, <3>3
        <3> QED BY <1>6, <2>2, <3>1, <3>2, <3>3
    <2>3. ASSUME NEW m \in 1..Len(ranges')
          PROVE  \E i \in 1..Len(groups') : m \in Members(groups'[i])
        <3>1. CASE m \in 1..Len(ranges)
            <4>1. PICK i \in 1..n : m \in Members(groups[i])
                BY <3>1 DEF ConflictsInv, GroupsInv, GroupsPartition, Records
            <4>2. i \in 1..Len(groups')
                BY <1>3, <1>5
            <4> QED BY <1>5, <4>1, <4>2
        <3>2. CASE m = Len(ranges) + 1
            <4>1. n + 1 \in 1..Len(groups')
                BY <1>3, <1>5
            <4> QED BY <1>3, <1>5, <3>2, <4>1
        <3> QED BY <1>3, <3>1, <3>2
    <2> QED BY <1>5, <2>2, <2>3 DEF GroupsPartition, Records
<1>9. ApartUnlessMerging'
    <2>1. \A i, j \in 1..n : i # j => Span(groups[i]) \cap Span(groups[j]) = {}
        BY <1>2 DEF ConflictsInv, GroupsInv, ApartUnlessMerging
    <2>2. \A i \in 1..n : Span(g) \cap Span(groups[i]) = {}
        BY <1>3, mergeIndicesShare DEF NewGroup
    <2>3. \A i, j \in 1..Len(groups') : i # j => Span(groups'[i]) \cap Span(groups'[j]) = {}
        BY <1>5, <1>6, <2>1, <2>2
    <2> QED BY <2>3 DEF ApartUnlessMerging
<1>10. MergedShare'
    BY <1>2 DEF MergedShare
<1> QED BY <1>2, <1>5, <1>7, <1>8, <1>9, <1>10 DEF GroupsInv

(* A record joins the first group that it overlaps; what was apart stays so, but
   for the groups that are now to be merged. *)
LEMMA JoinFirstStep ==
    ASSUME ConflictsInv, NEW r \in Ranges, JoinFirst(r)
    PROVE  GroupsInv' /\ groups' \in Seq(Group) /\ merge' \in SUBSET (1..Len(groups'))
<1> DEFINE n == Len(groups)
           m == mergeIndices(r)
           t == Min(m)
           g == Single(r)
           h == Joined(groups[t], g)
<1>1. Take(r) /\ m # {} /\ groups' = [groups EXCEPT ![t] = h] /\ merge' = Apart(m)
    BY DEF JoinFirst
<1>2. /\ groups \in Seq(Group) /\ n \in Nat /\ Whole(g, ranges') /\ ranges' \in Seq(Ranges)
      /\ \A i \in 1..n : Whole(groups[i], ranges') /\ Len(ranges) + 1 \notin Members(groups[i])
      /\ Members(g) = {Len(ranges) + 1} /\ Span(g) = Span(r)
      /\ ranges \in Seq(Ranges) /\ Len(ranges') = Len(ranges) + 1 /\ merge = {}
    BY <1>1, NextRecordIsNew
<1>3. m \in SUBSET (1..n) /\ t \in m /\ t \in 1..n
    <2>1. m \in SUBSET (1..n)
        BY DEF mergeIndices
    <2> QED BY <1>1, <1>2, <2>1, MergeIndices
<1>4. \A i \in 1..n : i \in m <=> Span(r) \cap Span(groups[i]) # {}
    BY mergeIndicesShare
<1>5. /\ Whole(h, ranges')
      /\ Members(h) = Members(groups[t]) \cup {Len(ranges) + 1}
      /\ Span(h) = Span(groups[t]) \cup Span(r)
    <2>1. Members(groups[t]) \cap Members(g) = {} /\ Span(groups[t]) \cap Span(g) # {}
        BY <1>2, <1>3, <1>4
    <2> QED BY <1>2, <1>3, <2>1, JoinedIsWhole
<1>6. \A i, j \in 1..n : i # j =>
          /\ Members(groups[i]) \cap Members(groups[j]) = {}
          /\ Span(groups[i]) \cap Span(groups[j]) = {}
    BY <1>2 DEF ConflictsInv, GroupsInv, GroupsPartition, ApartUnlessMerging
<1>7. Apart(m) \in {{}, m} /\ (Apart(m) = {} <=> m = {t})
    BY <1>1 DEF Apart
<1> HIDE DEF m, t, g, h
<1>8. groups' \in Seq(Group) /\ Len(groups') = n /\ groups'[t] = h /\ \A i \in (1..n) \ {t} : groups'[i] = groups[i]
    <2>1. h \in Group
        BY <1>5 DEF Whole
    <2> QED BY <1>1, <1>2, <1>3, <2>1
<1>9. GroupsAreWhole'
    BY <1>2, <1>5, <1>8 DEF GroupsAreWhole
<1>10. GroupsPartition'
    <2>1. ASSUME NEW i \in 1..n, NEW j \in 1..n, i # j
          PROVE  Members(groups'[i]) \cap Members(groups'[j]) = {}
        <3>1. CASE i = t
            BY <1>2, <1>5, <1>6, <1>8, <2>1, <3>1
        <3>2. CASE j = t
            BY <1>2, <1>5, <1>6, <1>8, <2>1, <3>2
        <3>3. CASE i # t /\ j # t
            BY <1>6, <1>8, <2>1, <3>3
        <3> QED BY <3>1, <3>2, <3>3
    <2>2. ASSUME NEW k \in 1..Len(ranges')
          PROVE  \E i \in 1..n : k \in Members(groups'[i])
        <3>1. CASE k \in 1..Len(ranges)
            <4>1. PICK i \in 1..n : k \in Members(groups[i])
                BY <3>1 DEF ConflictsInv, GroupsInv, GroupsPartition, Records
            <4> QED BY <1>5, <1>8, <4>1
        <3>2. CASE k = Len(ranges) + 1
            BY <1>3, <1>5, <1>8, <3>2
        <3> QED BY <1>2, <3>1, <3>2
    <2> QED BY <1>8, <2>1, <2>2 DEF GroupsPartition, Records
<1>11. ApartUnlessMerging'
    <2> SUFFICES ASSUME NEW i \in 1..n, NEW j \in 1..n, i # j,
                        Span(groups'[i]) \cap Span(groups'[j]) # {}
                 PROVE  i \in merge' /\ j \in merge' /\ (i = Min(merge') \/ j = Min(merge'))
        BY <1>8 DEF ApartUnlessMerging
    <2>1. (i = t /\ j \in m) \/ (j = t /\ i \in m)
        BY <1>4, <1>5, <1>6, <1>8
    <2>2. m # {t} /\ merge' = m
        BY <1>1, <1>7, <2>1
    <2> QED BY <1>3, <2>1, <2>2 DEF t
<1>12. MergedShare'
    <2>1. CASE m = {t}
        BY <1>1, <1>7, <2>1 DEF MergedShare
    <2>2. CASE m # {t}
        <3>1. merge' = m /\ Min(merge') = t
            BY <1>1, <1>7, <2>2 DEF t
        <3>2. ASSUME NEW i \in m
              PROVE  Span(groups'[t]) \cap Span(groups'[i]) # {}
            <4>1. CASE i = t
                BY <1>3, <1>4, <1>5, <1>8, <4>1
            <4>2. CASE i # t
                BY <1>3, <1>4, <1>5, <1>8, <4>2
            <4> QED BY <4>1, <4>2
        <3> QED BY <2>2, <3>1, <3>2 DEF MergedShare
    <2> QED BY <2>1, <2>2
<1>13. merge' \in SUBSET (1..Len(groups'))
    BY <1>1, <1>3, <1>7, <1>8
<1> QED BY <1>8, <1>9, <1>10, <1>11, <1>12, <1>13 DEF GroupsInv

(* The last group to be merged goes into the target, and those behind it move
   up: place k of the groups that are left was place From(k). *)
LEMMA MergeLastStep ==
    ASSUME ConflictsInv, MergeLast
    PROVE  GroupsInv' /\ groups' \in Seq(Group) /\ merge' \in SUBSET (1..Len(groups'))
<1> DEFINE n == Len(groups)
           t == Min(merge)
           x == Max(merge)
           h == Joined(groups[t], groups[x])
           all == [groups EXCEPT ![t] = h]
           From(k) == IF k < x THEN k ELSE k + 1
<1>1. /\ groups \in Seq(Group) /\ n \in Nat /\ ranges \in Seq(Ranges)
      /\ merge \in SUBSET (1..n) /\ merge # {} /\ ranges' = ranges
    BY DEF ConflictsInv, ConflictsTypeOK, MergeLast
<1>2. /\ t \in merge /\ x \in merge /\ t \in 1..n /\ x \in 1..n /\ t < x
      /\ \A i \in merge : i \in 1..n /\ t <= i /\ i <= x
    <2>1. merge # {t}
        BY <1>1 DEF ConflictsInv, GroupsInv, MergedShare
    <2> QED BY <1>1, <2>1, MergeIndices
<1>3. groups' = RemoveAt(all, x) /\ merge' = Apart(merge \ {x})
    BY DEF MergeLast
<1>4. \A i \in 1..n : Whole(groups[i], ranges)
    BY DEF ConflictsInv, GroupsInv, GroupsAreWhole
<1>5. \A i, j \in 1..n : i # j => Members(groups[i]) \cap Members(groups[j]) = {}
    BY DEF ConflictsInv, GroupsInv, GroupsPartition
<1>6. \A i, j \in 1..n :
          i # j => \/ Span(groups[i]) \cap Span(groups[j]) = {}
                   \/ i \in merge /\ j \in merge /\ (i = t \/ j = t)
    BY DEF ConflictsInv, GroupsInv, ApartUnlessMerging
<1>7. \A i \in merge : Span(groups[t]) \cap Span(groups[i]) # {}
    BY DEF ConflictsInv, GroupsInv, MergedShare
<1> HIDE DEF t, x
<1>8. /\ Whole(h, ranges)
      /\ Members(h) = Members(groups[t]) \cup Members(groups[x])
      /\ Span(h) = Span(groups[t]) \cup Span(groups[x])
    <2>1. t # x
        BY <1>2
    <2>2. Members(groups[t]) \cap Members(groups[x]) = {} /\ Span(groups[t]) \cap Span(groups[x]) # {}
        BY <1>2, <1>5, <1>7, <2>1
    <2> QED BY <1>1, <1>2, <1>4, <2>2, JoinedIsWhole
<1> HIDE DEF h
<1>9. h \in Group
    BY <1>8 DEF Whole
<1>10. /\ merge' = {} \/ (merge' = merge \ {x} /\ Min(merge') = t /\ merge' # {t})
       /\ merge' = {} => merge \ {x} = {t}
    <2> DEFINE rest == merge \ {x}
    <2>1. rest \in SUBSET (1..n) /\ rest # {} /\ t \in rest /\ rest \subseteq merge
        <3>1. t # x
            BY <1>2
        <3> QED BY <1>1, <1>2, <3>1
    <2> HIDE DEF rest
    <2>2. Min(rest) \in rest /\ Min(rest) <= t
        BY <1>1, <2>1, MergeIndices
    <2>3. Min(rest) \in 1..n /\ t <= Min(rest)
        BY <1>2, <2>1, <2>2
    <2>4. Min(rest) = t
        BY <1>2, <2>2, <2>3
    <2> QED BY <1>3, <2>1, <2>4 DEF Apart, rest
<1>11. all \in Seq(Group) /\ Len(all) = n /\ all[t] = h /\ \A i \in (1..n) \ {t} : all[i] = groups[i]
    BY <1>1, <1>2, <1>9
<1> HIDE DEF all
<1>12. /\ groups' \in Seq(Group) /\ Len(groups') = n - 1
       /\ \A k \in 1..(n - 1) : groups'[k] = all[From(k)]
    BY <1>2, <1>3, <1>11, RemoveAtType
<1>13. /\ \A k \in 1..(n - 1) : From(k) \in 1..n /\ From(k) # x /\ (From(k) = t <=> k = t)
       /\ \A k, l \in 1..(n - 1) : k # l => From(k) # From(l)
       /\ t \in 1..(n - 1)
       /\ \A i \in (1..n) \ {x} : \E k \in 1..(n - 1) : From(k) = i
    <2>1. \A k \in 1..(n - 1) : From(k) \in 1..n /\ From(k) # x /\ (From(k) = t <=> k = t)
        BY <1>1, <1>2
    <2>2. \A k, l \in 1..(n - 1) : k # l => From(k) # From(l)
        BY <1>1, <1>2
    <2>3. t \in 1..(n - 1)
        BY <1>1, <1>2
    <2>4. ASSUME NEW i \in (1..n) \ {x}
          PROVE  \E k \in 1..(n - 1) : From(k) = i
        <3>1. CASE i < x
            <4>1. i \in 1..(n - 1) /\ From(i) = i
                BY <1>1, <1>2, <3>1
            <4> QED BY <4>1
        <3>2. CASE ~(i < x)
            <4>1. i - 1 \in 1..(n - 1) /\ From(i - 1) = i
                BY <1>1, <1>2, <3>2
            <4> QED BY <4>1
        <3> QED BY <3>1, <3>2
    <2> QED BY <2>1, <2>2, <2>3, <2>4
<1>14. \A i \in merge : i # x => i < x /\ From(i) = i /\ i \in 1..(n - 1)
    BY <1>1, <1>2
<1> HIDE DEF From
<1>15. groups'[t] = h /\ \A k \in (1..(n - 1)) \ {t} : groups'[k] = groups[From(k)] /\ From(k) # t
    BY <1>11, <1>12, <1>13
<1>16. GroupsAreWhole'
    BY <1>1, <1>4, <1>8, <1>12, <1>13, <1>15 DEF GroupsAreWhole
<1>17. GroupsPartition'
    <2>1. ASSUME NEW k \in 1..(n - 1), NEW l \in 1..(n - 1), k # l
          PROVE  Members(groups'[k]) \cap Members(groups'[l]) = {}
        <3>1. CASE k = t
            BY <1>2, <1>5, <1>8, <1>13, <1>15, <2>1, <3>1
        <3>2. CASE l = t
            BY <1>2, <1>5, <1>8, <1>13, <1>15, <2>1, <3>2
        <3>3. CASE k # t /\ l # t
            <4>1. From(k) \in 1..n /\ From(l) \in 1..n /\ From(k) # From(l)
                BY <1>13, <2>1
            <4>2. groups'[k] = groups[From(k)] /\ groups'[l] = groups[From(l)]
                BY <1>15, <3>3
            <4> QED BY <1>5, <4>1, <4>2
        <3> QED BY <3>1, <3>2, <3>3
    <2>2. ASSUME NEW m \in Records'
          PROVE  \E k \in 1..(n - 1) : m \in Members(groups'[k])
        <3>1. PICK i \in 1..n : m \in Members(groups[i])
            BY <1>1, <2>2 DEF ConflictsInv, GroupsInv, GroupsPartition, Records
        <3>2. CASE i \in {t, x}
            BY <1>8, <1>13, <1>15, <3>1, <3>2
        <3>3. CASE i \notin {t, x}
            <4>1. PICK k \in 1..(n - 1) : From(k) = i
                BY <1>13, <3>3
            <4> QED BY <1>13, <1>15, <3>1, <3>3, <4>1
        <3> QED BY <3>2, <3>3
    <2> QED BY <1>12, <2>1, <2>2 DEF GroupsPartition
<1>18. ApartUnlessMerging'
    <2>1. ASSUME NEW k \in (1..(n - 1)) \ {t}, Span(h) \cap Span(groups[From(k)]) # {}
          PROVE  merge' = merge \ {x} /\ k \in merge' /\ t \in merge'
        <3>1. From(k) \in (1..n) \ {t, x}
            BY <1>13, <1>15
        <3>2. Span(groups[x]) \cap Span(groups[From(k)]) = {}
            <4>1. x # t /\ From(k) # t /\ From(k) # x
                BY <1>2, <3>1
            <4> QED BY <1>2, <1>6, <3>1, <4>1
        <3>3. From(k) \in merge
            BY <1>2, <1>6, <1>8, <2>1, <3>1, <3>2
        <3>4. From(k) \in 1..(n - 1) /\ From(From(k)) = From(k)
            BY <1>14, <3>1, <3>3
        <3>5. k = From(k)
            BY <1>13, <3>4
        <3> QED BY <1>2, <1>10, <3>1, <3>3, <3>5
    <2>2. ASSUME NEW k \in (1..(n - 1)) \ {t}, NEW l \in (1..(n - 1)) \ {t}, k # l
          PROVE  Span(groups'[k]) \cap Span(groups'[l]) = {}
        <3>1. From(k) \in 1..n /\ From(l) \in 1..n /\ From(k) # From(l)
            BY <1>13, <2>2
        <3>2. /\ groups'[k] = groups[From(k)] /\ groups'[l] = groups[From(l)]
              /\ From(k) # t /\ From(l) # t
            BY <1>15
        <3> QED BY <1>6, <3>1, <3>2
    <2> SUFFICES ASSUME NEW k \in 1..(n - 1), NEW l \in 1..(n - 1), k # l,
                        Span(groups'[k]) \cap Span(groups'[l]) # {}
                 PROVE  k \in merge' /\ l \in merge' /\ (k = Min(merge') \/ l = Min(merge'))
        BY <1>12 DEF ApartUnlessMerging
    <2>3. CASE k = t
        <3>1. Span(h) \cap Span(groups[From(l)]) # {}
            BY <1>15, <2>3
        <3> QED BY <1>10, <2>1, <2>3, <3>1
    <2>4. CASE l = t
        <3>1. Span(h) \cap Span(groups[From(k)]) # {}
            BY <1>15, <2>4
        <3> QED BY <1>10, <2>1, <2>4, <3>1
    <2> QED BY <2>2, <2>3, <2>4
<1>19. MergedShare'
    <2>1. CASE merge' = {}
        BY <2>1 DEF MergedShare
    <2>2. CASE merge' = merge \ {x} /\ Min(merge') = t /\ merge' # {t}
        <3>1. ASSUME NEW i \in merge \ {x}
              PROVE  Span(groups'[t]) \cap Span(groups'[i]) # {}
            <4>1. Span(groups[t]) \cap Span(groups[i]) # {}
                BY <1>7
            <4>2. CASE i = t
                BY <1>8, <1>15, <4>1, <4>2
            <4>3. CASE i # t
                BY <1>8, <1>14, <1>15, <4>1, <4>3
            <4> QED BY <4>2, <4>3
        <3> QED BY <2>2, <3>1 DEF MergedShare
    <2> QED BY <1>10, <2>1, <2>2
<1>20. merge' \in SUBSET (1..Len(groups'))
    BY <1>10, <1>12, <1>14
<1> QED BY <1>12, <1>16, <1>17, <1>18, <1>19, <1>20 DEF GroupsInv

(* No record and no group is what there is at the start. *)
LEMMA ConflictsInvInit == ConflictsInit => ConflictsInv
<1> SUFFICES ASSUME ConflictsInit
             PROVE  ConflictsInv
    OBVIOUS
<1>1. /\ ranges = <<>> /\ groups = <<>> /\ merge = {} /\ conflicts = {} /\ pc = "group"
      /\ Len(ranges) = 0 /\ Len(groups) = 0
    BY DEF ConflictsInit
<1>2. ConflictsTypeOK
    BY <1>1, MaxRecordsAssumption DEF ConflictsTypeOK
<1>3. GroupsInv
    BY <1>1 DEF GroupsInv, GroupsAreWhole, GroupsPartition, ApartUnlessMerging, MergedShare, Records
<1> QED BY <1>1, <1>2, <1>3 DEF ConflictsInv, Filtered

(* Every step of FindAllConflicts keeps the invariant. *)
LEMMA ConflictsInvStep == ConflictsInv /\ [ConflictsNext]_conflictsVars => ConflictsInv'
<1> SUFFICES ASSUME ConflictsInv, [ConflictsNext]_conflictsVars
             PROVE  ConflictsInv'
    OBVIOUS
<1>1. ASSUME GroupsInv', groups' \in Seq(Group), merge' \in SUBSET (1..Len(groups')),
             ranges' \in Seq(Ranges), Len(ranges') <= MaxRecords,
             UNCHANGED <<conflicts, pc>>, pc = "group"
      PROVE  ConflictsInv'
    <2>1. \A i \in 1..Len(groups') : groups'[i].records # <<>>
        BY <1>1 DEF GroupsInv, GroupsAreWhole, Whole
    <2> QED BY <1>1, <2>1 DEF ConflictsInv, ConflictsTypeOK, Filtered
<1>2. ASSUME NEW r \in Ranges, NewGroup(r)
      PROVE  ConflictsInv'
    <2>1. Take(r) /\ UNCHANGED <<conflicts, pc>>
        BY <1>2 DEF NewGroup
    <2> QED BY <1>1, <1>2, <2>1, NewGroupStep, NextRecordIsNew
<1>3. ASSUME NEW r \in Ranges, JoinFirst(r)
      PROVE  ConflictsInv'
    <2>1. Take(r) /\ UNCHANGED <<conflicts, pc>>
        BY <1>3 DEF JoinFirst
    <2> QED BY <1>1, <1>3, <2>1, JoinFirstStep, NextRecordIsNew
<1>4. CASE MergeLast
    <2>1. UNCHANGED <<ranges, conflicts, pc>> /\ pc = "group"
        BY <1>4 DEF MergeLast, ConflictsInv, ConflictsTypeOK, Filtered
    <2>2. ranges' \in Seq(Ranges) /\ Len(ranges') <= MaxRecords
        BY <2>1 DEF ConflictsInv, ConflictsTypeOK
    <2> QED BY <1>1, <1>4, <2>1, <2>2, MergeLastStep
<1>5. CASE Filter
    <2>1. /\ merge = {} /\ pc' = "done" /\ UNCHANGED <<ranges, groups, merge>>
          /\ conflicts' = {g \in ToSet(groups) : Len(g.records) >= 2}
        BY <1>5 DEF Filter, Grouping
    <2>2. conflicts' \in SUBSET Group
        BY <2>1 DEF ConflictsInv, ConflictsTypeOK, ToSet
    <2>3. ConflictsTypeOK' /\ Filtered'
        BY <2>1, <2>2 DEF ConflictsInv, ConflictsTypeOK, Filtered
    <2>4. GroupsInv'
        BY <2>1 DEF ConflictsInv, GroupsInv, GroupsAreWhole, GroupsPartition, ApartUnlessMerging,
                    MergedShare, Records
    <2> QED BY <2>3, <2>4 DEF ConflictsInv
<1>6. CASE UNCHANGED conflictsVars
    BY <1>6 DEF conflictsVars, ConflictsInv, ConflictsTypeOK, Filtered, GroupsInv, GroupsAreWhole,
                GroupsPartition, ApartUnlessMerging, MergedShare, Records
<1> QED BY <1>2, <1>3, <1>4, <1>5, <1>6 DEF ConflictsNext

LEMMA ConflictsInvariant == ConflictsSpec => []ConflictsInv
<1> QED BY ConflictsInvInit, ConflictsInvStep, PTL DEF ConflictsSpec

-----------------------------------------------------------------------------
(* What the groups are in the end *)

(* A group lists its records once each. *)
LEMMA RecordsAreCounted ==
    ASSUME NEW rs, NEW g, Whole(g, rs)
    PROVE  IsFiniteSet(Members(g)) /\ Cardinality(Members(g)) = Len(g.records)
<1> DEFINE n == Len(g.records)
           f == [i \in 1..n |-> g.records[i]]
<1>1. n \in Nat
    BY DEF Whole, Group
<1>2. f \in Bijection(1..n, Members(g))
    <2>1. f \in Injection(1..n, Members(g))
        BY DEF Whole, Members, Injection, IsInjective
    <2>2. f \in Surjection(1..n, Members(g))
        BY DEF Members, Surjection
    <2> QED BY <2>1, <2>2 DEF Bijection
<1>3. IsFiniteSet(1..n) /\ Cardinality(1..n) = n
    BY <1>1, FS_Interval
<1>4. ExistsBijection(1..n, Members(g))
    BY <1>2 DEF ExistsBijection
<1> QED BY <1>3, <1>4, FS_Bijection

(* When no merge is left to do, a group is the component of each of its records:
   no port is shared across groups, and what shares none has all of it. *)
LEMMA GroupsAreComponents ==
    ASSUME ConflictsInv, merge = {}, NEW i \in 1..Len(groups), NEW m \in Members(groups[i])
    PROVE  Component(m) = Members(groups[i])
<1> DEFINE M == Members(groups[i])
<1>1. /\ M \subseteq Records /\ Whole(groups[i], ranges)
      /\ \A j \in 1..Len(groups) :
            Span(groups[j]) = UNION {Span(ranges[k]) : k \in Members(groups[j])}
    BY DEF ConflictsInv, GroupsInv, GroupsAreWhole, Whole, Records
<1>2. Closed(M)
    <2> SUFFICES ASSUME NEW a \in M, NEW b \in Records \ M
                 PROVE  Span(ranges[a]) \cap Span(ranges[b]) = {}
        BY DEF Closed
    <2>1. PICK j \in 1..Len(groups) : b \in Members(groups[j])
        BY DEF ConflictsInv, GroupsInv, GroupsPartition
    <2>2. i # j
        BY <2>1
    <2>3. Span(groups[i]) \cap Span(groups[j]) = {}
        BY <2>2 DEF ConflictsInv, GroupsInv, ApartUnlessMerging
    <2>4. Span(ranges[a]) \subseteq Span(groups[i]) /\ Span(ranges[b]) \subseteq Span(groups[j])
        BY <1>1, <2>1
    <2> QED BY <2>3, <2>4
<1>3. Component(m) \subseteq M
    BY <1>1, <1>2 DEF Component
<1>4. ASSUME NEW S \in SUBSET Records, m \in S, Closed(S)
      PROVE  M \subseteq S
    <2>1. ClosedIn(S, ranges)
        BY <1>4 DEF Closed, ClosedIn, Records
    <2> QED BY <1>1, <1>4, <2>1 DEF Whole, Records
<1>5. M \subseteq Component(m)
    BY <1>1, <1>4 DEF Component
<1> QED BY <1>3, <1>5

(* The result of FindAllConflicts. *)
LEMMA ResultIsComponents == ConflictsInv => ConflictsAreComponents
<1> SUFFICES ASSUME ConflictsInv, pc = "done"
             PROVE  /\ {Members(g) : g \in conflicts}
                          = {c \in {Component(i) : i \in Records} : Cardinality(c) >= 2}
                    /\ \A g, h \in conflicts : Members(g) = Members(h) => g = h
                    /\ \A g \in conflicts :
                          /\ Len(g.records) = Cardinality(Members(g))
                          /\ Span(g) = UNION {Span(ranges[m]) : m \in Members(g)}
    BY DEF ConflictsAreComponents
<1>1. merge = {} /\ conflicts = {g \in {groups[i] : i \in 1..Len(groups)} : Len(g.records) >= 2}
    BY DEF ConflictsInv, ConflictsTypeOK, Filtered, ToSet
<1>2. \A i \in 1..Len(groups) :
          /\ Whole(groups[i], ranges)
          /\ Members(groups[i]) \subseteq Records
          /\ \E m \in Members(groups[i]) : TRUE
          /\ Cardinality(Members(groups[i])) = Len(groups[i].records)
    BY WholeHasMember, RecordsAreCounted DEF ConflictsInv, GroupsInv, GroupsAreWhole, Whole, Records
<1>3. \A i \in 1..Len(groups) : \A m \in Members(groups[i]) : Component(m) = Members(groups[i])
    BY <1>1, GroupsAreComponents
<1>4. ASSUME NEW g \in conflicts
      PROVE  Members(g) \in {c \in {Component(i) : i \in Records} : Cardinality(c) >= 2}
    <2>1. PICK i \in 1..Len(groups) : g = groups[i] /\ Len(g.records) >= 2
        BY <1>1
    <2>2. PICK m \in Members(g) : m \in Records /\ Component(m) = Members(g)
        BY <1>2, <1>3, <2>1
    <2>3. Cardinality(Members(g)) >= 2
        BY <1>2, <2>1
    <2> QED BY <2>2, <2>3
<1>5. ASSUME NEW m \in Records, Cardinality(Component(m)) >= 2
      PROVE  Component(m) \in {Members(g) : g \in conflicts}
    <2>1. PICK i \in 1..Len(groups) : m \in Members(groups[i])
        BY DEF ConflictsInv, GroupsInv, GroupsPartition
    <2>2. Component(m) = Members(groups[i])
        BY <1>3, <2>1
    <2>3. Len(groups[i].records) >= 2
        BY <1>2, <1>5, <2>2
    <2>4. groups[i] \in conflicts
        BY <1>1, <2>3
    <2> QED BY <2>2, <2>4
<1>6. ASSUME NEW g \in conflicts, NEW h \in conflicts, Members(g) = Members(h)
      PROVE  g = h
    <2>1. PICK i \in 1..Len(groups) : g = groups[i]
        BY <1>1
    <2>2. PICK j \in 1..Len(groups) : h = groups[j]
        BY <1>1
    <2>3. Members(groups[i]) \cap Members(groups[j]) # {}
        BY <1>2, <1>6, <2>1, <2>2
    <2>4. i = j
        BY <2>3 DEF ConflictsInv, GroupsInv, GroupsPartition
    <2> QED BY <2>1, <2>2, <2>4
<1>7. ASSUME NEW g \in conflicts
      PROVE  /\ Len(g.records) = Cardinality(Members(g))
             /\ Span(g) = UNION {Span(ranges[m]) : m \in Members(g)}
    <2>1. PICK i \in 1..Len(groups) : g = groups[i]
        BY <1>1
    <2> QED BY <1>2, <2>1 DEF Whole
<1> QED BY <1>4, <1>5, <1>6, <1>7

-----------------------------------------------------------------------------
(* Type correctness of FindAllConflicts, with it that no group is without a
   record. *)
THEOREM ConflictsTypeCorrect == ConflictsSpec => []ConflictsTypeOK
<1>1. ConflictsInv => ConflictsTypeOK
    BY DEF ConflictsInv
<1> QED BY <1>1, ConflictsInvariant, PTL

(* For any ranges in any order, the hull of a group has no port that none of its
   records has: comparing the next record with the hulls is comparing it with
   the records. *)
THEOREM ConflictsHullsAreCovered == ConflictsSpec => []HullsAreCovered
<1>1. ConflictsInv => HullsAreCovered
    BY DEF ConflictsInv, GroupsInv, GroupsAreWhole, Whole, HullsAreCovered
<1> QED BY <1>1, ConflictsInvariant, PTL

(* For any ranges in any order, one pass over the groups is enough: no two
   groups share a port when the next record is read. *)
THEOREM ConflictsGroupsAreApart == ConflictsSpec => []GroupsAreApart
<1>1. ConflictsInv => GroupsAreApart
    BY DEF ConflictsInv, GroupsInv, ApartUnlessMerging, GroupsAreApart
<1> QED BY <1>1, ConflictsInvariant, PTL

(* For any ranges in any order, FindAllConflicts returns the connected
   components, under sharing a port, that have two records or more. *)
THEOREM FindAllConflictsIsCorrect == ConflictsSpec => []ConflictsAreComponents
<1> QED BY ConflictsInvariant, ResultIsComponents, PTL

-----------------------------------------------------------------------------
(* GetCustomConfig *)

(* Of a line with text, the matcher is a matcher of its kind. *)
LEMMA DomainsAreMatchers ==
    ASSUME NEW lines \in SUBSET Line
    PROVE  buildRouteDomains(lines) \subseteq Matchers
<1> DEFINE Kept == {k \in lines : k.form # "blank" /\ k.text # Empty}
<1> SUFFICES ASSUME NEW l \in Kept
             PROVE  [kind |-> DomainKind(l.form), text |-> l.text] \in Matcher
    BY DEF buildRouteDomains, Matchers
<1>1. l \in Line /\ l.text # Empty
    OBVIOUS
<1>2. l.text \in Texts
    BY <1>1 DEF Line
<1>3. DomainKind(l.form) \in {"plain", "domain", "regexp", "full"}
    BY DEF DomainKind
<1> QED BY <1>2, <1>3 DEF Matcher

(* A rule is made for matchers only, and carries the tag it is made with. *)
LEMMA RuleForType ==
    ASSUME NEW on \in SUBSET Matchers, NEW tag \in Names
    PROVE  /\ RuleFor(on, tag) \in Seq(Rule)
           /\ \A i \in DOMAIN RuleFor(on, tag) : RuleFor(on, tag)[i].tag = tag
<1>1. CASE on = {}
    BY <1>1 DEF RuleFor
<1>2. CASE on # {}
    <2>1. [on |-> on, tag |-> tag] \in Rule
        BY <1>2 DEF Rule
    <2> QED BY <1>2, <2>1 DEF RuleFor
<1> QED BY <1>1, <1>2

(* Two lists of rules that carry a tag make one that does. *)
LEMMA RulesJoin ==
    ASSUME NEW s \in Seq(Rule), NEW t \in Seq(Rule), NEW Tags,
           \A i \in DOMAIN s : s[i].tag \in Tags,
           \A i \in DOMAIN t : t[i].tag \in Tags
    PROVE  /\ s \o t \in Seq(Rule)
           /\ \A i \in DOMAIN (s \o t) : (s \o t)[i].tag \in Tags
<1>1. s \o t \in Seq(Rule) /\ Len(s \o t) = Len(s) + Len(t)
    OBVIOUS
<1>2. ASSUME NEW i \in 1..(Len(s) + Len(t))
      PROVE  (s \o t)[i].tag \in Tags
    <2>1. CASE i <= Len(s)
        BY <2>1
    <2>2. CASE i > Len(s)
        <3>1. (s \o t)[i] = t[i - Len(s)] /\ i - Len(s) \in DOMAIN t
            BY <2>2
        <3> QED BY <3>1
    <2> QED BY <2>1, <2>2
<1> QED BY <1>1, <1>2

(* The rules of an item are rules, and lead to the item's outbound. *)
LEMMA ItemRulesType ==
    ASSUME NEW it \in Item
    PROVE  /\ buildOutboundRouteRules(it.rules, it.name) \in Seq(Rule)
           /\ \A i \in DOMAIN buildOutboundRouteRules(it.rules, it.name) :
                 buildOutboundRouteRules(it.rules, it.name)[i].tag = it.name
<1> DEFINE address == {l \in it.rules : l.form \in {"ip", "bareIp"}}
           ips == {[kind |-> "cidr", text |-> l.text] : l \in {k \in address : k.text # Empty}}
           all == {l \in it.rules : l.form = "all"}
           domains == buildRouteDomains(it.rules \ address)
<1>1. it.name \in Names /\ it.rules \in SUBSET Line
    BY DEF Item
<1>2. domains \in SUBSET Matchers
    BY <1>1, DomainsAreMatchers
<1>3. ips \in SUBSET Matchers
    <2>1. ASSUME NEW l \in {k \in address : k.text # Empty}
          PROVE  [kind |-> "cidr", text |-> l.text] \in Matcher
        BY <1>1 DEF Line, Matcher
    <2> QED BY <2>1 DEF Matchers
<1>4. {AnyMatch} \in SUBSET Matchers
    BY DEF Matchers
<1>5. buildOutboundRouteRules(it.rules, it.name)
        = IF all # {} THEN RuleFor({AnyMatch}, it.name)
          ELSE RuleFor(domains, it.name) \o RuleFor(ips, it.name)
    BY DEF buildOutboundRouteRules
<1> HIDE DEF address, ips, all, domains
<1>6. CASE all # {}
    BY <1>1, <1>4, <1>5, <1>6, RuleForType
<1>7. CASE all = {}
    <2>1. /\ RuleFor(domains, it.name) \in Seq(Rule)
          /\ \A i \in DOMAIN RuleFor(domains, it.name) : RuleFor(domains, it.name)[i].tag \in {it.name}
        BY <1>1, <1>2, RuleForType
    <2>2. /\ RuleFor(ips, it.name) \in Seq(Rule)
          /\ \A i \in DOMAIN RuleFor(ips, it.name) : RuleFor(ips, it.name)[i].tag \in {it.name}
        BY <1>1, <1>3, RuleForType
    <2>3. /\ RuleFor(domains, it.name) \o RuleFor(ips, it.name) \in Seq(Rule)
          /\ \A i \in DOMAIN (RuleFor(domains, it.name) \o RuleFor(ips, it.name)) :
                (RuleFor(domains, it.name) \o RuleFor(ips, it.name))[i].tag \in {it.name}
        BY <2>1, <2>2, RulesJoin
    <2> QED BY <1>5, <1>7, <2>3
<1> QED BY <1>6, <1>7

-----------------------------------------------------------------------------
(* What holds in every state: the two lists are what they should be, no tag is
   taken twice, and every rule has its outbound. *)
ConfigInv == TypeOK /\ TagsAreUnique /\ RulesHaveOutbounds

(* The rules for DNS and for the block list have their outbounds from the start. *)
LEMMA ConfigInit == Init => ConfigInv
<1> SUFFICES ASSUME Init PROVE ConfigInv
    OBVIOUS
<1> DEFINE Kept == {"Default", "block", "dns_out"}
<1>1. outbounds \in Seq(Names) /\ outbounds = <<"Default", "block", "dns_out">>
    BY NamesAssumption DEF Init
<1>2. TagsAreUnique
    BY <1>1 DEF TagsAreUnique
<1>3. ToSet(outbounds) = Kept
    BY <1>1 DEF ToSet
<1>4. blockList \in SUBSET Lines /\ buildRouteDomains(blockList) \in SUBSET Matchers
    BY DomainsAreMatchers, LinesAssumption DEF Init
<1>5. /\ RuleFor({DnsMatch}, "dns_out") \in Seq(Rule)
      /\ \A i \in DOMAIN RuleFor({DnsMatch}, "dns_out") :
            RuleFor({DnsMatch}, "dns_out")[i].tag \in Kept
    <2>1. {DnsMatch} \in SUBSET Matchers
        BY DEF Matchers
    <2> QED BY <2>1, RuleForType, NamesAssumption
<1>6. /\ RuleFor(buildRouteDomains(blockList), "block") \in Seq(Rule)
      /\ \A i \in DOMAIN RuleFor(buildRouteDomains(blockList), "block") :
            RuleFor(buildRouteDomains(blockList), "block")[i].tag \in Kept
    BY <1>4, RuleForType, NamesAssumption
<1>7. rules \in Seq(Rule) /\ \A i \in DOMAIN rules : rules[i].tag \in Kept
    <2> HIDE DEF Kept
    <2>1. rules = RuleFor({DnsMatch}, "dns_out") \o RuleFor(buildRouteDomains(blockList), "block")
        BY DEF Init
    <2> QED BY <1>5, <1>6, <2>1, RulesJoin
<1>8. TypeOK
    <2>1. items \in Seq(Items) /\ Len(items) <= MaxItems
        BY MaxItemsAssumption DEF Init
    <2>2. result = "building"
        BY DEF Init
    <2> QED BY <1>1, <1>4, <1>7, <2>1, <2>2 DEF TypeOK
<1> QED BY <1>2, <1>3, <1>7, <1>8 DEF ConfigInv, RulesHaveOutbounds

(* An item that is read is a legal one, and the list stays within its bound. *)
LEMMA ReadType ==
    ASSUME TypeOK, NEW it \in Items, Read(it)
    PROVE  /\ items' \in Seq(Items) /\ Len(items') <= MaxItems
           /\ blockList' \subseteq Lines
BY MaxItemsAssumption DEF TypeOK, Read

(* An item that is used keeps all tags and adds its own, once. *)
LEMMA AddKeepsInv ==
    ASSUME ConfigInv, NEW it \in Items, Add(it)
    PROVE  ConfigInv'
<1> DEFINE own == buildOutboundRouteRules(it.rules, it.name)
<1>1. it \in Item /\ it.name \in Names
    BY ItemsAssumption DEF Item
<1>2. TypeOK /\ Read(it)
    BY DEF ConfigInv, Add
<1>3. own \in Seq(Rule) /\ \A i \in DOMAIN own : own[i].tag = it.name
    BY <1>1, ItemRulesType
<1> HIDE DEF own
<1>4. /\ outbounds' \in Seq(Names)
      /\ TagsAreUnique'
      /\ ToSet(outbounds) \cup {it.name} \subseteq ToSet(outbounds')
    <2>1. CASE hasOutboundWithTag(it.name)
        BY <1>2, <2>1 DEF Add, ConfigInv, TypeOK, TagsAreUnique, hasOutboundWithTag
    <2>2. CASE ~hasOutboundWithTag(it.name)
        <3>1. outbounds' = Append(outbounds, it.name) /\ outbounds \in Seq(Names)
            BY <1>2, <2>2 DEF Add, TypeOK
        <3>2. outbounds' \in Seq(Names) /\ Len(outbounds') = Len(outbounds) + 1
            BY <1>1, <3>1
        <3>3. /\ outbounds'[Len(outbounds) + 1] = it.name
              /\ \A i \in 1..Len(outbounds) : outbounds'[i] = outbounds[i] /\ outbounds[i] # it.name
            BY <1>1, <2>2, <3>1 DEF hasOutboundWithTag, ToSet
        <3>4. TagsAreUnique'
            <4> SUFFICES ASSUME NEW i \in 1..(Len(outbounds) + 1), NEW j \in 1..(Len(outbounds) + 1),
                                outbounds'[i] = outbounds'[j]
                         PROVE  i = j
                BY <3>2 DEF TagsAreUnique
            <4>1. CASE i \in 1..Len(outbounds) /\ j \in 1..Len(outbounds)
                BY <3>1, <3>3, <4>1 DEF ConfigInv, TagsAreUnique
            <4>2. CASE i = Len(outbounds) + 1 \/ j = Len(outbounds) + 1
                BY <3>1, <3>3, <4>2
            <4> QED BY <3>1, <4>1, <4>2
        <3>5. ToSet(outbounds) \cup {it.name} \subseteq ToSet(outbounds')
            <4>1. \A i \in DOMAIN outbounds : outbounds[i] \in ToSet(outbounds')
                BY <3>1, <3>2, <3>3 DEF ToSet
            <4>2. it.name \in ToSet(outbounds')
                BY <3>1, <3>2, <3>3 DEF ToSet
            <4> QED BY <4>1, <4>2 DEF ToSet
        <3> QED BY <3>2, <3>4, <3>5
    <2> QED BY <2>1, <2>2
<1>5. rules' \in Seq(Rule) /\ RulesHaveOutbounds'
    <2> DEFINE Kept == ToSet(outbounds')
    <2>1. rules \in Seq(Rule) /\ \A i \in DOMAIN rules : rules[i].tag \in Kept
        BY <1>2, <1>4 DEF TypeOK, ConfigInv, RulesHaveOutbounds
    <2>2. \A i \in DOMAIN own : own[i].tag \in Kept
        BY <1>3, <1>4
    <2>3. rules' = rules \o own
        BY DEF Add, own
    <2> HIDE DEF Kept
    <2>4. rules' \in Seq(Rule) /\ \A i \in DOMAIN rules' : rules'[i].tag \in Kept
        BY <1>3, <2>1, <2>2, <2>3, RulesJoin
    <2> QED BY <2>4 DEF Kept, RulesHaveOutbounds
<1>6. result' \in {"building", "ok", "error"}
    BY <1>2 DEF Add, TypeOK
<1> QED BY <1>2, <1>4, <1>5, <1>6, ReadType DEF ConfigInv, TypeOK

(* Every other step leaves both lists alone. *)
LEMMA ConfigStep == ConfigInv /\ [Next]_vars => ConfigInv'
<1> SUFFICES ASSUME ConfigInv, [Next]_vars PROVE ConfigInv'
    OBVIOUS
<1> USE DEF ConfigInv, TypeOK, TagsAreUnique, RulesHaveOutbounds
<1>1. ASSUME NEW it \in Items, Skip(it) PROVE ConfigInv'
    BY <1>1, ReadType DEF Skip
<1>2. ASSUME NEW it \in Items, Fail(it) PROVE ConfigInv'
    BY <1>2, ReadType DEF Fail
<1>3. ASSUME NEW it \in Items, Add(it) PROVE ConfigInv'
    BY <1>3, AddKeepsInv
<1>4. CASE Finish
    BY <1>4 DEF Finish
<1>5. CASE UNCHANGED vars
    BY <1>5 DEF vars
<1> QED BY <1>1, <1>2, <1>3, <1>4, <1>5 DEF Next

(* The invariant holds in every state of the specification. *)
LEMMA ConfigInvariant == Spec => []ConfigInv
<1>1. Init => ConfigInv
    BY ConfigInit
<1>2. ConfigInv /\ [Next]_vars => ConfigInv'
    BY ConfigStep
<1> QED BY <1>1, <1>2, PTL DEF Spec

(* Type correctness, with it that no rule is without a matcher: the lines that
   are dropped never leave a rule that selects nothing or everything. *)
THEOREM CustomConfigTypeCorrect == Spec => []TypeOK
<1>1. ConfigInv => TypeOK
    BY DEF ConfigInv
<1> QED BY <1>1, ConfigInvariant, PTL

(* Whatever the panel calls its outbounds, no tag is taken twice. *)
THEOREM CustomConfigTagsUnique == Spec => []TagsAreUnique
<1>1. ConfigInv => TagsAreUnique
    BY DEF ConfigInv
<1> QED BY <1>1, ConfigInvariant, PTL

(* Whatever items are skipped or share a name, every rule has its outbound. *)
THEOREM CustomConfigRulesHaveOutbounds == Spec => []RulesHaveOutbounds
<1>1. ConfigInv => RulesHaveOutbounds
    BY DEF ConfigInv
<1> QED BY <1>1, ConfigInvariant, PTL
-----------------------------------------------------------------------------
(* Which rule a connection takes *)

(* The rules that match t, and the items with a line that covers it. *)
Hits(rs, t) == {i \in DOMAIN rs : \E m \in rs[i].on : t \in Selects[m]}
Takers(t) == {i \in DOMAIN items : t \in Takes(items[i])}

(* All rules of rs lead to one outbound. *)
Tagged(rs, tag) == \A i \in DOMAIN rs : rs[i].tag = tag

(* Where rs sends t. *)
Answer(rs, t) == IF Hits(rs, t) = {} THEN "Default" ELSE rs[Min(Hits(rs, t))].tag

LEMMA LeastIsMin ==
    ASSUME NEW T \in SUBSET Nat, NEW x \in T, \A y \in T : x <= y
    PROVE  Min(T) = x
<1>1. Min(T) \in T /\ Min(T) <= x
    BY MinIsLeast
<1>2. x <= Min(T) /\ x \in Nat /\ Min(T) \in Nat
    BY <1>1
<1> QED BY <1>1, <1>2

(* Rules that are appended, of one tag, get the traffic that no rule matched. *)
LEMMA HitsJoin ==
    ASSUME NEW s \in Seq(Rule), NEW u \in Seq(Rule), NEW tag, Tagged(u, tag), NEW t
    PROVE  /\ Hits(s \o u, t) # {} <=> Hits(s, t) # {} \/ Hits(u, t) # {}
           /\ Answer(s \o u, t) = IF Hits(s, t) # {} THEN Answer(s, t)
                                  ELSE IF Hits(u, t) # {} THEN tag ELSE "Default"
<1>1. /\ s \o u \in Seq(Rule) /\ Len(s \o u) = Len(s) + Len(u)
      /\ \A i \in 1..Len(s) : (s \o u)[i] = s[i]
      /\ \A i \in 1..Len(u) : (s \o u)[Len(s) + i] = u[i]
    OBVIOUS
<1>2. Hits(s, t) \subseteq 1..Len(s) /\ Hits(u, t) \subseteq 1..Len(u)
    BY DEF Hits
<1>3. \A i \in 1..Len(s) : i \in Hits(s \o u, t) <=> i \in Hits(s, t)
    BY <1>1 DEF Hits
<1>4. \A i \in 1..Len(u) : Len(s) + i \in Hits(s \o u, t) <=> i \in Hits(u, t)
    BY <1>1 DEF Hits
<1>5. \A i \in Hits(s \o u, t) :
         \/ i \in 1..Len(s)
         \/ i > Len(s) /\ \E k \in 1..Len(u) : i = Len(s) + k
    <2>1. ASSUME NEW i \in Hits(s \o u, t), i > Len(s)
          PROVE  i - Len(s) \in 1..Len(u) /\ i = Len(s) + (i - Len(s))
        BY <1>1, <2>1 DEF Hits
    <2>2. Hits(s \o u, t) \subseteq 1..(Len(s) + Len(u))
        BY <1>1 DEF Hits
    <2> QED BY <2>1, <2>2
<1>6. Hits(s \o u, t) \in SUBSET Nat
    BY <1>1 DEF Hits
<1>7. CASE Hits(s, t) # {}
    <2> DEFINE first == Min(Hits(s, t))
    <2>1. first \in Hits(s, t) /\ \A i \in Hits(s, t) : first <= i
        BY <1>2, <1>7, MinIsLeast
    <2> HIDE DEF first
    <2>2. \A i \in Hits(s \o u, t) : first <= i
        BY <1>2, <1>3, <1>5, <2>1
    <2>3. Min(Hits(s \o u, t)) = first /\ first \in Hits(s \o u, t)
        BY <1>2, <1>3, <1>6, <2>1, <2>2, LeastIsMin
    <2> QED BY <1>1, <1>2, <1>7, <2>1, <2>3 DEF Answer, first
<1>8. CASE Hits(s, t) = {} /\ Hits(u, t) # {}
    <2>1. Hits(s \o u, t) # {}
        BY <1>2, <1>4, <1>8
    <2>2. Min(Hits(s \o u, t)) \in Hits(s \o u, t)
        BY <1>6, <2>1, MinIsLeast
    <2>3. PICK k \in 1..Len(u) : Min(Hits(s \o u, t)) = Len(s) + k
        BY <1>3, <1>5, <1>8, <2>2
    <2>4. (s \o u)[Min(Hits(s \o u, t))].tag = tag
        BY <1>1, <2>3 DEF Tagged
    <2> QED BY <1>8, <2>1, <2>4 DEF Answer
<1>9. CASE Hits(s, t) = {} /\ Hits(u, t) = {}
    <2>1. Hits(s \o u, t) = {}
        BY <1>3, <1>4, <1>5, <1>9
    <2> QED BY <1>9, <2>1 DEF Answer
<1> QED BY <1>7, <1>8, <1>9

(* A rule matches what its matchers select. *)
LEMMA RuleForHits ==
    ASSUME NEW on \in SUBSET Matchers, NEW tag \in Names, NEW t
    PROVE  Hits(RuleFor(on, tag), t) # {} <=> \E m \in on : t \in Selects[m]
<1>1. CASE on = {}
    BY <1>1 DEF RuleFor, Hits
<1>2. CASE on # {}
    BY <1>2 DEF RuleFor, Hits
<1> QED BY <1>1, <1>2

(* The domains of a list select what its lines say. *)
LEMMA DomainsTake ==
    ASSUME NEW lines \in SUBSET Line, NEW t,
           \A l \in lines : l.form \notin {"all", "ip", "bareIp"}
    PROVE  (\E m \in buildRouteDomains(lines) : t \in Selects[m])
               <=> \E l \in lines : t \in LineTakes(l)
<1> DEFINE Kept == {k \in lines : k.form # "blank" /\ k.text # Empty}
<1>1. ASSUME NEW l \in lines
      PROVE  LineTakes(l) = IF l \in Kept THEN Selects[[kind |-> DomainKind(l.form), text |-> l.text]]
                            ELSE {}
    BY DEF LineTakes
<1>2. buildRouteDomains(lines) = {[kind |-> DomainKind(l.form), text |-> l.text] : l \in Kept}
    BY DEF buildRouteDomains
<1> QED BY <1>1, <1>2

(* The rules of an item match what its lines cover, line by line. *)
LEMMA ItemRulesTake ==
    ASSUME NEW it \in Item, NEW t \in Traffic
    PROVE  Hits(buildOutboundRouteRules(it.rules, it.name), t) # {}
               <=> \E l \in it.rules : t \in LineTakes(l)
<1> DEFINE address == {l \in it.rules : l.form \in {"ip", "bareIp"}}
           ips == {[kind |-> "cidr", text |-> l.text] : l \in {k \in address : k.text # Empty}}
           all == {l \in it.rules : l.form = "all"}
           rest == it.rules \ address
           domains == buildRouteDomains(rest)
<1>1. it.name \in Names /\ it.rules \in SUBSET Line
    BY DEF Item
<1>2. domains \in SUBSET Matchers /\ {AnyMatch} \in SUBSET Matchers
    BY <1>1, DomainsAreMatchers DEF Matchers
<1>3. ips \in SUBSET Matchers
    <2>1. ASSUME NEW l \in {k \in address : k.text # Empty}
          PROVE  [kind |-> "cidr", text |-> l.text] \in Matcher
        BY <1>1 DEF Line, Matcher
    <2> QED BY <2>1 DEF Matchers
<1>4. buildOutboundRouteRules(it.rules, it.name)
        = IF all # {} THEN RuleFor({AnyMatch}, it.name)
          ELSE RuleFor(domains, it.name) \o RuleFor(ips, it.name)
    BY DEF buildOutboundRouteRules
<1>5. CASE all # {}
    <2>1. Hits(RuleFor({AnyMatch}, it.name), t) # {}
        BY <1>1, <1>2, SelectsAssumption, RuleForHits
    <2>2. PICK l \in it.rules : l.form = "all"
        BY <1>5
    <2>3. t \in LineTakes(l)
        BY <2>2 DEF LineTakes
    <2> HIDE DEF all
    <2> QED BY <1>4, <1>5, <2>1, <2>3
<1>6. CASE all = {}
    <2>1. (\E m \in domains : t \in Selects[m]) <=> \E l \in rest : t \in LineTakes(l)
        <3>1. rest \in SUBSET Line /\ \A l \in rest : l.form \notin {"all", "ip", "bareIp"}
            BY <1>1, <1>6
        <3> HIDE DEF rest
        <3> QED BY <3>1, DomainsTake
    <2>2. (\E m \in ips : t \in Selects[m]) <=> \E l \in address : t \in LineTakes(l)
        <3>1. ASSUME NEW l \in address
              PROVE  LineTakes(l) = IF l.text = Empty THEN {}
                                    ELSE Selects[[kind |-> "cidr", text |-> l.text]]
            BY DEF LineTakes
        <3> QED BY <3>1
    <2>3. (\E l \in it.rules : t \in LineTakes(l))
              <=> (\E l \in rest : t \in LineTakes(l)) \/ (\E l \in address : t \in LineTakes(l))
        OBVIOUS
    <2> HIDE DEF address, ips, rest, domains, all
    <2>4. /\ RuleFor(domains, it.name) \in Seq(Rule)
          /\ RuleFor(ips, it.name) \in Seq(Rule)
          /\ Tagged(RuleFor(ips, it.name), it.name)
        BY <1>1, <1>2, <1>3, RuleForType DEF Tagged
    <2>5. Hits(RuleFor(domains, it.name) \o RuleFor(ips, it.name), t) # {}
              <=> \/ Hits(RuleFor(domains, it.name), t) # {}
                  \/ Hits(RuleFor(ips, it.name), t) # {}
        BY <2>4, HitsJoin
    <2>6. /\ Hits(RuleFor(domains, it.name), t) # {} <=> \E m \in domains : t \in Selects[m]
          /\ Hits(RuleFor(ips, it.name), t) # {} <=> \E m \in ips : t \in Selects[m]
        BY <1>1, <1>2, <1>3, RuleForHits
    <2> QED BY <1>4, <1>6, <2>1, <2>2, <2>3, <2>5, <2>6
<1> QED BY <1>5, <1>6

-----------------------------------------------------------------------------
(* The rules match what the DNS rule, the block list and the items read so far
   take and nothing else, and what none matches goes to the default outbound. *)
RulesCover ==
    \A t \in Traffic : Hits(rules, t) # {} <=> t \in DnsTraffic \cup Blocked \/ Takers(t) # {}

DefaultIsFirst == outbounds # <<>> /\ outbounds[1] = "Default"

RoutesAnswer == \A t \in Traffic : Answer(rules, t) = Wanted(t)

RoutesInv == ConfigInv /\ RulesCover /\ DefaultIsFirst /\ RoutesAnswer

(* What is wanted is the default where nobody takes the traffic. *)
LEMMA WantedOfNobody ==
    ASSUME NEW t, t \notin DnsTraffic \cup Blocked, Takers(t) = {}
    PROVE  Wanted(t) = "Default"
BY DEF Wanted, Takers

(* Before an item is read, the DNS rule comes first and the block list second. *)
LEMMA RoutesInit == Init => RoutesInv
<1> SUFFICES ASSUME Init PROVE RoutesInv
    OBVIOUS
<1> DEFINE dns == RuleFor({DnsMatch}, "dns_out")
           blocked == RuleFor(buildRouteDomains(blockList), "block")
<1>1. ConfigInv
    BY ConfigInit
<1>2. DefaultIsFirst
    BY DEF Init, DefaultIsFirst
<1>3. {DnsMatch} \in SUBSET Matchers /\ buildRouteDomains(blockList) \in SUBSET Matchers
    BY DomainsAreMatchers, LinesAssumption DEF Init, Matchers
<1>4. /\ dns \in Seq(Rule) /\ Tagged(dns, "dns_out")
      /\ blocked \in Seq(Rule) /\ Tagged(blocked, "block")
    BY <1>3, RuleForType, NamesAssumption DEF Tagged
<1>5. rules = dns \o blocked /\ items = <<>>
    BY DEF Init
<1>6. ASSUME NEW t \in Traffic
      PROVE  /\ Hits(dns, t) # {} <=> t \in DnsTraffic
             /\ Hits(blocked, t) # {} <=> t \in Blocked
    <2>1. Hits(dns, t) # {} <=> t \in DnsTraffic
        BY <1>3, NamesAssumption, SelectsAssumption, RuleForHits
    <2>2. Hits(blocked, t) # {} <=> \E m \in buildRouteDomains(blockList) : t \in Selects[m]
        BY <1>3, NamesAssumption, RuleForHits
    <2> QED BY <2>1, <2>2 DEF Blocked
<1> HIDE DEF dns, blocked
<1>7. ASSUME NEW t \in Traffic
      PROVE  /\ Hits(rules, t) # {} <=> t \in DnsTraffic \cup Blocked
             /\ Takers(t) = {}
             /\ Answer(rules, t) = Wanted(t)
    <2>1. /\ Hits(rules, t) # {} <=> t \in DnsTraffic \cup Blocked
          /\ Answer(rules, t) = IF t \in DnsTraffic THEN Answer(dns, t)
                                ELSE IF t \in Blocked THEN "block" ELSE "Default"
        <3>1. /\ Hits(dns \o blocked, t) # {} <=> Hits(dns, t) # {} \/ Hits(blocked, t) # {}
              /\ Answer(dns \o blocked, t) = IF Hits(dns, t) # {} THEN Answer(dns, t)
                                             ELSE IF Hits(blocked, t) # {} THEN "block" ELSE "Default"
            BY <1>4, HitsJoin
        <3> QED BY <1>5, <1>6, <3>1
    <2>2. t \in DnsTraffic => Answer(dns, t) = "dns_out"
        <3>1. Hits(dns, t) \in SUBSET Nat /\ Hits(dns, t) \subseteq DOMAIN dns
            BY <1>4 DEF Hits
        <3>2. t \in DnsTraffic => Min(Hits(dns, t)) \in Hits(dns, t)
            BY <1>6, <3>1, MinIsLeast
        <3> QED BY <1>4, <1>6, <3>1, <3>2 DEF Answer, Tagged
    <2>3. Takers(t) = {}
        BY <1>5 DEF Takers
    <2>4. Wanted(t) = IF t \in DnsTraffic THEN "dns_out" ELSE IF t \in Blocked THEN "block" ELSE "Default"
        BY <2>3 DEF Wanted, Takers
    <2> QED BY <2>1, <2>2, <2>3, <2>4
<1> QED BY <1>1, <1>2, <1>7 DEF RoutesInv, RulesCover, RoutesAnswer

(* An item that is read is the last taker: it gets what nobody took before. *)
LEMMA ReadTakers ==
    ASSUME TypeOK, NEW it \in Items, Read(it), NEW t \in Traffic
    PROVE  /\ Blocked' = Blocked
           /\ Takers(t)' # {} <=> Takers(t) # {} \/ t \in Takes(it)
           /\ Wanted(t)' = IF t \in DnsTraffic \cup Blocked \/ Takers(t) # {} THEN Wanted(t)
                           ELSE IF t \in Takes(it) THEN it.name ELSE "Default"
<1>1. /\ items \in Seq(Items) /\ Len(items) \in Nat
      /\ DOMAIN items = 1..Len(items) /\ DOMAIN items' = 1..(Len(items) + 1)
      /\ \A i \in 1..Len(items) : items'[i] = items[i]
      /\ items'[Len(items) + 1] = it
    BY DEF TypeOK, Read
<1>2. Blocked' = Blocked
    BY DEF Read, Blocked
<1> DEFINE Later == {i \in DOMAIN items' : t \in Takes(items'[i])}
<1>3. /\ Takers(t) \subseteq 1..Len(items)
      /\ Later \subseteq 1..(Len(items) + 1)
      /\ \A i \in 1..Len(items) : i \in Later <=> i \in Takers(t)
      /\ Len(items) + 1 \in Later <=> t \in Takes(it)
    BY <1>1 DEF Takers
<1>4. Takers(t)' = Later
    BY DEF Takers
<1>5. /\ Wanted(t) = CASE t \in DnsTraffic -> "dns_out"
                       [] t \in Blocked \ DnsTraffic -> "block"
                       [] t \notin Blocked \cup DnsTraffic /\ Takers(t) # {} -> items[Min(Takers(t))].name
                       [] OTHER -> "Default"
      /\ Wanted(t)' = CASE t \in DnsTraffic -> "dns_out"
                        [] t \in Blocked \ DnsTraffic -> "block"
                        [] t \notin Blocked \cup DnsTraffic /\ Later # {} -> items'[Min(Later)].name
                        [] OTHER -> "Default"
    BY <1>2 DEF Wanted, Takers
<1> HIDE DEF Later
<1>6. /\ \A i \in Later : i \in Takers(t) \/ (i = Len(items) + 1 /\ t \in Takes(it))
      /\ Later # {} <=> Takers(t) # {} \/ t \in Takes(it)
      /\ Takers(t) \in SUBSET Nat /\ Later \in SUBSET Nat
    <2>1. \A i \in 1..(Len(items) + 1) : i \in 1..Len(items) \/ i = Len(items) + 1
        BY <1>1
    <2>2. \A i \in Later : i \in Takers(t) \/ (i = Len(items) + 1 /\ t \in Takes(it))
        BY <1>3, <2>1
    <2>3. Takers(t) \subseteq Later
        BY <1>3
    <2>4. Takers(t) \in SUBSET Nat /\ Later \in SUBSET Nat
        BY <1>1, <1>3
    <2> QED BY <1>3, <2>2, <2>3, <2>4
<1>7. CASE t \in DnsTraffic \cup Blocked
    BY <1>2, <1>4, <1>5, <1>6, <1>7
<1>8. CASE t \notin DnsTraffic \cup Blocked /\ Takers(t) # {}
    <2>1. Min(Takers(t)) \in Takers(t) /\ \A i \in Takers(t) : Min(Takers(t)) <= i
        BY <1>6, <1>8, MinIsLeast
    <2>2. Min(Takers(t)) \in Later /\ \A i \in Later : Min(Takers(t)) <= i
        BY <1>1, <1>3, <1>6, <2>1
    <2>3. Min(Later) = Min(Takers(t))
        BY <1>6, <2>2, LeastIsMin
    <2>4. items'[Min(Later)] = items[Min(Takers(t))]
        BY <1>1, <1>3, <2>1, <2>3
    <2> QED BY <1>2, <1>4, <1>5, <1>6, <1>8, <2>4
<1>9. CASE t \notin DnsTraffic \cup Blocked /\ Takers(t) = {} /\ t \in Takes(it)
    <2>1. Len(items) + 1 \in Later /\ \A i \in Later : Len(items) + 1 <= i
        BY <1>1, <1>3, <1>6, <1>9
    <2>2. Min(Later) = Len(items) + 1
        BY <1>6, <2>1, LeastIsMin
    <2> QED BY <1>1, <1>2, <1>4, <1>5, <1>6, <1>9, <2>2
<1>10. CASE t \notin DnsTraffic \cup Blocked /\ Takers(t) = {} /\ t \notin Takes(it)
    BY <1>2, <1>4, <1>5, <1>6, <1>10
<1> QED BY <1>7, <1>8, <1>9, <1>10

(* An item that is not used takes nothing and leaves no rule. *)
LEMMA UnusedKeepsRoutes ==
    ASSUME RoutesInv, NEW it \in Items, Read(it), ~Usable(it), UNCHANGED <<outbounds, rules>>
    PROVE  (RulesCover /\ DefaultIsFirst /\ RoutesAnswer)'
<1>1. TypeOK
    BY DEF RoutesInv, ConfigInv
<1>2. Takes(it) = {}
    BY DEF Takes
<1>3. ASSUME NEW t \in Traffic
      PROVE  /\ Hits(rules', t) # {} <=> t \in DnsTraffic \cup Blocked' \/ Takers(t)' # {}
             /\ Answer(rules', t) = Wanted(t)'
    <2>1. Hits(rules, t) # {} <=> t \in DnsTraffic \cup Blocked \/ Takers(t) # {}
        BY DEF RoutesInv, RulesCover
    <2>2. Answer(rules, t) = Wanted(t)
        BY DEF RoutesInv, RoutesAnswer
    <2>3. t \notin DnsTraffic \cup Blocked /\ Takers(t) = {} => Wanted(t) = "Default"
        BY WantedOfNobody
    <2> QED BY <1>1, <1>2, <2>1, <2>2, <2>3, ReadTakers
<1>4. RulesCover' /\ RoutesAnswer'
    BY <1>3 DEF RulesCover, RoutesAnswer, Hits, Answer
<1>5. DefaultIsFirst'
    BY DEF RoutesInv, DefaultIsFirst
<1> QED BY <1>4, <1>5

(* An item that is used gets what its lines cover and no rule matches yet. *)
LEMMA AddKeepsRoutes ==
    ASSUME RoutesInv, NEW it \in Items, Add(it)
    PROVE  (RulesCover /\ DefaultIsFirst /\ RoutesAnswer)'
<1> DEFINE own == buildOutboundRouteRules(it.rules, it.name)
<1>1. TypeOK /\ Read(it) /\ Usable(it) /\ it \in Item
    BY ItemsAssumption DEF RoutesInv, ConfigInv, Add
<1>2. own \in Seq(Rule) /\ Tagged(own, it.name)
    BY <1>1, ItemRulesType DEF Tagged
<1>3. rules' = rules \o own
    BY DEF Add
<1>4. ASSUME NEW t \in Traffic
      PROVE  Hits(own, t) # {} <=> t \in Takes(it)
    BY <1>1, ItemRulesTake DEF Takes
<1> HIDE DEF own
<1>5. ASSUME NEW t \in Traffic
      PROVE  /\ Hits(rules', t) # {} <=> t \in DnsTraffic \cup Blocked' \/ Takers(t)' # {}
             /\ Answer(rules', t) = Wanted(t)'
    <2>1. Hits(rules, t) # {} <=> t \in DnsTraffic \cup Blocked \/ Takers(t) # {}
        BY DEF RoutesInv, RulesCover
    <2>2. Answer(rules, t) = Wanted(t)
        BY DEF RoutesInv, RoutesAnswer
    <2>3. /\ Hits(rules', t) # {} <=> Hits(rules, t) # {} \/ Hits(own, t) # {}
          /\ Answer(rules', t) = IF Hits(rules, t) # {} THEN Answer(rules, t)
                                 ELSE IF Hits(own, t) # {} THEN it.name ELSE "Default"
        <3>1. /\ Hits(rules \o own, t) # {} <=> Hits(rules, t) # {} \/ Hits(own, t) # {}
              /\ Answer(rules \o own, t) = IF Hits(rules, t) # {} THEN Answer(rules, t)
                                           ELSE IF Hits(own, t) # {} THEN it.name ELSE "Default"
            <4>1. rules \in Seq(Rule)
                BY <1>1 DEF TypeOK
            <4> QED BY <1>2, <4>1, HitsJoin
        <3> QED BY <1>3, <3>1
    <2>4. /\ Blocked' = Blocked
          /\ Takers(t)' # {} <=> Takers(t) # {} \/ t \in Takes(it)
          /\ Wanted(t)' = IF t \in DnsTraffic \cup Blocked \/ Takers(t) # {} THEN Wanted(t)
                          ELSE IF t \in Takes(it) THEN it.name ELSE "Default"
        BY <1>1, ReadTakers
    <2> QED BY <1>4, <2>1, <2>2, <2>3, <2>4
<1>6. RulesCover' /\ RoutesAnswer'
    BY <1>5 DEF RulesCover, RoutesAnswer, Hits, Answer
<1>7. DefaultIsFirst'
    <2>1. outbounds \in Seq(Names) /\ outbounds # <<>> /\ outbounds[1] = "Default" /\ it.name \in Names
        BY <1>1 DEF TypeOK, RoutesInv, DefaultIsFirst, Item
    <2>2. outbounds' = outbounds \/ outbounds' = Append(outbounds, it.name)
        BY DEF Add
    <2> QED BY <2>1, <2>2 DEF DefaultIsFirst
<1> QED BY <1>6, <1>7

(* Every other step leaves the rules and the items alone. *)
LEMMA RoutesStep == RoutesInv /\ [Next]_vars => RoutesInv'
<1> SUFFICES ASSUME RoutesInv, [Next]_vars PROVE RoutesInv'
    OBVIOUS
<1>1. ConfigInv'
    BY ConfigStep DEF RoutesInv
<1>2. ASSUME NEW it \in Items, Skip(it) PROVE (RulesCover /\ DefaultIsFirst /\ RoutesAnswer)'
    BY <1>2, UnusedKeepsRoutes DEF Skip, Usable
<1>3. ASSUME NEW it \in Items, Fail(it) PROVE (RulesCover /\ DefaultIsFirst /\ RoutesAnswer)'
    BY <1>3, UnusedKeepsRoutes DEF Fail, Usable
<1>4. ASSUME NEW it \in Items, Add(it) PROVE (RulesCover /\ DefaultIsFirst /\ RoutesAnswer)'
    BY <1>4, AddKeepsRoutes
<1>5. ASSUME UNCHANGED <<blockList, items, outbounds, rules>>
      PROVE  (RulesCover /\ DefaultIsFirst /\ RoutesAnswer)'
    <2>1. Blocked' = Blocked
        BY <1>5 DEF Blocked
    <2>2. \A t : Takers(t)' = Takers(t)
        BY <1>5 DEF Takers
    <2>3. \A t : Wanted(t)' = Wanted(t)
        BY <1>5, <2>1 DEF Wanted
    <2>4. rules' = rules /\ outbounds' = outbounds
        BY <1>5
    <2> QED BY <2>1, <2>2, <2>3, <2>4 DEF RoutesInv, RulesCover, DefaultIsFirst, RoutesAnswer,
                                          Hits, Answer
<1>6. CASE Finish
    BY <1>1, <1>5, <1>6 DEF Finish, RoutesInv
<1>7. CASE UNCHANGED vars
    BY <1>1, <1>5, <1>7 DEF vars, RoutesInv
<1> QED BY <1>1, <1>2, <1>3, <1>4, <1>6, <1>7 DEF Next, RoutesInv

(* Xray's first match is the answer. *)
LEMMA RouteIsAnswer ==
    ASSUME TypeOK, DefaultIsFirst, NEW t
    PROVE  Route(t) = Answer(rules, t)
<1> DEFINE I == {i \in 1..Len(rules) : \E m \in rules[i].on : t \in Selects[m]}
<1>1. I = Hits(rules, t) /\ I \in SUBSET Nat /\ 0 \notin I
    BY DEF Hits, TypeOK
<1>2. Route(t) = LET i == IF I # {} THEN Min(I) ELSE 0
                 IN  IF i = 0 THEN outbounds[1] ELSE rules[i].tag
    BY DEF Route, SelectInSeq
<1> HIDE DEF I
<1>3. I # {} => Min(I) \in I
    BY <1>1, MinIsLeast
<1> QED BY <1>1, <1>2, <1>3 DEF Answer, DefaultIsFirst

(* For any list the panel may send, a connection takes the DNS outbound, else
   the block list, else the first usable item with a line that covers it, else
   the default. *)
THEOREM CustomConfigRoutesAsConfigured == Spec => []RoutesAsConfigured
<1>1. Init => RoutesInv
    BY RoutesInit
<1>2. RoutesInv /\ [Next]_vars => RoutesInv'
    BY RoutesStep
<1>3. RoutesInv => RoutesAsConfigured
    BY RouteIsAnswer DEF RoutesInv, ConfigInv, RoutesAnswer, RoutesAsConfigured
<1> QED BY <1>1, <1>2, <1>3, PTL DEF Spec
=============================================================================
