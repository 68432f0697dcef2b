---------------------------- MODULE CustomConfig ----------------------------
(***************************************************************************)
(* GetCustomConfig of core/custom.go: the panel's block list and outbound  *)
(* items become a list of outbounds and a list of routing rules, of which  *)
(* Xray takes the first that matches.  An item may be skipped, be left out *)
(* after it was built, or end the construction with an error.              *)
(* A line of a list is a record of its form and its text: which traffic a  *)
(* matcher made of it selects is a parameter.  Custom DNS servers route    *)
(* nothing and are left out.                                               *)
(***************************************************************************)
EXTENDS Naturals, SequencesExt, FiniteSetsExt

CONSTANTS
    Traffic,    \* what a connection may ask for: a domain, an address, a DNS query
    DnsTraffic, \* the part of it that goes to UDP port 53
    Texts,      \* what may follow the prefix of a line
    Empty,      \* nothing but spaces follows it
    Names,      \* the names of items
    Selects,    \* the traffic each matcher selects
    Items,      \* the outbound items a panel may send
    Lines,      \* the lines a panel may put on the block list
    MaxItems    \* the length of the outbound list (a bound)

Forms == {"blank", "all", "ip", "bareIp", "keyword", "suffix", "regex", "other", "bare"}
Line == [form : Forms, text : Texts \cup {Empty}]

(* The values of a rule: a domain of one of Xray's four kinds, or a CIDR.  A
   rule for the networks tcp and udp matches anything. *)
Matcher == [kind : {"plain", "domain", "regexp", "full", "cidr"}, text : Texts]
AnyMatch == [kind |-> "network", text |-> Empty]
DnsMatch == [kind |-> "port", text |-> Empty]
Matchers == Matcher \cup {AnyMatch, DnsMatch}

(* settings is the raw JSON of the item, complete says whether the fields a
   WireGuard outbound cannot do without are there, stream whether its stream
   settings are understood, builds whether Xray accepts it. *)
Item == [name     : Names,
         protocol : {"none", "known", "wireguard", "unknown"},
         settings : {"none", "json", "malformed"},
         complete : BOOLEAN,
         stream   : {"fine", "unsupported"},
         builds   : BOOLEAN,
         rules    : SUBSET Line]

ASSUME TrafficAssumption == DnsTraffic \subseteq Traffic
ASSUME NamesAssumption == {"Default", "block", "dns_out"} \subseteq Names
ASSUME TextsAssumption == Empty \notin Texts
ASSUME SelectsAssumption ==
    /\ Selects \in [Matchers -> SUBSET Traffic]
    /\ Selects[AnyMatch] = Traffic
    /\ Selects[DnsMatch] = DnsTraffic
ASSUME ItemsAssumption == Items \subseteq Item
ASSUME LinesAssumption == Lines \subseteq Line
ASSUME MaxItemsAssumption == MaxItems \in Nat

VARIABLES
    blockList, \* the lines of the block list
    items,     \* the outbound items read so far (a history)
    outbounds, \* coreOutboundConfig: the tags
    rules,     \* coreRouterConfig.RuleList
    result     \* "building", then "ok" or "error"

vars == <<blockList, items, outbounds, rules, result>>

Rule == [on : (SUBSET Matchers) \ {{}}, tag : Names]

TypeOK ==
    /\ blockList \subseteq Lines
    /\ items \in Seq(Items) /\ Len(items) <= MaxItems
    /\ outbounds \in Seq(Names)
    /\ rules \in Seq(Rule)
    /\ result \in {"building", "ok", "error"}

-----------------------------------------------------------------------------
(* A line of the form "a:b" whose b is empty is dropped.  What is written
   without a prefix is a whole domain; an unknown prefix is dropped and the
   rest taken for a keyword. *)
DomainKind(form) ==
    CASE form = "suffix" -> "domain"
      [] form = "regex" -> "regexp"
      [] form \in {"keyword", "ip", "other"} -> "plain"
      [] OTHER -> "full"

(* Mutant: lines that are dropped leave an empty matcher list behind. *)
RuleFor_KeepsEmpty(matchers, tag) == <<[on |-> matchers, tag |-> tag]>>

RuleFor(matchers, tag) ==
    IF matchers = {} THEN <<>> ELSE <<[on |-> matchers, tag |-> tag]>>

buildRouteDomains(lines) ==
    {[kind |-> DomainKind(l.form), text |-> l.text] :
        l \in {k \in lines : k.form # "blank" /\ k.text # Empty}}

buildOutboundRouteRules(lines, tag) ==
    LET address == {l \in lines : l.form \in {"ip", "bareIp"}}
        ips == {[kind |-> "cidr", text |-> l.text] : l \in {k \in address : k.text # Empty}}
        all == {l \in lines : l.form = "all"}
    IN  IF all # {}
        THEN RuleFor({AnyMatch}, tag)
        ELSE RuleFor(buildRouteDomains(lines \ address), tag) \o RuleFor(ips, tag)

(* What buildOutboundSettings and buildOutboundStreamConfig make of an item.
   Raw settings are taken as they are, for any protocol. *)
SettingsFail(it) == it.settings = "malformed"

NoSettings(it) ==
    \/ it.protocol = "none"
    \/ /\ it.settings = "none"
       /\ it.protocol = "unknown" \/ (it.protocol = "wireguard" /\ ~it.complete)

StreamFails(it) == it.protocol # "wireguard" /\ it.stream = "unsupported"

Skipped(it) == ~SettingsFail(it) /\ (NoSettings(it) \/ (~StreamFails(it) /\ ~it.builds))

Fails(it) == SettingsFail(it) \/ (~NoSettings(it) /\ StreamFails(it))

Usable(it) == ~Fails(it) /\ ~Skipped(it)

-----------------------------------------------------------------------------
Init ==
    /\ blockList \in SUBSET Lines
    /\ items = <<>>
    /\ outbounds = <<"Default", "block", "dns_out">>
    /\ rules = RuleFor({DnsMatch}, "dns_out") \o RuleFor(buildRouteDomains(blockList), "block")
    /\ result = "building"

Read(it) ==
    /\ result = "building"
    /\ Len(items) < MaxItems
    /\ items' = Append(items, it)
    /\ UNCHANGED blockList

(* Mutant: the rules of an item that does not build are kept. *)
Skip_KeepsRules(it) ==
    /\ Read(it)
    /\ Skipped(it)
    /\ rules' = rules \o buildOutboundRouteRules(it.rules, it.name)
    /\ UNCHANGED <<outbounds, result>>

Skip(it) ==
    /\ Read(it)
    /\ Skipped(it)
    /\ UNCHANGED <<outbounds, rules, result>>

Fail(it) ==
    /\ Read(it)
    /\ Fails(it)
    /\ result' = "error"
    /\ UNCHANGED <<outbounds, rules>>

hasOutboundWithTag(tag) == tag \in ToSet(outbounds)

(* Mutant: an item is added whatever its name. *)
Add_Duplicate(it) ==
    /\ Read(it)
    /\ Usable(it)
    /\ rules' = rules \o buildOutboundRouteRules(it.rules, it.name)
    /\ outbounds' = Append(outbounds, it.name)
    /\ UNCHANGED result

(* Mutant: the rules of a later item go before those of the earlier ones. *)
Add_First(it) ==
    /\ Read(it)
    /\ Usable(it)
    /\ rules' = <<rules[1]>> \o buildOutboundRouteRules(it.rules, it.name) \o Tail(rules)
    /\ outbounds' = IF hasOutboundWithTag(it.name) THEN outbounds ELSE Append(outbounds, it.name)
    /\ UNCHANGED result

(* The rules are added before the tag is found to be taken. *)
Add(it) ==
    /\ Read(it)
    /\ Usable(it)
    /\ rules' = rules \o buildOutboundRouteRules(it.rules, it.name)
    /\ outbounds' = IF hasOutboundWithTag(it.name) THEN outbounds ELSE Append(outbounds, it.name)
    /\ UNCHANGED result

(* The DNS and router configurations are built by Xray, which may refuse them:
   nothing here has looked at the text of an address or a regular expression. *)
Finish ==
    /\ result = "building"
    /\ result' \in {"ok", "error"}
    /\ UNCHANGED <<blockList, items, outbounds, rules>>

Next == (\E it \in Items : Skip(it) \/ Fail(it) \/ Add(it)) \/ Finish

Spec == Init /\ [][Next]_vars

-----------------------------------------------------------------------------
(* Xray's router: the first rule that matches, else the first outbound. *)
Route(t) ==
    LET i == SelectInSeq(rules, LAMBDA r : \E m \in r.on : t \in Selects[m])
    IN  IF i = 0 THEN outbounds[1] ELSE rules[i].tag

(* What the lines say, one by one. *)
LineTakes(l) ==
    IF l.form = "all" THEN Traffic
    ELSE IF l.form = "blank" \/ l.text = Empty THEN {}
    ELSE LET address == l.form \in {"ip", "bareIp"}
         IN  Selects[[kind |-> IF address THEN "cidr" ELSE DomainKind(l.form), text |-> l.text]]

Takes(it) == IF Usable(it) THEN UNION {LineTakes(l) : l \in it.rules} ELSE {}

Blocked == UNION {Selects[m] : m \in buildRouteDomains(blockList)}

Wanted(t) ==
    LET takers == {i \in DOMAIN items : t \in Takes(items[i])}
    IN  CASE t \in DnsTraffic -> "dns_out"
          [] t \in Blocked \ DnsTraffic -> "block"
          [] t \notin Blocked \cup DnsTraffic /\ takers # {} -> items[Min(takers)].name
          [] OTHER -> "Default"

(* Whatever is skipped, shares a name or is written in which form: a connection
   takes the DNS outbound, else the block list, else the first usable item with
   a line that covers it, else the default, although the rules are grouped by
   kind and a line "all" discards the lines around it
   (core/custom.go:100-154, 542-594). *)
RoutesAsConfigured == \A t \in Traffic : Route(t) = Wanted(t)

(* No rule leads to an outbound that is not there, on which Xray would drop the
   connection: an item that was skipped leaves no rule behind, and one whose name
   was taken leaves its rules to the earlier outbound of that name
   (core/custom.go:549-592). *)
RulesHaveOutbounds == \A i \in DOMAIN rules : rules[i].tag \in ToSet(outbounds)

(* Xray refuses two outbounds of one tag, and the default, block and DNS
   outbounds keep theirs, whatever the panel calls its own
   (core/custom.go:589). *)
TagsAreUnique ==
    \A i, j \in DOMAIN outbounds : outbounds[i] = outbounds[j] => i = j
=============================================================================
