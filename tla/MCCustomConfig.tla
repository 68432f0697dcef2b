--------------------------- MODULE MCCustomConfig ---------------------------
(* CustomConfig with a domain, an address, and DNS queries over UDP and TCP; two
   texts, one that is part of the domain and one that is all of it. *)
EXTENDS CustomConfig

MCTraffic == {"domain", "address", "dns query", "dns over tcp"}
MCDnsTraffic == {"dns query"}
MCTexts == {"x", "y"}
MCNames == {"Default", "block", "dns_out", "proxy", "relay"}

(* The text x is found in the domain and ends it, y is all of it; the range y
   holds the address, which also serves DNS. *)
MCSelects ==
    [m \in Matchers |->
        CASE m = AnyMatch -> MCTraffic
          [] m = DnsMatch -> MCDnsTraffic
          [] m.kind = "cidr" -> IF m.text = "y" THEN {"address", "dns over tcp", "dns query"} ELSE {}
          [] m.kind \in {"plain", "domain", "regexp"} -> IF m.text = "x" THEN {"domain"} ELSE {}
          [] OTHER -> IF m.text = "y" THEN {"domain"} ELSE {}]

AllForms == {[form |-> f, text |-> "x"] : f \in {"keyword", "suffix", "regex", "other"}}
MCLines == AllForms \cup {[form |-> "bare", text |-> "y"], [form |-> "keyword", text |-> Empty],
                          [form |-> "all", text |-> "x"], [form |-> "blank", text |-> Empty]}

RuleSets ==
    {{}, {[form |-> "all", text |-> "x"], [form |-> "bare", text |-> "y"]},
     {[form |-> "suffix", text |-> "x"], [form |-> "ip", text |-> "y"]},
     {[form |-> "bareIp", text |-> "y"], [form |-> "keyword", text |-> Empty]},
     {[form |-> "ip", text |-> Empty], [form |-> "blank", text |-> Empty]}}

Plain(name, lines) ==
    [name |-> name, protocol |-> "known", settings |-> "none", complete |-> TRUE,
     stream |-> "fine", builds |-> TRUE, rules |-> lines]

(* Usable items with any lines under three names, and the ways not to be usable. *)
Broken ==
    LET it == Plain("relay", {[form |-> "bareIp", text |-> "y"]})
    IN  {[it EXCEPT !.protocol = "none", !.settings = "json"],
         [it EXCEPT !.protocol = "unknown"],
         [it EXCEPT !.protocol = "unknown", !.settings = "json", !.builds = FALSE],
         [it EXCEPT !.protocol = "wireguard", !.complete = FALSE],
         [it EXCEPT !.protocol = "wireguard", !.stream = "unsupported"],
         [it EXCEPT !.settings = "malformed"],
         [it EXCEPT !.stream = "unsupported"],
         [it EXCEPT !.builds = FALSE]}

MCItems == {Plain(n, ls) : n \in {"proxy", "relay", "block"}, ls \in RuleSets} \cup Broken
=============================================================================
