------------------------------ MODULE MCScanRun -------------------------------
(* A domain with two subdomains, one of them excluded; a second domain; two    *)
(* addresses, one of them excluded; two processes, one after the other.        *)
EXTENDS ScanRun

Apex == <<"acme">>
Www == <<"www", "acme">>
Dev == <<"dev", "acme">>
Other == <<"other">>
Addr == <<"i1">>

MCPort == {<<"p22">>, <<"p80">>}
MCHost == {Apex, Www, Dev, Other, Addr}
MCTargets ==
  {[host |-> Apex, ip |-> "none"], [host |-> Dev, ip |-> "none"],
   [host |-> Other, ip |-> "none"], [host |-> Addr, ip |-> "i1"]}
MCConfig ==
  [include |-> {}, wildcards |-> {},
   exclude |-> {[kind |-> "ip", arg |-> "i2"], [kind |-> "domain", arg |-> Dev]}]
MCWordlist == {Www, Dev}
MCAnswers == {{}, {"i1", "i2"}}
MCConcurrency == [discover |-> 2, brute |-> 1, ports |-> 1]
MCPlans == {<<"discover", "brute">>, <<"ports">>}
==============================================================================
