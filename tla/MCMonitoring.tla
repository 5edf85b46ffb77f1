---------------------------- MODULE MCMonitoring ----------------------------
(***************************************************************************)
(* Small instances of Monitoring for TLC.  The keys are strings: "a" and   *)
(* "b" are in client-list.xml, "x" is not, and "u-1" does not match the    *)
(* path pattern of the resource.                                           *)
(***************************************************************************)
EXTENDS MonitoringRefinement

\* The bodies that differ for the live rules R of a key.
Parsed(R) == {[parses |-> TRUE, met |-> m] : m \in SUBSET R}

Unparsed == [parses |-> FALSE, met |-> {}]

\* One agent.  Its short list has one rule; in the long one a rule is
\* preceded by another and by an event of unknown type.
OneKey == {"a"}
ShortRules == [k \in OneKey |-> <<"rule">>]
ShortContents == [k \in OneKey |-> {[parses |-> TRUE, met |-> {1}]}]
LongRules == [k \in OneKey |-> <<"rule", "none", "rule">>]
LongContents == [k \in OneKey |-> Parsed({1, 3}) \cup {Unparsed}]

\* Agents that share the server: b's second event has a value stoi rejects,
\* x is not listed and u-1 not even routable.
ThreeKeys == {"b", "x", "u-1"}
RoutableKeys == {"b", "x"}
BadRules == [k \in {"b"} |-> <<"rule", "bad", "rule">>]
AnyContents == [k \in ThreeKeys |-> {[parses |-> TRUE, met |-> IF k = "b" THEN {1, 3} ELSE {}]}]

=============================================================================
