---------------------------- MODULE MCE2SimProcess ----------------------------
(* E2SimProcess with the messages the RIC may send: subscription requests with a known, an *)
(* unknown or no RAN function, with a REPORT action alone, among others or missing.        *)
EXTENDS E2SimProcess

Report(n) == [id |-> n, type |-> "report"]
Insert(n) == [id |-> n, type |-> "insert"]

Subscription(func, actions) == [kind |-> "subscription", func |-> func, actions |-> actions]

\* One message of each kind.
MCInputs == {
  Subscription("kpm", <<Report(1)>>),
  Subscription("kpm", <<Report(1), Insert(2)>>),
  Subscription("kpm", <<Insert(1)>>),
  Subscription("unknown", <<Report(1)>>),
  Subscription("missing", <<Report(2)>>),
  [kind |-> "serviceQuery"], [kind |-> "E2setup"], [kind |-> "other"]}

\* Two instances: a request that is answered and one that cannot be; other messages do less.
MCRequests == {Subscription("kpm", <<Report(1)>>), Subscription("kpm", <<Report(1), Insert(2)>>)}

\* The files: good, with no cell, with a flaw behind the first cell, and not to be read at all.
Files(first, whole) == [first |-> first, whole |-> whole]
MCTraces == {Files(TRUE, TRUE), Files(FALSE, TRUE), Files(TRUE, FALSE), Files(FALSE, FALSE)}
MCGoodOrNone == {Files(TRUE, TRUE), Files(FALSE, FALSE)}
================================================================================
