------------------------------ MODULE MCDriver ------------------------------
(* Driver on a small instance: one program's orders at each house, with    *)
(* failures; the daemon and brokerctl ordering at once; and the daemon     *)
(* beside a tool that may not issue tokens, while the server drops them.   *)
EXTENDS Driver

CONSTANTS daemon, ctl

Given(x, y) == [p \in {daemon, ctl} |-> IF p = daemon THEN x ELSE y]

Base == [house |-> "kiwoom", ops |-> Given({}, {}), issues |-> {daemon, ctl}, tools |-> {ctl},
         cash |-> 3, shares |-> 0, want |-> 2, faults |-> 2, rotations |-> 0]

MCScenarios ==
  { [Base EXCEPT !.ops = Given({"SubmitBuy", "PlaceTP", "CancelOrder"}, {}),
                 !.shares = 1, !.rotations = 1],
    [Base EXCEPT !.ops = Given({}, {"Buy", "Sell"}), !.rotations = 1],
    [Base EXCEPT !.ops = Given({"SubmitSell", "CancelOrder"}, {"Buy"}),
                 !.house = "upbit", !.shares = 2],
    [Base EXCEPT !.ops = Given({"SubmitBuy"}, {"Buy"})],
    [Base EXCEPT !.ops = Given({"SubmitBuy"}, {"Buy"}),
                 !.want = 1, !.cash = 1, !.faults = 0, !.rotations = 1],
    [Base EXCEPT !.ops = Given({"Query"}, {"Query"}), !.issues = {daemon}, !.rotations = 2] }
=============================================================================
