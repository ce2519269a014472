---------------------------- MODULE MCSupervise ----------------------------
(* Supervise on a small instance.  Two supervisors with a data-dir or a    *)
(* port in common, where nothing fails but the locks' own races; and one   *)
(* supervisor, where processes crash, hang, end, are suspended.            *)
EXTENDS Supervise

CONSTANTS s1, s2, dirA, dirB

Given(x, y) == [s \in {s1, s2} |-> IF s = s1 THEN x ELSE y]

MCScenarios ==
  { [sups |-> {s1, s2}, args |-> Given([dir |-> dirA, port |-> 1], [dir |-> dirA, port |-> 2]), faults |-> 0],
    [sups |-> {s1, s2}, args |-> Given([dir |-> dirA, port |-> 1], [dir |-> dirB, port |-> 1]), faults |-> 0],
    [sups |-> {s1, s2}, args |-> Given([dir |-> dirA, port |-> 1], [dir |-> dirB, port |-> 2]), faults |-> 0],
    [sups |-> {s1}, args |-> Given([dir |-> dirA, port |-> 1], [dir |-> dirB, port |-> 2]), faults |-> 2] }
=============================================================================
