---------------------------- MODULE MCTaskQueue ----------------------------
(* Small instance of TaskQueue: two names, waits of no, one and two units, *)
(* an offset, one and two calls.                                           *)
EXTENDS TaskQueue

CONSTANTS dim, click

MCIds == {dim, click}

MCRequests ==
  { [id |-> click, wait |-> 1, offset |-> 0, count |-> 1],
    [id |-> click, wait |-> 0, offset |-> 0, count |-> 1],
    [id |-> dim, wait |-> 1, offset |-> 1, count |-> 2] }
=============================================================================
