------------------------------ MODULE MCServer -------------------------------
(***************************************************************************)
(* Instances of Server for TLC.                                            *)
(***************************************************************************)
EXTENDS Server

CONSTANTS c1, c2

TwoConnections == {c1, c2}
Both(first, second) == [c \in Connection |-> IF c = c1 THEN first ELSE second]

Scenario(requests1, leaves1, requests2, leaves2, descriptors) ==
    [requests |-> Both(requests1, requests2), leaves |-> Both(leaves1, leaves2),
     fds |-> descriptors]

Leaves == {"fin", "reset"}
Alone(requests, leaves) == Scenario(requests, leaves, <<>>, {}, 1)

LoopScenarios ==
    {\* a pipeline that goes on after QUIT, written by a peer that stays
     Alone(<<"write", "quit", "read">>, {}),
     \* more replies than the socket and the watermark hold
     Alone(<<"read", "read", "read", "read", "read">>, {"reset"}),
     \* the file fails between two writes, the peer leaves in the middle
     Alone(<<"write", "evict">>, Leaves),
     Alone(<<"read", "bad">>, {"reset"}),
     Alone(<<"blank", "huge">>, {"fin"}),
     \* one descriptor for two, and two clients at once
     Scenario(<<"write">>, Leaves, <<"read">>, {}, 1),
     Scenario(<<"write">>, {}, <<"write">>, {}, 2)}
=============================================================================
