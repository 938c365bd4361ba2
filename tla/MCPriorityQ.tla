---------------------------- MODULE MCPriorityQ ----------------------------
(* A small instance of PriorityQ: two elements, every pair of inputs below. *)
EXTENDS PriorityQ

Task(t, d, vs, ds) == [times |-> t, delta |-> d, values |-> vs, deltas |-> ds]

\* With IntHalf = 4 a delta of 6 is -2 as an int.
MCIntHalf == 4
MCInput == {
    Task(3, 1, <<5, 7>>, <<1, -2>>),
    Task(2, 2, <<4, 6>>, <<>>),
    Task(0, 2, <<9>>, <<3>>),
    Task(Endless, 1, <<2, 3>>, <<>>),
    Task(2, 0, <<8>>, <<>>),
    Task(2, 6, <<8>>, <<>>),
    Task(2, 1, <<>>, <<>>),
    Task(2, 1, <<3, 4>>, <<1>>) }

MCGarbage == {0, 100}
=============================================================================
