---------------------------- MODULE MC_WatchLoop ----------------------------
(***************************************************************************)
(* An instance of WatchLoop for TLC.                                       *)
(***************************************************************************)
EXTENDS WatchLoop

\* "", "0", "2", " 1", "3x2", "x", "-1", "-" and "-2"
MCSettings ==
  {<<>>, <<0>>, <<2>>, <<Space, 1>>, <<3, Letter, 2>>, <<Letter>>, <<Minus, 1>>,
   <<Minus>>, <<Minus, 2>>}

\* A second forward, and more than a second back.
MCJumps == {-4, 3}
=============================================================================
