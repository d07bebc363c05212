-------------------------- MODULE MCTelegramWorker --------------------------
(***************************************************************************)
(* Small instances of TelegramWorker for TLC.                              *)
(***************************************************************************)
EXTENDS TelegramWorker

CONSTANTS u1, u2, c1, c2, e1, e2, h1, pair1

MCRegistered == [u \in Users |-> NoChat]

MCWritesFrom == [u \in Users |-> IF u = u1 THEN Chats ELSE {c2}]

MCPairOf == [s \in Signals |-> pair1]

MCActionOf ==
  [s \in Signals |-> IF s \in {e1, e2} THEN "enter" ELSE "hold_open"]

MCWays ==
  {e1} \X {"absent"} \X {"in", "moving"}
    \cup {<<e1, "in", "out">>, <<e1, "in", "gone">>, <<e1, "moving", "managed">>,
          <<e2, "absent", "in">>, <<h1, "absent", "in">>}
=============================================================================
