---------------------------- MODULE MCAiCorePipes ----------------------------
(***************************************************************************)
(* Three tasks in a row on one core: every kind of task before and after   *)
(* every other of its kernel.                                              *)
(***************************************************************************)
EXTENDS AiCorePipes

MCTaskLimit == 3
==============================================================================
