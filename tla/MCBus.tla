------------------------------- MODULE MCBus -------------------------------
(***************************************************************************)
(* The event bus with a reader of one topic and a reader of both.          *)
(***************************************************************************)
EXTENDS EventBus

OneAndBoth == [s \in Sub |-> IF s = "narrow" THEN {"t"} ELSE Topic]
=============================================================================
