-------------------------- MODULE MCCommandChannel --------------------------
(* The command channel with its targets as model values.                   *)
EXTENDS CommandChannel

(* Bound: the last number is only offered to a channel without credits, by *)
(* a plain batch for the next block.  The channel has to refuse it; every  *)
(* other batch is as it likes.                                             *)
LastAtLimit ==
  hand'.seq = MaxSeq /\ hand' # hand =>
    credits = 0 /\ hand'.when = WhenNext /\ Listed(hand') = {}

LimitSpec == Init /\ [][Next /\ LastAtLimit]_vars /\ Fairness
=============================================================================
