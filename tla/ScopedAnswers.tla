---------------------------- MODULE ScopedAnswers ----------------------------
(***************************************************************************)
(* The scoped command channel with a history of what its owner published   *)
(* and what it read: each action that publishes or reads is the channel's  *)
(* own and records what it moved, every other leaves the history alone.    *)
(* Under the channel's fairness the history says what an owner that keeps  *)
(* reading gets back, also from an inbox that was dropped.                 *)
(***************************************************************************)
EXTENDS ScopedChannel

VARIABLES
  published,   \* history: the items the owner put on the ring
  answers      \* history: how many receipts of each batch the owner has read

history == <<published, answers>>
historyVars == <<vars, history>>

(* The receipts counted for a batch: one more is one too many.             *)
Counted(r) ==
  IF r.kind = "Closed" THEN answers
  ELSE [answers EXCEPT ![r.seq] = IF @ < 2 THEN @ + 1 ELSE @]

PublishPushH ==
  /\ PublishPush
  /\ published' = published \cup {staged[i] : i \in DOMAIN staged}
  /\ UNCHANGED answers

RootReceiptH ==
  /\ RootReceipt
  /\ answers' = IF rootReceipts = <<>> THEN answers ELSE Counted(Head(rootReceipts))
  /\ UNCHANGED published

ReceiptPopH ==
  /\ ReceiptPop
  /\ answers' = IF scopeReplies = <<>> THEN answers ELSE Counted(Head(scopeReplies))
  /\ UNCHANGED published

Unrecorded ==
  /\ \/ \E s \in Scopes : Open(s)
     \/ SendRoot
     \/ \E s \in Scopes, g \in Gens : SendScope(s, g) \/ Close(s, g)
     \/ PublishEnter \/ ReceiptEnter \/ RecoverOrphans
     \/ Executor
  /\ UNCHANGED history

InitH == Init /\ published = {} /\ answers = [q \in Seqs |-> 0]
NextH == PublishPushH \/ RootReceiptH \/ ReceiptPopH \/ Unrecorded
SpecH == InitH /\ [][NextH]_historyVars /\ Fairness

-----------------------------------------------------------------------------
(* A scope that is closed becomes free, also when the inbox went away      *)
(* before it took the Close and the owner has to answer it itself, unless  *)
(* its Close was discarded with its pass or the last drain took it: the    *)
(* drop retires nothing ("teardown sends no Closed").                      *)
CloseOf(s, g) == [kind |-> "close", scope |-> s, gen |-> g, seq |-> None]
Discarded(c) == c \notin published /\ \A i \in DOMAIN staged : staged[i] # c
TakenByDrop(s, g) == life[s].closing /\ life[s].gen = g
ClosingFrees ==
  \A s \in Scopes, g \in Gens :
    (slots[s].state = "Closing" /\ slots[s].gen = g)
      ~> (slots[s].gen > g \/ (gateClosed /\ (Discarded(CloseOf(s, g)) \/ TakenByDrop(s, g))))

(* Once the inbox is dropped, an owner that keeps reading gets every batch *)
(* it published back, and each once: what the inbox held, what its last    *)
(* drain finds, and a pass pushed behind the closed gate.                  *)
AnsweredAfterDrop ==
  \A q \in Seqs : (gateClosed /\ \E i \in published : i.seq = q) ~> [](answers[q] = 1)
=============================================================================
