------------------------ MODULE MCAvailabilityIndex ------------------------
(* The availability index with a bound on what follows a death.            *)
EXTENDS AvailabilityIndex

(* Bound: an edited store that was reopened is opened, flushed and removed *)
(* from, but nothing more is renamed into it.                              *)
ReopenedIsRead ==
  mode = "edit" /\ deaths > 0 => \A k \in Keys : file'[k].gen = file[k].gen

BoundedSpec == Init /\ [][Next /\ ReopenedIsRead]_vars /\ Fairness
=============================================================================
