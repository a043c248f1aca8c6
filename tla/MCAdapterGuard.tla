---------------------------- MODULE MCAdapterGuard ----------------------------
(* Small instances of AdapterGuard. *)
EXTENDS AdapterGuard, TLC

MCConfigs ==
    {[max_requests_per_minute |-> 2, max_inflight_per_tuple |-> 1],
     [max_requests_per_minute |-> 0, max_inflight_per_tuple |-> 1]}

CallerSymmetry == Permutations(Callers) \cup Permutations(Keys)
===============================================================================
