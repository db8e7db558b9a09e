----------------------------- MODULE MCBackend -----------------------------
(* A small instance of what surrounds recognition in the API processes.    *)
EXTENDS Backend

TheDefaults == [strict |-> 85, relaxed |-> 78, lvstrict |-> 80, lvrelaxed |-> 62,
                margin |-> 8, quality |-> 30, weight |-> 100]
TheUpdates == {[relaxed |-> 90], [strict |-> 80, relaxed |-> 60, margin |-> Null, weight |-> 50],
               [lvrelaxed |-> 70, weight |-> 0]}
TheHandEdits == {[strict |-> 50, ann |-> 1, relaxed |-> 60, lvrelaxed |-> 90]}

TheWatches == "s1" :> "math" @@ "d1" :> "math" @@ "d2" :> "math"

TheOwner == "c1" :> "cam1" @@ "c2" :> "cam1" @@ "c3" :> "cam2"
TheRoom == "cam1" :> "r" @@ "cam2" :> "r"
TheClasses == {[room |-> "r", from |-> 2, to |-> 5], [room |-> "q", from |-> 4, to |-> 4]}

I(k, n, f) == [device |-> "cam1", kind |-> k, nonce |-> n, stamp |-> 1, flaw |-> f]
TheUploads == {I("snapshot", "n1", "none"), I("clip", "n1", "none"), I("snapshot", "n2", "room")}
TheLimits == "snapshot" :> 1 @@ "clip" :> 1

Symmetry == Permutations(Requests) \cup Permutations(Calls) \cup Permutations(Processes)
=============================================================================
