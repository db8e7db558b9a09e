------------------------ MODULE MCTemplateLifecycle ------------------------
(* A small instance of TemplateLifecycle for TLC.                          *)
EXTENDS TemplateLifecycle, TLC

CONSTANTS ann, bob, t1, t2, f1, f2

Template(s, m, f, status) ==
    [student |-> s, model |-> m, pose |-> "frontal", face |-> f, score |-> 1, status |-> status]

(* Bob has a template of the enrolment model and Ann an arcface template;  *)
(* in one table hers was refreshed once.                                   *)
Tables ==
    {[templates |-> 1 :> Template(bob, "lvface", f2, "active")
                    @@ 2 :> Template(ann, "arcface", f1, "active")
                    @@ 3 :> Unused @@ 4 :> Unused,
      log |-> <<>>],
     [templates |-> 1 :> Template(bob, "lvface", f2, "quarantined")
                    @@ 2 :> Template(ann, "arcface", f1, "backup")
                    @@ 3 :> Template(ann, "arcface", f1, "active") @@ 4 :> Unused,
      log |-> <<[kind |-> "refresh", student |-> ann, old |-> 2, new |-> 3, of |-> 0]>>]}

OnePerPose == [l \in Labels |-> 1]
OwnLabel == [p \in Poses |-> p]

Symmetry == Permutations(Tx)
=============================================================================
