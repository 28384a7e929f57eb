----------------------------- MODULE MCForking -----------------------------
(***************************************************************************)
(* Instances of ForkingMachine for TLC: f and g are home-row keys that     *)
(* fork to the modifiers m and n, x is an ordinary key, oob a key above    *)
(* MAX_KEYCODE.                                                            *)
(***************************************************************************)
EXTENDS ForkingProperties, TLC

CONSTANTS f, g, x, m, n, none, c1, c2, oob

MCKeys == {f, g, x, m, n}

MCConfig ==
    [fork_keycode              |-> (f :> m @@ g :> n @@ x :> none @@ m :> none @@ n :> none),
     fork_repeatable           |-> (f :> FALSE @@ g :> TRUE @@ x :> FALSE
                                      @@ m :> FALSE @@ n :> FALSE),
     repeat_max                |-> 1,
     consider_forks_for_repeat |-> TRUE]

MCSymmetry == Permutations(Callers)
=============================================================================
