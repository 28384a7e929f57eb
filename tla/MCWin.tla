------------------------------- MODULE MCWin -------------------------------
(***************************************************************************)
(* An instance of WinFilter for TLC: f and g fork to m and n.              *)
(***************************************************************************)
EXTENDS WinFilter, TLC

CONSTANTS f, g, m, n, none, c1

MCKeys == {f, g, m, n}

MCConfig ==
    [fork_keycode              |-> (f :> m @@ g :> n @@ m :> none @@ n :> none),
     fork_repeatable           |-> (f :> TRUE @@ g :> TRUE @@ m :> FALSE @@ n :> FALSE),
     repeat_max                |-> 1,
     consider_forks_for_repeat |-> TRUE]
=============================================================================
