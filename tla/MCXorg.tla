------------------------------- MODULE MCXorg -------------------------------
(***************************************************************************)
(* An instance of XorgPlugin for TLC: f and g are home-row keys that fork  *)
(* to the modifiers m and n.                                               *)
(***************************************************************************)
EXTENDS XorgPlugin, TLC

CONSTANTS f, g, m, n, none, c1, c2

MCKeys == {f, g, m, n}

MCConfig ==
    [fork_keycode              |-> (f :> m @@ g :> n @@ m :> none @@ n :> none),
     fork_repeatable           |-> (f :> FALSE @@ g :> TRUE @@ m :> FALSE @@ n :> FALSE),
     repeat_max                |-> 1,
     consider_forks_for_repeat |-> TRUE]
=============================================================================
