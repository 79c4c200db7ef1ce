----------------------------- MODULE MCFlbRouter -----------------------------
(***************************************************************************)
(* Instances of FlbRouter for TLC: plugin a has fixed tags, b is registered *)
(* with dynamic ones (as in_forward), c makes them dynamic when it is       *)
(* initialised (as in_tail); tags and patterns for which the search of     *)
(* flb_router_match() has to restart.                                      *)
(***************************************************************************)
EXTENDS FlbRouter

MCPlugins  == {<<"a">>, <<"b">>, <<"c">>}
MCDynamic  == {<<"b">>, <<"c">>}
MCFlagged  == {<<"b">>}
MCTags     == {<<"a">>, <<"b">>, <<"a", "a", "b">>, <<"b", "a", "b">>}
MCPatterns == {<<"b">>, <<"a", Star>>, <<Star, "a", "b">>, <<Star, Star, "b">>,
               <<"a", Star, "b">>}
=============================================================================
