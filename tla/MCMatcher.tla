----------------------------- MODULE MCMatcher -----------------------------
(***************************************************************************)
(* Small instances of Matcher.                                             *)
(***************************************************************************)
EXTENDS Matcher, TLC

MCDimensions ==
    {<<>>, <<"client_id">>, <<"client_id", "api_path">>, <<"api_path", "client_id">>,
     <<"group", "client_id">>, <<"client_id", "client_id">>, <<"user">>}
Cfg(n) == [threshold |-> n, burst |-> n, window |-> 0]
MCLevels ==
    {[lv \in L |-> Cfg(1)] : L \in {{"global"}, {"client"}, {"group", "api"},
                                   {"global", "client", "api"}, {"group", "client"},
                                   {"user"}, {}}}
        \cup {"global" :> Cfg(0)}
MCMatchers == {<<>>, "client_id" :> {<<"x">>}, "group" :> {<<"x">>, Blank}}
MCPayloads ==
    [name : {<<"n">>}, enabled : BOOLEAN, algorithm : {"token_bucket", "fixed_window"},
     dimensions : MCDimensions, levels : MCLevels, matchers : MCMatchers]

Texts == {Blank, <<"x">>, <<"y">>}
MCContexts == [Dimensions -> Texts]
=============================================================================
