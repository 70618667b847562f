-------------------------- MODULE MCURLTestGroup --------------------------
(***************************************************************************)
(* URLTestGroup on three outbounds, of which one does not serve UDP.       *)
(***************************************************************************)
EXTENDS URLTestGroup

MCNodes == {"a", "b", "c"}
MCLists == {<<"a", "b", "c">>, <<"c", "b">>}
MCNetworks == <<"tcp", "udp">>
MCSupports == [n \in MCNodes |-> IF n = "a" THEN {"tcp"} ELSE {"tcp", "udp"}]
=============================================================================
