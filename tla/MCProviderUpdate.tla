-------------------------- MODULE MCProviderUpdate --------------------------
(* Two providers: one with a node that may use the other as its detour, one *)
(* with a single node.  The detour itself is hidden from the selector.      *)
EXTENDS ProviderUpdate, TLC

CONSTANTS p1, p2, a, b, c, plain, via

MCTagsOf == p1 :> {a, b} @@ p2 :> {c}
MCDetour(t, o) == IF o # via THEN None ELSE IF t = a THEN b ELSE IF t = b THEN a ELSE None
=============================================================================
