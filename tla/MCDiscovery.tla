---------------------------- MODULE MCDiscovery -----------------------------
(***************************************************************************)
(* Model-checking instance of Discovery.                                   *)
(***************************************************************************)
EXTENDS Discovery, TLC

(* Two sessions of alike titles on one remote, one on another, of whose    *)
(* command lines the first one's name is a part.                           *)
CONSTANTS h1, h2, s1, s2, s3

MCHomeOf == (s1 :> h1) @@ (s2 :> h1) @@ (s3 :> h2)

MCMatches == (h1 :> {h1}) @@ (h2 :> {h1, h2})

MCAlike == {<<s1, s2>>}
=============================================================================
