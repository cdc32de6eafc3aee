----------------------------- MODULE MCCommands -----------------------------
(***************************************************************************)
(* Model-checking instance of Commands.                                    *)
(***************************************************************************)
EXTENDS Commands, TLC

(* Aliases of repositories: a goroutine of the web server, and a           *)
(* `tsession rename-repo`.                                                 *)
CONSTANTS server, cli, g1, w1

RepoWriters == (g1 :> server) @@ (w1 :> cli)

(* Resumes of two sessions of one remote, whose names collide.             *)
CONSTANTS s1, s2, devbox, p1, a1, a2

MCOriginOf == (s1 :> devbox) @@ (s2 :> devbox)

Colliding == (s1 :> p1) @@ (s2 :> p1)

MCAlternate == (s1 :> a1) @@ (s2 :> a2)

Resumes == Permutations(Caller)

(* One agent; two directories of one name, which the agent is in one of.   *)
CONSTANTS copilot, d1, d2, n1, n2

MCCwdOf == copilot :> d1

MCBaseOf == (d1 :> n1) @@ (d2 :> n1)

MCSuffixed == (n1 :> {n2}) @@ (n2 :> {})

(* The names of two sessions, set by two goroutines of the web server and  *)
(* by `tsession rename`.                                                   *)
CONSTANTS g2, c1

NameWriters == (g1 :> server) @@ (g2 :> server) @@ (c1 :> cli)
=============================================================================
