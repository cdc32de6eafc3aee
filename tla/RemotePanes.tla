----------------------------- MODULE RemotePanes ----------------------------
(***************************************************************************)
(* Which local tmux panes show which remote sessions: resolveRemotePanes   *)
(* and ResolveRemotePanes, for one load, while the user connects panes to  *)
(* remotes and moves between sessions there.                               *)
(***************************************************************************)
EXTENDS Naturals

CONSTANTS Remote,   (* configured remotes                                   *)
          RSession, (* their sessions                                       *)
          HomeOf,   (* the remote of each session                           *)
          Matches,  (* remotes of which a pattern occurs in the command line*)
                    (* of a connection to each remote                       *)
          Alike,    (* pairs of a title and another summary it matches      *)
          Panes,    (* number of panes, in the order they are listed        *)
          None

(* Assumed where the module is instantiated.                               *)
RemotePanesAssumption ==
    /\ HomeOf \in [RSession -> Remote]
    /\ Matches \in [Remote -> SUBSET Remote] /\ \A r \in Remote : r \in Matches[r]
    /\ Alike \subseteq RSession \X RSession
    /\ Panes \in Nat

VARIABLES
    pane,  (* to which remote a pane is connected, how far below the pane's *)
           (* process, and the session in its title                         *)
    find   (* one load: the sessions fetched, those still to be given a pane, *)
           (* what was read of the panes                                    *)

vars == <<pane, find>>

Pane == 1..Panes
Bare == [to |-> None, deep |-> FALSE, title |-> None]

Resting == [pc |-> "idle", listed |-> {}, todo |-> {}, titles |-> [p \in Pane |-> None],
            near |-> [p \in Pane |-> None], remote |-> [p \in Pane |-> None], target |-> [s \in RSession |-> 0]]

Load == [pc : {"idle", "list", "ps", "command", "assign"},
         listed : SUBSET RSession, todo : SUBSET RSession, titles : [Pane -> RSession \cup {None}],
         near : [Pane -> Remote \cup {None}], remote : [Pane -> Remote \cup {None}],
         target : [RSession -> 0..Panes]]

TypeOK ==
    /\ pane \in [Pane -> [to : Remote \cup {None}, deep : BOOLEAN, title : RSession \cup {None}]]
    /\ find \in Load

Init == pane = [p \in Pane |-> Bare] /\ find = Resting

-----------------------------------------------------------------------------
Connect(p, r, deep) ==
    /\ pane[p].to = None
    /\ pane' = [pane EXCEPT ![p] = [to |-> r, deep |-> deep, title |-> None]]
    /\ UNCHANGED find

Show(p, s) ==
    /\ pane[p].to = HomeOf[s]
    /\ pane' = [pane EXCEPT ![p].title = s]
    /\ UNCHANGED find

Disconnect(p) ==
    /\ pane[p].to # None
    /\ pane' = [pane EXCEPT ![p] = Bare]
    /\ UNCHANGED find

-----------------------------------------------------------------------------
(* The active sessions of the remotes that answered; what the remote's own *)
(* tmux calls them is kept apart.                                          *)
Fetched(listed) ==
    /\ find.pc = "idle"
    /\ find' = [Resting EXCEPT !.pc = "list", !.listed = listed, !.todo = listed]
    /\ UNCHANGED pane

ListPanesWithTitle ==
    /\ find.pc = "list"
    /\ find' = [find EXCEPT !.pc = "ps", !.titles = [p \in Pane |-> pane[p].title]]
    /\ UNCHANGED pane

(* Children and grandchildren of the pane's process only.                  *)
buildProcessTree ==
    /\ find.pc = "ps"
    /\ find' = [find EXCEPT !.pc = "command",
                            !.near = [p \in Pane |-> IF pane[p].deep THEN None ELSE pane[p].to]]
    /\ UNCHANGED pane

(* Of a connection that has ended since, another `ps` does not know the    *)
(* command line; one made anew to the same remote counts as the same.  Of  *)
(* several patterns that match, any: they are looked up in a map.          *)
findRemoteForPane(p) ==
    IF find.near[p] = None \/ pane[p].to # find.near[p] THEN {None} ELSE Matches[find.near[p]]

FindRemotes ==
    /\ find.pc = "command"
    /\ \E remote \in [Pane -> Remote \cup {None}] :
         /\ \A p \in Pane : remote[p] \in findRemoteForPane(p)
         /\ find' = [find EXCEPT !.pc = "assign", !.remote = remote, !.near = Resting.near]
    /\ UNCHANGED pane

MatchTitle(title, s) == title = s \/ <<title, s>> \in Alike

First(ps) == CHOOSE p \in ps : \A q \in ps : p <= q

ListedOf(r) == {s \in find.listed : HomeOf[s] = r}

(* The only session of its remote takes the remote's first pane.           *)
AssignFirst(s) ==
    LET connected == {p \in Pane : find.remote[p] = HomeOf[s]}
    IN  IF connected = {} THEN find.target ELSE [find.target EXCEPT ![s] = First(connected)]

(* Any other takes the first pane of its remote that has its title and is  *)
(* not taken.                                                              *)
assignByTitle_reusing(s) ==
    LET fitting == {p \in Pane : find.remote[p] = HomeOf[s] /\ MatchTitle(find.titles[p], s)}
    IN  IF fitting = {} THEN find.target ELSE [find.target EXCEPT ![s] = First(fitting)]

assignByTitle(s) ==
    LET fitting == {p \in Pane : /\ find.remote[p] = HomeOf[s] /\ MatchTitle(find.titles[p], s)
                                 /\ \A t \in RSession : find.target[t] # p}
    IN  IF fitting = {} THEN find.target ELSE [find.target EXCEPT ![s] = First(fitting)]

(* One iteration: remotes in the order of a map, the sessions of each in   *)
(* the order in which it listed them, any order here.                      *)
ResolveRemotePanes(s) ==
    /\ find.pc = "assign" /\ s \in find.todo
    /\ find' = [find EXCEPT !.todo = @ \ {s},
                            !.target = IF ListedOf(HomeOf[s]) = {s} THEN AssignFirst(s) ELSE assignByTitle(s)]
    /\ UNCHANGED pane

Rest == find.pc = "assign" /\ find.todo = {} /\ find' = Resting /\ UNCHANGED pane

Next ==
    \/ \E p \in Pane, r \in Remote, deep \in BOOLEAN : Connect(p, r, deep)
    \/ \E p \in Pane : Disconnect(p) \/ \E s \in RSession : Show(p, s)
    \/ \E listed \in SUBSET RSession : Fetched(listed)
    \/ ListPanesWithTitle \/ buildProcessTree \/ FindRemotes \/ Rest
    \/ \E s \in RSession : ResolveRemotePanes(s)

Spec == Init /\ [][Next]_vars

-----------------------------------------------------------------------------
(* No pane is given to two sessions, not even when their titles are alike  *)
(* or one remote's connections look like another's; and of several         *)
(* sessions of a remote each is given a pane that had its title, not the   *)
(* pane of another: resume and the bridge switch to it.                    *)
RemotePanesAreOwn ==
    \A s \in RSession :
       find.target[s] > 0 =>
          /\ \A t \in RSession \ {s} : find.target[t] # find.target[s]
          /\ find.remote[find.target[s]] = HomeOf[s]
          /\ \/ ListedOf(HomeOf[s]) = {s}
             \/ MatchTitle(find.titles[find.target[s]], s)

(* Why: panes are given only once the remotes are known, to sessions that  *)
(* were fetched and have had their turn.                                   *)
GivenInTurn ==
    /\ find.todo \subseteq find.listed
    /\ \A s \in RSession :
          find.target[s] > 0 => find.pc = "assign" /\ s \in find.listed \ find.todo

IInv == TypeOK /\ GivenInTurn /\ RemotePanesAreOwn
=============================================================================
