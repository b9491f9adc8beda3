----------------------------- MODULE Connection -----------------------------
(***************************************************************************)
(* What a page may expect of its connection, whatever sockets, timers and  *)
(* late callbacks it is made of: there is one at most, it is for what the   *)
(* page connects to, and as long as the page is there it comes back.  It    *)
(* may be replaced at any time, and one may be left over after the page.   *)
(* WsClient implements this.                                               *)
(***************************************************************************)
CONSTANTS
  Targets,     \* what a page connects to: a match, with the id and token of a player
  None         \* undefined

ASSUME LinkAssumption == None \notin Targets \cup [target : Targets, up : BOOLEAN]

VARIABLES
  page,        \* the target of the page that is mounted
  link         \* the connection: its target, and whether it is up

linkVars == <<page, link>>

Link(target) == [target |-> target, up |-> FALSE]

Mount(target) == page' = target /\ link' = Link(target)

Unmount == page' = None /\ link' = None

Up ==
  /\ link # None /\ ~link.up
  /\ link' = [target |-> link.target, up |-> TRUE]
  /\ UNCHANGED page

Down == link' = None /\ UNCHANGED page

\* A new attempt, also in place of a connection that is up.
Again ==
  /\ \E target \in Targets : (page # None => target = page) /\ link' = Link(target)
  /\ UNCHANGED page

ComeBack == page # None /\ link = None /\ Again

LinkInit == page = None /\ link = None

LinkNext ==
  \/ \E target \in Targets : Mount(target)
  \/ Unmount \/ Up \/ Down \/ Again

LinkSafe == LinkInit /\ [][LinkNext]_linkVars

LinkSpec == LinkSafe /\ SF_linkVars(Up) /\ WF_linkVars(ComeBack)
=============================================================================
