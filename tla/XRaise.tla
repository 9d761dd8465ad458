------------------------------- MODULE XRaise -------------------------------
(***************************************************************************)
(* AUL_RESUME: the open callback of appcore.c and, if that agrees, the     *)
(* search of appcore-X.c through the tree of windows for one that belongs  *)
(* to this process, which the window manager is then asked to raise.       *)
(*                                                                         *)
(* The search is a depth-first recursion of several round trips to the X   *)
(* server per window, on a connection of its own, and nobody stops the     *)
(* other clients meanwhile: they create, destroy, reparent and restack     *)
(* windows between two requests.  So every request is an action, and the   *)
(* recursion is the sequence of the windows it has still to visit (todo).  *)
(***************************************************************************)
EXTENDS Integers, Sequences, FiniteSets, Functions

CONSTANTS
    Windows,
    Root,
    Odd,         \* windows that are override_redirect or InputOnly
    OpenCbs,
    NULL,
    MaxChanges   \* bound: what the other clients do during one search

Gone == "gone"

ASSUME RaiseAssumption ==
    /\ IsFiniteSet(Windows)
    /\ Root \notin Windows \cup {NULL, Gone}
    /\ NULL \notin Windows \cup OpenCbs \cup {Gone}
    /\ Gone \notin Windows
    /\ Odd \subseteq Windows
    /\ MaxChanges \in Nat

VARIABLES
    parent,   \* the server: where each window is in the tree, or Gone
    rank,     \* the server: stacking order among the children of a window
    own,      \* the server: windows whose _NET_WM_PID is our process id
    netpid,   \* the server: some client has interned _NET_WM_PID
    open,     \* open.callback
    a_pid,    \* the atom is known to this process
    phase,    \* "idle", "callback" (the open callback runs), "search"
    todo,     \* windows __find_win has still to visit, the next one first
    asked,    \* the first of them is known not to be ours
    result,   \* of the last AUL_RESUME: "none" while there is none
    raised,   \* the window of the last _NET_ACTIVE_WINDOW message
    changes,  \* history: what the other clients did during this search
    goal,     \* history: a window of ours, chosen as the search starts, ...
    route     \* history: ... and the windows from the root down to it; goal is
              \*   NULL again if one of them is touched during the search

serverVars == <<parent, rank, own, netpid>>
clientVars == <<open, a_pid, phase, todo, asked, result, raised>>
historyVars == <<changes, goal, route>>
vars == <<serverVars, clientVars, historyVars>>

Nodes == Windows \cup {Root}

RaiseTypeOK ==
    /\ parent \in [Windows -> Nodes \cup {Gone}]
    /\ rank \in [Windows -> Nat]
    /\ own \subseteq Windows
    /\ netpid \in BOOLEAN
    /\ open \in OpenCbs \cup {NULL}
    /\ a_pid \in BOOLEAN
    /\ phase \in {"idle", "callback", "search"}
    /\ todo \in Seq(Nodes)
    /\ asked \in BOOLEAN
    /\ result \in {"none", "sent", "ENOENT", "no display", "declined"}
    /\ raised \in Windows \cup {NULL}
    /\ changes \in Nat
    /\ goal \in Windows \cup {NULL}
    /\ route \subseteq Nodes

(***************************************************************************)
(* Any order of stacking of windows that do not exist yet: rank is only    *)
(* looked at for the children of one window.                               *)
(***************************************************************************)
RaiseInit ==
    /\ parent = [w \in Windows |-> Gone]
    /\ rank \in {r \in [Windows -> 1..Cardinality(Windows)] :
                    \A u, v \in Windows : r[u] = r[v] => u = v}
    /\ own = {}
    /\ netpid = FALSE
    /\ open = NULL
    /\ a_pid = FALSE
    /\ phase = "idle"
    /\ todo = <<>>
    /\ asked = FALSE
    /\ result = "none"
    /\ raised = NULL
    /\ changes = 0
    /\ goal = NULL
    /\ route = {}
-----------------------------------------------------------------------------
Exists(v) == v = Root \/ (v \in Windows /\ parent[v] # Gone)

Children(v) == {w \in Windows : parent[w] = v}

(***************************************************************************)
(* What is below u, u included: the windows no upward-closed set of        *)
(* windows without u can hold.                                             *)
(***************************************************************************)
Ancestry(P) == \A w \in P : parent[w] \in P \cup {Root, Gone}

Subtree(u) == {w \in Windows : \A P \in SUBSET Windows : w \in P /\ Ancestry(P) => u \in P}

(***************************************************************************)
(* The windows on the way from the root to w: each but w has a child among *)
(* them.                                                                   *)
(***************************************************************************)
IsRoute(P, w) == /\ Root \in P /\ w \in P
                 /\ \A v \in P : Exists(v)
                 /\ \A v \in P \ {w} : \E c \in P : c \in Children(v)

(***************************************************************************)
(* A window __get_win_pid may return our pid for.                          *)
(***************************************************************************)
Ours(v) == v \in own \ Odd /\ Exists(v)
-----------------------------------------------------------------------------
(***************************************************************************)
(* The other clients, the window manager among them.  They may do as they  *)
(* like while we do not search, and MaxChanges things while we do.         *)
(***************************************************************************)
Change(touched) ==
    /\ IF phase = "search" THEN changes < MaxChanges /\ changes' = changes + 1
                           ELSE UNCHANGED changes
    /\ IF route \cap touched = {} THEN UNCHANGED <<goal, route>>
                                  ELSE goal' = NULL /\ route' = {}
    /\ UNCHANGED clientVars

(***************************************************************************)
(* A window is created below p, or moved there with all its children, on   *)
(* top of its new siblings or not.                                         *)
(***************************************************************************)
Place(u, p) ==
    /\ Exists(p) /\ p \notin Subtree(u)
    /\ parent[u] # p
    /\ parent' = [parent EXCEPT ![u] = p]
    /\ Change({u})
    /\ UNCHANGED <<rank, own, netpid>>

Restack(u, v) ==
    /\ u # v /\ Exists(u)
    /\ parent[u] = parent[v]
    /\ rank' = [rank EXCEPT ![u] = rank[v], ![v] = rank[u]]
    /\ Change({})
    /\ UNCHANGED <<parent, own, netpid>>

Destroy(u) ==
    /\ Exists(u)
    /\ parent' = [w \in Windows |-> IF w \in Subtree(u) THEN Gone ELSE parent[w]]
    /\ own' = own \ Subtree(u)
    /\ Change(Subtree(u))
    /\ UNCHANGED <<rank, netpid>>

(***************************************************************************)
(* _NET_WM_PID of u becomes our pid or another one's.                      *)
(***************************************************************************)
SetPid(u) ==
    /\ Exists(u)
    /\ own' \in {own \cup {u}, own \ {u}}
    /\ netpid' = TRUE
    /\ <<own', netpid'>> # <<own, netpid>>
    /\ Change({u})
    /\ UNCHANGED <<parent, rank>>

OtherClients == \E u \in Windows : \/ \E p \in Nodes : Place(u, p)
                                   \/ \E v \in Windows : Restack(u, v)
                                   \/ Destroy(u)
                                   \/ SetPid(u)
-----------------------------------------------------------------------------
(***************************************************************************)
(* appcore_set_open_cb, from any code of the application, its open         *)
(* callback included; the callback that runs was read before it was        *)
(* called.                                                                 *)
(***************************************************************************)
SetOpenCb(cb) == /\ phase # "search"
                 /\ open' = cb
                 /\ UNCHANGED <<serverVars, a_pid, phase, todo, asked, result, raised,
                                historyVars>>

AtomReadOnce ==   \* mutant: a failed XInternAtom is not tried again
    a_pid' = IF result = "none" THEN netpid ELSE a_pid

(***************************************************************************)
(* XInternAtom with only_if_exists: None, which is not kept, as long as no *)
(* client uses _NET_WM_PID.                                                *)
(***************************************************************************)
Atom == a_pid' = (a_pid \/ netpid)

(***************************************************************************)
(* __app_resume, x_raise_win: our own process exists, so kill never fails, *)
(* but the display may not open.                                           *)
(***************************************************************************)
ChooseGoal ==
    \/ goal' = NULL /\ route' = {}
    \/ \E w \in Windows, P \in SUBSET Nodes : /\ Ours(w) /\ IsRoute(P, w)
                                              /\ goal' = w /\ route' = P

RaiseWin ==
    \/ /\ phase' = "search"
       /\ Atom
       /\ todo' = <<Root>>
       /\ asked' = FALSE
       /\ result' = "none"
       /\ changes' = 0
       /\ ChooseGoal
    \/ /\ phase' = "idle"
       /\ result' = "no display"
       /\ goal' = NULL /\ route' = {}
       /\ UNCHANGED <<a_pid, todo, asked, changes>>

(***************************************************************************)
(* __aul_handler, AUL_RESUME.                                              *)
(***************************************************************************)
AulResume ==
    /\ phase = "idle"
    /\ \/ open # NULL /\ phase' = "callback"
          /\ UNCHANGED <<a_pid, todo, asked, result, historyVars>>
       \/ open = NULL /\ RaiseWin
    /\ UNCHANGED <<serverVars, open, raised>>

(***************************************************************************)
(* The callback returns 0 or something else.  Which callback it was does   *)
(* not matter: the application may have set another one meanwhile.         *)
(***************************************************************************)
OpenCbReturns(r) ==
    /\ phase = "callback"
    /\ \/ r = 0 /\ RaiseWin
       \/ /\ r # 0
          /\ phase' = "idle"
          /\ result' = "declined"
          /\ UNCHANGED <<a_pid, todo, asked, historyVars>>
    /\ UNCHANGED <<serverVars, open, raised>>
-----------------------------------------------------------------------------
EndHistory == changes' = 0 /\ route' = {} /\ UNCHANGED goal

(***************************************************************************)
(* __get_win_pid for the next window.  Without the atom it does not even   *)
(* ask; a window that is gone meanwhile has no pid.  A match ends the      *)
(* search at once: every level of the recursion breaks off and passes the  *)
(* window up.                                                              *)
(***************************************************************************)
CheckPid ==
    /\ phase = "search" /\ todo # <<>> /\ ~asked
    /\ IF a_pid /\ Ours(Head(todo))
       THEN /\ phase' = "idle"
            /\ result' = "sent"
            /\ raised' = Head(todo)
            /\ todo' = <<>>
            /\ EndHistory
            /\ UNCHANGED asked
       ELSE asked' = TRUE /\ UNCHANGED <<phase, result, raised, todo, historyVars>>
    /\ UNCHANGED <<serverVars, open, a_pid>>

ChildLists(v) ==
    {s \in [1..Cardinality(Children(v)) -> Children(v)] :
        /\ Range(s) = Children(v)
        /\ \A i, j \in DOMAIN s : i < j => rank[s[i]] < rank[s[j]]}

QueryTreeBreadthFirst ==   \* mutant: children are visited after the other windows
    /\ phase = "search" /\ todo # <<>> /\ asked
    /\ IF Exists(Head(todo)) THEN \E s \in ChildLists(Head(todo)) : todo' = Tail(todo) \o s
                             ELSE todo' = Tail(todo)
    /\ asked' = FALSE
    /\ UNCHANGED <<serverVars, open, a_pid, phase, result, raised, historyVars>>

QueryTreeSameWindow ==   \* mutant: __find_win(d, win, pid) instead of &child[i]
    /\ phase = "search" /\ todo # <<>> /\ asked
    /\ todo' = [i \in 1..Cardinality(Children(Head(todo))) |-> Head(todo)] \o Tail(todo)
    /\ asked' = FALSE
    /\ UNCHANGED <<serverVars, open, a_pid, phase, result, raised, historyVars>>

(***************************************************************************)
(* XQueryTree: the children as they are now, from the bottom of the stack  *)
(* to its top, are visited before what was left to visit.  It fails for a  *)
(* window that is gone.                                                    *)
(***************************************************************************)
QueryTree ==
    /\ phase = "search" /\ todo # <<>> /\ asked
    /\ IF Exists(Head(todo)) THEN \E s \in ChildLists(Head(todo)) : todo' = s \o Tail(todo)
                             ELSE todo' = Tail(todo)
    /\ asked' = FALSE
    /\ UNCHANGED <<serverVars, open, a_pid, phase, result, raised, historyVars>>

NotFoundIgnored ==   \* mutant: found is not looked at, win is still the root
    /\ phase = "search" /\ todo = <<>>
    /\ phase' = "idle"
    /\ result' = "sent"
    /\ raised' = Root
    /\ EndHistory
    /\ UNCHANGED <<serverVars, open, a_pid, todo, asked>>

NotFound ==
    /\ phase = "search" /\ todo = <<>>
    /\ phase' = "idle"
    /\ result' = "ENOENT"
    /\ EndHistory
    /\ UNCHANGED <<serverVars, open, a_pid, todo, asked, raised>>

Searching == CheckPid \/ QueryTree \/ NotFound

RaiseNext == \/ OtherClients
             \/ \E cb \in OpenCbs \cup {NULL} : SetOpenCb(cb)
             \/ AulResume
             \/ \E r \in {0, -1} : OpenCbReturns(r)
             \/ Searching

RaiseSpec == RaiseInit /\ [][RaiseNext]_vars

(***************************************************************************)
(* The server answers, and the open callback returns.                      *)
(***************************************************************************)
RaiseFairSpec == /\ RaiseSpec
                 /\ WF_vars(Searching)
                 /\ WF_vars(\E r \in {0, -1} : OpenCbReturns(r))
-----------------------------------------------------------------------------
(***************************************************************************)
(* A window of ours that was there when the search started, and stayed     *)
(* ours and in its place, is not missed, whatever other windows come, go   *)
(* and move around it.                                                     *)
(***************************************************************************)
StableFound == result = "ENOENT" => goal = NULL

(***************************************************************************)
(* u comes before v when the tree is read from the root, bottom of the     *)
(* stack first.                                                            *)
(***************************************************************************)
Before(u, v) ==
    \/ u # v /\ v \in Subtree(u)
    \/ \E a, b \in Windows : /\ parent[a] = parent[b] /\ rank[a] < rank[b]
                             /\ u \in Subtree(a) /\ v \in Subtree(b)

(***************************************************************************)
(* With the other clients quiet, the search answers exactly: it raises the *)
(* window of ours that comes before all the others, and says ENOENT only   *)
(* if there is none.                                                       *)
(***************************************************************************)
QuietSearch ==
    [][phase = "search" /\ phase' = "idle" /\ changes = 0 =>
          IF result' = "sent"
          THEN Ours(raised') /\ \A w \in Windows : Ours(w) /\ w # raised' => Before(raised', w)
          ELSE \A w \in Windows : ~Ours(w)]_vars

(***************************************************************************)
(* What the search has ahead of it: the windows on todo and what is below  *)
(* them, a window counted as often as it would be met.                     *)
(***************************************************************************)
Below(v) == IF v = Root THEN Nodes ELSE Subtree(v)

Pending(q) == {p \in (DOMAIN q) \X Nodes : p[2] \in Below(q[p[1]])}

RequestsLeft == 2 * Cardinality(Pending(todo)) + (IF asked THEN 0 ELSE 1)

(***************************************************************************)
(* Every request brings the search nearer to its end, in whatever tree it  *)
(* meets: only a change made by another client can send it on longer.      *)
(***************************************************************************)
SearchAdvances ==
    [][phase = "search" /\ phase' = "search" /\ <<todo, asked>>' # <<todo, asked>>
          => RequestsLeft' < RequestsLeft]_vars

(***************************************************************************)
(* Every AUL_RESUME that is not declined gets its answer, and a window of  *)
(* ours that stays put comes to the front.                                 *)
(***************************************************************************)
ResumeAnswered ==
    phase = "search" ~> phase = "idle" /\ (result = "sent" \/ goal = NULL)
=============================================================================
