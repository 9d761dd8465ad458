---------------------------- MODULE XRaiseProofs ----------------------------
(***************************************************************************)
(* Type correctness of the search of appcore-X.c, and that it misses no    *)
(* window of ours that stays where it is, for any set of windows and any   *)
(* number of changes made by the other clients; that its answer is exact   *)
(* when they make none; and that every request brings it nearer to its     *)
(* end.                                                                    *)
(***************************************************************************)
EXTENDS XRaise, FiniteSetTheorems, SequenceTheorems, TLAPS

(***************************************************************************)
(* The atom is known to the server as soon as one of our windows has a pid *)
(* (appcore-X.c:157 interns it only if it exists).                         *)
(***************************************************************************)
PidInterned == own # {} => netpid

(***************************************************************************)
(* While the goal is untouched, the search still has a window of its route *)
(* ahead, and never only the goal itself after it was asked for.           *)
(***************************************************************************)
Ahead(i) == /\ i \in DOMAIN todo
            /\ todo[i] \in route
            /\ i = 1 /\ asked => todo[i] # goal

RouteAhead ==
    phase = "search" /\ goal # NULL =>
        /\ a_pid
        /\ Ours(goal)
        /\ IsRoute(route, goal)
        /\ \E i \in DOMAIN todo : Ahead(i)

RaiseInv == RaiseTypeOK /\ PidInterned /\ RouteAhead /\ StableFound

LEMMA OneElement ==
    ASSUME NEW S, NEW x \in S
    PROVE  <<x>> \in Seq(S)
OBVIOUS

LEMMA HeadTail ==
    ASSUME NEW S, NEW q \in Seq(S), q # <<>>
    PROVE  /\ Head(q) = q[1] /\ Head(q) \in S /\ Tail(q) \in Seq(S)
           /\ Len(q) \in Nat /\ DOMAIN q = 1..Len(q)
           /\ Len(Tail(q)) = Len(q) - 1
           /\ \A i \in 2..Len(q) : Tail(q)[i - 1] = q[i]
<1>1. Len(q) \in Nat /\ DOMAIN q = 1..Len(q)
  BY LenProperties
<1>2. \A i \in 2..Len(q) : i - 1 \in 1..(Len(q) - 1) /\ (i - 1) + 1 = i
  BY <1>1
<1>3. Head(q) = q[1]
  OBVIOUS
<1> QED
  BY <1>1, <1>2, <1>3, HeadTailProperties

USE RaiseAssumption DEF RaiseAssumption, Gone

LEMMA ChildListsTyped ==
    ASSUME NEW v, NEW s \in ChildLists(v)
    PROVE  /\ s \in Seq(Windows)
           /\ \A c \in Children(v) : \E j \in DOMAIN s : s[j] = c
<1>1. IsFiniteSet(Children(v))
  BY FS_Subset DEF Children
<1>2. Cardinality(Children(v)) \in Nat
  BY <1>1, FS_CardinalityType
<1>3. s \in [1..Cardinality(Children(v)) -> Children(v)] /\ Range(s) = Children(v)
  BY DEF ChildLists
<1>4. Children(v) \subseteq Windows
  BY DEF Children
<1>5. s \in Seq(Windows)
  BY <1>2, <1>3, <1>4
<1>6. \A c \in Children(v) : \E j \in DOMAIN s : s[j] = c
  BY <1>3 DEF Range
<1> QED
  BY <1>5, <1>6

(***************************************************************************)
(* What the other clients do leaves the program alone, and the route of    *)
(* the goal as it is as long as it is one.                                 *)
(***************************************************************************)
Untouched(S) ==
    /\ UNCHANGED clientVars
    /\ changes' \in Nat
    /\ \/ goal' = NULL /\ route' = {}
       \/ /\ UNCHANGED <<goal, route>>
          /\ route \cap S = {}
    /\ \A w \in Windows \ S : parent'[w] = parent[w] /\ (w \in own' <=> w \in own)

LEMMA ChangeUntouched ==
    ASSUME RaiseTypeOK, NEW S, Change(S)
    PROVE  /\ UNCHANGED clientVars
           /\ changes' \in Nat
           /\ goal' \in Windows \cup {NULL} /\ route' \subseteq Nodes
           /\ \/ goal' = NULL /\ route' = {}
              \/ UNCHANGED <<goal, route>> /\ route \cap S = {}
<1>1. changes \in Nat /\ goal \in Windows \cup {NULL} /\ route \subseteq Nodes
  BY DEF RaiseTypeOK
<1>2. UNCHANGED clientVars
  BY DEF Change
<1>3. changes' \in Nat
  BY <1>1 DEF Change
<1> QED
  BY <1>1, <1>2, <1>3 DEF Change

LEMMA OthersStep ==
    ASSUME RaiseInv, OtherClients
    PROVE  /\ RaiseTypeOK' /\ PidInterned'
           /\ \E S \in SUBSET Windows : Untouched(S)
<1> SUFFICES ASSUME NEW u \in Windows,
                    \/ \E p \in Nodes : Place(u, p)
                    \/ \E v \in Windows : Restack(u, v)
                    \/ Destroy(u)
                    \/ SetPid(u)
             PROVE  /\ RaiseTypeOK' /\ PidInterned'
                    /\ \E S \in SUBSET Windows : Untouched(S)
  BY DEF OtherClients
<1> USE DEF RaiseInv
<1>1. ASSUME NEW p \in Nodes, Place(u, p)
      PROVE  /\ RaiseTypeOK' /\ PidInterned'
             /\ \E S \in SUBSET Windows : Untouched(S)
  <2>1. Change({u}) /\ parent' = [parent EXCEPT ![u] = p] /\ UNCHANGED <<rank, own, netpid>>
    BY <1>1 DEF Place
  <2>2. RaiseTypeOK' /\ PidInterned'
    BY <2>1, ChangeUntouched DEF RaiseTypeOK, PidInterned, clientVars
  <2>3. \A w \in Windows \ {u} : parent'[w] = parent[w]
    BY <2>1 DEF RaiseTypeOK
  <2>4. Untouched({u})
    BY <2>1, <2>3, ChangeUntouched DEF Untouched
  <2> QED
    BY <2>2, <2>4
<1>2. ASSUME NEW v \in Windows, Restack(u, v)
      PROVE  /\ RaiseTypeOK' /\ PidInterned'
             /\ \E S \in SUBSET Windows : Untouched(S)
  <2>1. /\ Change({}) /\ rank' = [rank EXCEPT ![u] = rank[v], ![v] = rank[u]]
        /\ UNCHANGED <<parent, own, netpid>>
    BY <1>2 DEF Restack
  <2>2. RaiseTypeOK' /\ PidInterned'
    BY <2>1, ChangeUntouched DEF RaiseTypeOK, PidInterned, clientVars
  <2>3. Untouched({})
    BY <2>1, ChangeUntouched DEF Untouched
  <2> QED
    BY <2>2, <2>3
<1>3. ASSUME Destroy(u)
      PROVE  /\ RaiseTypeOK' /\ PidInterned'
             /\ \E S \in SUBSET Windows : Untouched(S)
  <2> DEFINE S == Subtree(u)
  <2>1. /\ Change(S) /\ parent' = [w \in Windows |-> IF w \in S THEN Gone ELSE parent[w]]
        /\ own' = own \ S /\ UNCHANGED <<rank, netpid>>
    BY <1>3 DEF Destroy
  <2>2. S \in SUBSET Windows
    BY DEF Subtree
  <2> HIDE DEF S
  <2>3. RaiseTypeOK' /\ PidInterned'
    BY <2>1, ChangeUntouched DEF RaiseTypeOK, PidInterned, clientVars
  <2>4. Untouched(S)
    BY <2>1, ChangeUntouched DEF Untouched
  <2> QED
    BY <2>2, <2>3, <2>4
<1>4. ASSUME SetPid(u)
      PROVE  /\ RaiseTypeOK' /\ PidInterned'
             /\ \E S \in SUBSET Windows : Untouched(S)
  <2>1. /\ Change({u}) /\ own' \in {own \cup {u}, own \ {u}} /\ netpid' = TRUE
        /\ UNCHANGED <<parent, rank>>
    BY <1>4 DEF SetPid
  <2>2. RaiseTypeOK' /\ PidInterned'
    BY <2>1, ChangeUntouched DEF RaiseTypeOK, PidInterned, clientVars
  <2>3. Untouched({u})
    BY <2>1, ChangeUntouched DEF Untouched
  <2> QED
    BY <2>2, <2>3
<1> QED
  BY <1>1, <1>2, <1>3, <1>4

LEMMA UntouchedKeepsRoute ==
    ASSUME RaiseInv, NEW S \in SUBSET Windows, Untouched(S)
    PROVE  RouteAhead' /\ StableFound'
<1> USE DEF RaiseInv
<1>1. StableFound'
  BY DEF StableFound, Untouched, clientVars
<1>2. CASE goal' = NULL
  BY <1>1, <1>2 DEF RouteAhead
<1>3. CASE /\ UNCHANGED <<goal, route>> /\ route \cap S = {}
           /\ phase = "search" /\ goal # NULL
  <2>1. /\ a_pid /\ Ours(goal) /\ IsRoute(route, goal)
        /\ \E i \in DOMAIN todo : Ahead(i)
    BY <1>3 DEF RouteAhead
  <2>2. a_pid' /\ \E i \in DOMAIN todo' : Ahead(i)'
    BY <2>1, <1>3 DEF Untouched, clientVars, Ahead
  <2>3. \A w \in route \cap Windows : parent'[w] = parent[w] /\ (w \in own' <=> w \in own)
    BY <1>3 DEF Untouched
  <2>4. \A w \in route : Exists(w) => Exists(w)'
    BY <2>3 DEF Exists
  <2>5. goal \in route /\ goal \in Windows
    BY <2>1, <1>3 DEF IsRoute, RaiseTypeOK
  <2>6. Ours(goal)'
    BY <2>1, <2>3, <2>4, <2>5, <1>3 DEF Ours
  <2>7. IsRoute(route, goal)'
    <3>1. \A v \in route : Exists(v)'
      BY <2>1, <2>4 DEF IsRoute
    <3>2. ASSUME NEW v \in route \ {goal}
          PROVE  \E c \in route : c \in Children(v)'
      <4>1. PICK c \in route : c \in Children(v)
        BY <2>1 DEF IsRoute
      <4>2. c \in Children(v)'
        BY <4>1, <2>3 DEF Children
      <4> QED
        BY <4>2
    <3> QED
      BY <2>1, <3>1, <3>2, <1>3 DEF IsRoute
  <2> QED
    BY <1>1, <2>2, <2>6, <2>7 DEF RouteAhead
<1> QED
  BY <1>1, <1>2, <1>3 DEF Untouched, RouteAhead, clientVars

LEMMA RaiseWinStep ==
    ASSUME RaiseInv, RaiseWin, UNCHANGED <<serverVars, open, raised>>
    PROVE  RaiseInv'
<1> USE DEF RaiseInv, RaiseWin, serverVars
<1>1. RaiseTypeOK'
  <2>1. goal' \in Windows \cup {NULL} /\ route' \subseteq Nodes
    BY DEF ChooseGoal
  <2>2. a_pid' \in BOOLEAN
    BY DEF Atom, RaiseTypeOK
  <2>3. todo' \in Seq(Nodes) /\ asked' \in BOOLEAN /\ changes' \in Nat
    <3>1. Root \in Nodes
      BY DEF Nodes
    <3>2. <<Root>> \in Seq(Nodes)
      BY <3>1, OneElement
    <3>3. todo \in Seq(Nodes) /\ asked \in BOOLEAN /\ changes \in Nat
      BY DEF RaiseTypeOK
    <3>4. todo' \in {todo, <<Root>>} /\ asked' \in {asked, FALSE} /\ changes' \in {changes, 0}
      OBVIOUS
    <3>5. todo' \in Seq(Nodes)
      BY <3>2, <3>3, <3>4, Zenon
    <3>6. asked' \in BOOLEAN
      BY <3>3, <3>4, Zenon
    <3>7. changes' \in Nat
      <4>1. changes \in Nat /\ (changes' = changes \/ changes' = 0)
        BY DEF RaiseTypeOK
      <4> HIDE DEF RaiseWin, RaiseInv
      <4> QED
        BY <4>1
    <3> QED
      BY <3>5, <3>6, <3>7
  <2>4. /\ phase' \in {"idle", "callback", "search"}
        /\ result' \in {"none", "sent", "ENOENT", "no display", "declined"}
    OBVIOUS
  <2> QED
    BY <2>1, <2>2, <2>3, <2>4 DEF RaiseTypeOK
<1>2. PidInterned' /\ StableFound'
  BY DEF PidInterned, StableFound
<1>3. RouteAhead'
  <2> SUFFICES ASSUME phase' = "search", goal' # NULL
               PROVE  RouteAhead'
    BY DEF RouteAhead
  <2>1. Atom /\ todo' = <<Root>> /\ asked' = FALSE /\ ChooseGoal
    OBVIOUS
  <2>2. Ours(goal') /\ IsRoute(route', goal')
    BY <2>1 DEF ChooseGoal
  <2>3. Ours(goal)' /\ IsRoute(route, goal)'
    BY <2>2 DEF Ours, IsRoute, Exists, Children
  <2>4. a_pid'
    BY <2>1, <2>2 DEF Ours, Atom, PidInterned
  <2>5. 1 \in DOMAIN todo' /\ Ahead(1)'
    BY <2>1, <2>2 DEF Ahead, IsRoute
  <2> QED
    BY <2>3, <2>4, <2>5 DEF RouteAhead
<1> QED
  BY <1>1, <1>2, <1>3

LEMMA CheckPidStep ==
    ASSUME RaiseInv, CheckPid
    PROVE  RaiseInv'
<1> USE DEF RaiseInv, serverVars, historyVars, EndHistory
<1>1. Head(todo) = todo[1] /\ todo[1] \in Nodes
  <2>1. todo \in Seq(Nodes) /\ todo # <<>>
    BY DEF CheckPid, RaiseTypeOK
  <2> QED
    BY <2>1
<1>2. CASE a_pid /\ Ours(Head(todo))
  <2>1. Head(todo) \in Windows
    <3>1. own \subseteq Windows
      BY DEF RaiseTypeOK
    <3> QED
      BY <3>1, <1>2 DEF Ours
  <2>2. /\ phase' = "idle" /\ result' = "sent" /\ raised' = Head(todo) /\ todo' = <<>>
        /\ changes' = 0 /\ route' = {}
        /\ UNCHANGED <<goal, asked, serverVars, open, a_pid>>
    BY <1>2 DEF CheckPid
  <2>3. <<>> \in Seq(Nodes)
    BY EmptySeq
  <2> QED
    BY <2>1, <2>2, <2>3 DEF RaiseTypeOK, PidInterned, RouteAhead, StableFound
<1>3. CASE ~(a_pid /\ Ours(Head(todo)))
  <2>1. /\ asked' = TRUE
        /\ UNCHANGED <<serverVars, open, a_pid, phase, result, raised, todo, historyVars>>
    BY <1>3 DEF CheckPid
  <2>2. RaiseTypeOK' /\ PidInterned' /\ StableFound'
    BY <2>1 DEF RaiseTypeOK, PidInterned, StableFound
  <2>3. RouteAhead'
    <3> SUFFICES ASSUME phase = "search", goal # NULL
                 PROVE  RouteAhead'
      BY <2>1 DEF RouteAhead
    <3>1. PICK i \in DOMAIN todo : Ahead(i)
      BY DEF RouteAhead
    <3>2. todo[1] # goal
      BY <1>1, <1>3 DEF RouteAhead
    <3>3. Ahead(i)'
      BY <3>1, <3>2, <2>1 DEF Ahead
    <3> QED
      BY <2>1, <3>3 DEF RouteAhead, Ours, IsRoute, Exists, Children
  <2> QED
    BY <2>2, <2>3
<1> QED
  BY <1>2, <1>3

LEMMA QueryTreeStep ==
    ASSUME RaiseInv, QueryTree
    PROVE  RaiseInv'
<1> USE DEF RaiseInv, serverVars, historyVars
<1> DEFINE h == Head(todo)
           t == Tail(todo)
<1>1. /\ phase = "search" /\ todo # <<>> /\ asked /\ asked' = FALSE
      /\ UNCHANGED <<serverVars, open, a_pid, phase, result, raised, historyVars>>
  BY DEF QueryTree
<1>2. /\ todo \in Seq(Nodes) /\ h = todo[1] /\ h \in Nodes /\ t \in Seq(Nodes)
      /\ Len(todo) \in Nat /\ DOMAIN todo = 1..Len(todo)
      /\ Len(t) = Len(todo) - 1
      /\ \A i \in 2..Len(todo) : t[i - 1] = todo[i]
  <2>1. todo \in Seq(Nodes) /\ todo # <<>>
    BY <1>1 DEF RaiseTypeOK
  <2> QED
    BY <2>1, HeadTail
<1>3. PICK s \in Seq(Nodes) :
          /\ todo' = s \o t
          /\ Exists(h) => \A c \in Children(h) : \E j \in DOMAIN s : s[j] = c
  <2>1. CASE Exists(h)
    <3>1. PICK s \in ChildLists(h) : todo' = s \o t
      BY <2>1 DEF QueryTree
    <3>2. s \in Seq(Windows) /\ \A c \in Children(h) : \E j \in DOMAIN s : s[j] = c
      BY <3>1, ChildListsTyped
    <3>3. s \in Seq(Nodes)
      BY <3>2 DEF Nodes
    <3> QED
      BY <3>1, <3>2, <3>3
  <2>2. CASE ~Exists(h)
    <3>1. todo' = t
      BY <2>2 DEF QueryTree
    <3>2. <<>> \in Seq(Nodes) /\ <<>> \o t = t
      BY <1>2
    <3> QED
      BY <3>1, <3>2, <2>2
  <2> QED
    BY <2>1, <2>2
<1> HIDE DEF t, h
<1>4. /\ todo' \in Seq(Nodes) /\ Len(s) \in Nat /\ DOMAIN s = 1..Len(s)
      /\ DOMAIN todo' = 1..(Len(s) + Len(t))
      /\ \A j \in 1..Len(s) : todo'[j] = s[j]
      /\ \A j \in 1..Len(t) : todo'[Len(s) + j] = t[j]
  BY <1>2, <1>3
<1>5. RaiseTypeOK' /\ PidInterned' /\ StableFound'
  BY <1>1, <1>4 DEF RaiseTypeOK, PidInterned, StableFound
<1>6. RouteAhead'
  <2> SUFFICES ASSUME goal # NULL
               PROVE  RouteAhead'
    BY <1>1 DEF RouteAhead
  <2>1. a_pid /\ Ours(goal) /\ IsRoute(route, goal)
    BY <1>1 DEF RouteAhead
  <2>2. PICK i \in DOMAIN todo : Ahead(i)
    BY <1>1 DEF RouteAhead
  <2>3. \E k \in DOMAIN todo' : todo'[k] \in route
    <3>1. CASE i = 1
      <4>1. h \in route \ {goal}
        BY <3>1, <2>2, <1>1, <1>2 DEF Ahead
      <4>2. Exists(h)
        BY <4>1, <2>1 DEF IsRoute
      <4>3. PICK c \in route : c \in Children(h)
        BY <4>1, <2>1 DEF IsRoute
      <4>4. PICK j \in DOMAIN s : s[j] = c
        BY <4>2, <4>3, <1>3
      <4>5. j \in DOMAIN todo' /\ todo'[j] = c
        BY <4>4, <1>4, <1>2
      <4> QED
        BY <4>5, <4>3
    <3>2. CASE i # 1
      <4>1. i \in 2..Len(todo) /\ todo[i] \in route
        BY <3>2, <2>2, <1>2 DEF Ahead
      <4>2. i - 1 \in 1..Len(t) /\ t[i - 1] \in route
        BY <4>1, <1>2
      <4>3. Len(s) + (i - 1) \in DOMAIN todo' /\ todo'[Len(s) + (i - 1)] \in route
        <5>1. Len(t) \in Nat /\ DOMAIN todo' = 1..(Len(s) + Len(t))
          BY <1>2, <1>4
        <5>2. Len(s) + (i - 1) \in 1..(Len(s) + Len(t))
          BY <4>1, <4>2, <5>1, <1>4
        <5>3. todo'[Len(s) + (i - 1)] = t[i - 1]
          BY <4>2, <1>4
        <5> QED
          BY <4>2, <5>1, <5>2, <5>3
      <4> QED
        BY <4>3
    <3> QED
      BY <3>1, <3>2
  <2>4. \E k \in DOMAIN todo' : Ahead(k)'
    BY <2>3, <1>1 DEF Ahead
  <2> QED
    BY <2>1, <2>4, <1>1 DEF RouteAhead, Ours, IsRoute, Exists, Children
<1> QED
  BY <1>5, <1>6

LEMMA NotFoundStep ==
    ASSUME RaiseInv, NotFound
    PROVE  RaiseInv'
<1> USE DEF RaiseInv, NotFound, serverVars, EndHistory
<1>1. goal = NULL
  BY DEF RouteAhead
<1> QED
  BY <1>1 DEF RaiseTypeOK, PidInterned, RouteAhead, StableFound

LEMMA ProgramUnchanged ==
    ASSUME RaiseInv,
           UNCHANGED <<serverVars, a_pid, todo, asked, raised, historyVars>>,
           open' \in OpenCbs \cup {NULL},
           \/ UNCHANGED <<phase, result>>
           \/ phase' = "callback" /\ UNCHANGED result
           \/ phase' = "idle" /\ result' = "declined"
    PROVE  RaiseInv'
<1> USE DEF RaiseInv, serverVars, historyVars
<1>1. RaiseTypeOK' /\ PidInterned' /\ StableFound'
  BY DEF RaiseTypeOK, PidInterned, StableFound
<1>2. RouteAhead'
  BY DEF RouteAhead, Ours, IsRoute, Exists, Children, Ahead
<1> QED
  BY <1>1, <1>2

LEMMA RaiseStep == RaiseInv /\ [RaiseNext]_vars => RaiseInv'
<1> SUFFICES ASSUME RaiseInv, [RaiseNext]_vars
             PROVE  RaiseInv'
  OBVIOUS
<1>1. CASE OtherClients
  BY <1>1, OthersStep, UntouchedKeepsRoute DEF RaiseInv
<1>2. ASSUME NEW cb \in OpenCbs \cup {NULL}, SetOpenCb(cb)
      PROVE  RaiseInv'
  BY <1>2, ProgramUnchanged DEF SetOpenCb
<1>3. CASE AulResume
  <2>1. CASE RaiseWin
    BY <1>3, <2>1, RaiseWinStep DEF AulResume
  <2>2. CASE ~RaiseWin
    BY <1>3, <2>2, ProgramUnchanged DEF AulResume, RaiseInv, RaiseTypeOK
  <2> QED
    BY <2>1, <2>2
<1>4. ASSUME NEW r \in {0, -1}, OpenCbReturns(r)
      PROVE  RaiseInv'
  <2>1. CASE RaiseWin
    BY <1>4, <2>1, RaiseWinStep DEF OpenCbReturns
  <2>2. CASE ~RaiseWin
    BY <1>4, <2>2, ProgramUnchanged DEF OpenCbReturns, RaiseInv, RaiseTypeOK
  <2> QED
    BY <2>1, <2>2
<1>5. CASE Searching
  BY <1>5, CheckPidStep, QueryTreeStep, NotFoundStep DEF Searching
<1>6. CASE UNCHANGED vars
  BY <1>6, ProgramUnchanged DEF vars, clientVars, RaiseInv, RaiseTypeOK
<1> QED
  BY <1>1, <1>2, <1>3, <1>4, <1>5, <1>6 DEF RaiseNext

LEMMA RaiseInitially == RaiseInit => RaiseInv
<1> SUFFICES ASSUME RaiseInit
             PROVE  RaiseInv
  OBVIOUS
<1>1. Cardinality(Windows) \in Nat
  BY FS_CardinalityType
<1>2. rank \in [Windows -> Nat]
  BY <1>1 DEF RaiseInit
<1>3. <<>> \in Seq(Nodes)
  BY EmptySeq
<1>4. RaiseTypeOK
  BY <1>2, <1>3 DEF RaiseInit, RaiseTypeOK
<1> QED
  BY <1>4 DEF RaiseInit, RaiseInv, PidInterned, RouteAhead, StableFound

(***************************************************************************)
(* Type correctness, for any number of windows: what is raised is a window *)
(* of the tree and never the root the search starts from.                  *)
(***************************************************************************)
THEOREM RaiseTyped == RaiseSpec => []RaiseTypeOK
<1>1. RaiseInv => RaiseTypeOK
  BY DEF RaiseInv
<1> QED
  BY <1>1, RaiseInitially, RaiseStep, PTL DEF RaiseSpec

(***************************************************************************)
(* x_raise_win says ENOENT only when every window of ours that was there   *)
(* as it started has been touched during the search.                       *)
(***************************************************************************)
THEOREM StableWindowFound == RaiseSpec => []StableFound
<1>1. RaiseInv => StableFound
  BY DEF RaiseInv
<1> QED
  BY <1>1, RaiseInitially, RaiseStep, PTL DEF RaiseSpec
-----------------------------------------------------------------------------
(***************************************************************************)
(* What holds while the other clients are quiet.  Windows form a tree: no  *)
(* set of them holds the parents of all its members.  The windows still to *)
(* visit stand in the order of the tree, and below them are all the        *)
(* windows that are ours.                                                  *)
(***************************************************************************)
ParentsExist == \A w \in Windows : parent[w] # Gone => Exists(parent[w])

Rooted == \A P \in SUBSET Windows : P # {} => \E w \in P : parent[w] \notin P

Within(w, v) == v = Root \/ w \in Subtree(v)

InFront(u, v) == \E a, b \in Windows : /\ parent[a] = parent[b] /\ rank[a] < rank[b]
                                       /\ u \in Subtree(a) /\ v \in Subtree(b)

Remaining(w) == \E i \in DOMAIN todo : /\ Within(w, todo[i])
                                       /\ i = 1 /\ asked => w # todo[i]

Orderly == /\ own # {} => a_pid
           /\ \A i \in DOMAIN todo : Exists(todo[i])
           /\ \A i, j \in DOMAIN todo : i < j => InFront(todo[i], todo[j])
           /\ \A w \in Windows : Ours(w) => Remaining(w)

QuietInv == /\ ParentsExist /\ Rooted
            /\ phase = "search" /\ changes = 0 => Orderly

(***************************************************************************)
(* A window is below itself, below what its parent is below, and nothing   *)
(* about that changes while no parent does.                                *)
(***************************************************************************)
LEMMA SubtreeSelf == \A u \in Windows : u \in Subtree(u)
BY DEF Subtree

LEMMA SubtreeTransitive ==
    ASSUME NEW u, NEW v, NEW w, w \in Subtree(v), v \in Subtree(u)
    PROVE  w \in Subtree(u)
BY DEF Subtree

LEMMA SubtreeSame == ASSUME UNCHANGED parent PROVE \A u : Subtree(u)' = Subtree(u)
BY DEF Subtree, Ancestry

LEMMA ChildBelow ==
    ASSUME NEW v \in Windows, NEW c \in Children(v)
    PROVE  c \in Subtree(v)
<1>1. c \in Windows /\ parent[c] = v
  BY DEF Children
<1>2. ASSUME NEW P \in SUBSET Windows, c \in P, Ancestry(P) PROVE v \in P
  BY <1>1, <1>2 DEF Ancestry
<1> QED
  BY <1>1, <1>2 DEF Subtree

(***************************************************************************)
(* A window below v is below one of its children: otherwise the ancestors  *)
(* of the window would form a set that does not reach v, or the root.      *)
(***************************************************************************)
LEMMA BelowChild ==
    ASSUME ParentsExist, Rooted, NEW v \in Nodes, NEW w \in Windows, Exists(w),
           Within(w, v), w # v
    PROVE  \E c \in Children(v) : w \in Subtree(c)
<1> SUFFICES ASSUME \A c \in Children(v) : w \notin Subtree(c)
             PROVE  FALSE
  OBVIOUS
<1> DEFINE Avoids(c, P) == P \in SUBSET Windows /\ w \in P /\ Ancestry(P) /\ c \notin P
           A == {x \in Windows : \A c \in Children(v) : \A P \in SUBSET Windows :
                                     Avoids(c, P) => x \in P}
<1>1. w \in A
  OBVIOUS
<1>2. \A c \in Children(v) : c \notin A
  <2> SUFFICES ASSUME NEW c \in Children(v) PROVE c \notin A
    OBVIOUS
  <2>1. PICK P \in SUBSET Windows : w \in P /\ Ancestry(P) /\ c \notin P
    BY DEF Subtree
  <2> QED
    BY <2>1
<1>3. ASSUME NEW x \in A PROVE parent[x] \in A \cup {Root, Gone}
  <2>1. ASSUME parent[x] \in Windows,
               NEW c \in Children(v), NEW P \in SUBSET Windows, Avoids(c, P)
        PROVE  parent[x] \in P
    BY <1>3, <2>1 DEF Ancestry
  <2>2. parent[x] \in Windows => parent[x] \in A
    BY <2>1
  <2>3. parent[x] # Gone => parent[x] = Root \/ parent[x] \in Windows
    BY <1>3 DEF ParentsExist, Exists
  <2> QED
    BY <2>2, <2>3
<1>4. A \in SUBSET Windows
  OBVIOUS
<1> HIDE DEF A
<1>5. \A x \in A : parent[x] # v
  BY <1>2, <1>4 DEF Children
<1>6. CASE v = Root
  <2> DEFINE E == {x \in A : parent[x] # Gone}
  <2>1. w \in E
    BY <1>1 DEF Exists
  <2>2. \A x \in E : parent[x] \in E
    <3> SUFFICES ASSUME NEW x \in E PROVE parent[x] \in E
      OBVIOUS
    <3>1. parent[x] \in A
      BY <1>3, <1>5, <1>6
    <3>2. parent[x] \in Windows /\ Exists(parent[x])
      BY <3>1, <1>4 DEF ParentsExist
    <3> QED
      BY <3>1, <3>2 DEF Exists
  <2>3. E \in SUBSET Windows
    BY <1>4
  <2> QED
    BY <2>1, <2>2, <2>3 DEF Rooted
<1>7. CASE v # Root
  <2>1. w \in Subtree(v)
    BY <1>7 DEF Within
  <2>2. Ancestry(A \ {v})
    BY <1>3, <1>5 DEF Ancestry
  <2>3. A \ {v} \in SUBSET Windows /\ w \in A \ {v}
    BY <1>1, <1>4
  <2> QED
    BY <2>1, <2>2, <2>3 DEF Subtree
<1> QED
  BY <1>6, <1>7

(***************************************************************************)
(* The other clients keep the tree a tree.                                 *)
(***************************************************************************)
LEMMA TreeStep ==
    ASSUME RaiseTypeOK, ParentsExist, Rooted, OtherClients
    PROVE  ParentsExist' /\ Rooted'
<1>0. parent \in [Windows -> Nodes \cup {Gone}]
  BY DEF RaiseTypeOK
<1>1. CASE UNCHANGED parent
  BY <1>1 DEF ParentsExist, Rooted, Exists
<1>2. ASSUME NEW u \in Windows, NEW p \in Nodes, Place(u, p)
      PROVE  ParentsExist' /\ Rooted'
  <2>1. Exists(p) /\ p \notin Subtree(u) /\ parent' = [parent EXCEPT ![u] = p]
    BY <1>2 DEF Place
  <2>2. parent'[u] = p /\ \A w \in Windows \ {u} : parent'[w] = parent[w]
    BY <1>0, <2>1
  <2>3. p # u
    BY <2>1, SubtreeSelf
  <2>4. \A v \in Nodes : Exists(v) => Exists(v)'
    BY <2>1, <2>2 DEF Exists, Nodes
  <2>5. ParentsExist'
    BY <1>0, <2>1, <2>2, <2>4 DEF ParentsExist
  <2>6. ASSUME NEW P \in SUBSET Windows, P # {}, \A w \in P : parent'[w] \in P
        PROVE  FALSE
    <3>1. u \in P /\ p \in P
      BY <2>2, <2>6 DEF Rooted
    <3>2. PICK Q \in SUBSET Windows : p \in Q /\ Ancestry(Q) /\ u \notin Q
      BY <2>1, <3>1 DEF Subtree
    <3>3. \A w \in P \cap Q : parent[w] \in P \cap Q
      BY <2>2, <2>6, <3>2 DEF Ancestry
    <3>4. P \cap Q \in SUBSET Windows /\ P \cap Q # {}
      BY <3>1, <3>2
    <3> QED
      BY <3>3, <3>4 DEF Rooted
  <2>7. Rooted'
    BY <2>6 DEF Rooted
  <2> QED
    BY <2>5, <2>7
<1>3. ASSUME NEW u \in Windows, Destroy(u)
      PROVE  ParentsExist' /\ Rooted'
  <2> DEFINE S == Subtree(u)
  <2>1. parent' = [w \in Windows |-> IF w \in S THEN Gone ELSE parent[w]]
    BY <1>3 DEF Destroy
  <2>2. ASSUME NEW w \in Windows, w \notin S, parent[w] \in Windows PROVE parent[w] \notin S
    BY <2>2 DEF Subtree, Ancestry
  <2> HIDE DEF S
  <2>3. ASSUME NEW w \in Windows, parent'[w] # Gone PROVE Exists(parent[w])'
    <3>1. w \notin S /\ parent'[w] = parent[w]
      BY <2>1, <2>3
    <3>2. Exists(parent[w])
      BY <2>3, <3>1 DEF ParentsExist
    <3> QED
      BY <2>1, <2>2, <3>1, <3>2 DEF Exists
  <2>4. ParentsExist'
    BY <2>3 DEF ParentsExist
  <2>5. Rooted'
    BY <2>1 DEF Rooted
  <2> QED
    BY <2>4, <2>5
<1> QED
  BY <1>1, <1>2, <1>3 DEF OtherClients, Restack, SetPid

(***************************************************************************)
(* The search starts at the root: every window is below it.                *)
(***************************************************************************)
LEMMA OrderlyStart ==
    ASSUME RaiseInv, RaiseWin, UNCHANGED <<serverVars, open, raised>>, phase' = "search"
    PROVE  Orderly'
<1>1. /\ Atom /\ todo' = <<Root>> /\ asked' = FALSE
      /\ UNCHANGED <<parent, own, netpid>>
  BY DEF RaiseWin, serverVars
<1>2. DOMAIN todo' = {1} /\ todo'[1] = Root
  BY <1>1
<1>3. own' # {} => a_pid'
  BY <1>1 DEF Atom, RaiseInv, PidInterned
<1>5. \A w \in Windows : Remaining(w)'
  BY <1>1, <1>2 DEF Remaining, Within
<1> QED
  BY <1>2, <1>3, <1>5 DEF Orderly, Exists

(***************************************************************************)
(* A window that is not ours need not be looked at again.                  *)
(***************************************************************************)
LEMMA OrderlyCheck ==
    ASSUME RaiseInv, Orderly, CheckPid, phase' = "search"
    PROVE  Orderly'
<1>1. /\ UNCHANGED <<serverVars, a_pid, todo>> /\ todo # <<>>
      /\ ~(a_pid /\ Ours(Head(todo)))
  BY DEF CheckPid
<1>2. Head(todo) = todo[1]
  BY <1>1, HeadTail DEF RaiseInv, RaiseTypeOK
<1>3. ASSUME NEW w \in Windows, Ours(w) PROVE w # todo[1] /\ Remaining(w)
  <2>1. a_pid
    BY <1>3 DEF Ours, Orderly
  <2> QED
    BY <1>1, <1>2, <1>3, <2>1 DEF Orderly
<1>4. \A u : Subtree(u)' = Subtree(u)
  BY <1>1, SubtreeSame DEF serverVars
<1>5. \A w \in Windows : Ours(w)' => Remaining(w)'
  BY <1>1, <1>3, <1>4 DEF Ours, Exists, Remaining, Within, serverVars
<1>6. \A u, v : InFront(u, v) => InFront(u, v)'
  BY <1>1, <1>4 DEF InFront, serverVars
<1> QED
  BY <1>1, <1>5, <1>6 DEF Orderly, Exists, serverVars

(***************************************************************************)
(* The children of the window asked for stand in its place, in their own   *)
(* order, and everything below it but itself is below one of them.         *)
(***************************************************************************)
LEMMA OrderlyQuery ==
    ASSUME RaiseInv, ParentsExist, Rooted, Orderly, QueryTree
    PROVE  Orderly'
<1> DEFINE h == Head(todo)
           t == Tail(todo)
<1>1. /\ todo # <<>> /\ asked /\ ~asked'
      /\ UNCHANGED <<parent, rank, own, a_pid>>
  BY DEF QueryTree, serverVars
<1>2. /\ todo \in Seq(Nodes) /\ h = todo[1] /\ h \in Nodes /\ t \in Seq(Nodes)
      /\ Len(todo) \in Nat /\ DOMAIN todo = 1..Len(todo)
      /\ Len(t) = Len(todo) - 1
      /\ \A i \in 2..Len(todo) : t[i - 1] = todo[i]
  <2>1. todo \in Seq(Nodes) /\ todo # <<>>
    BY <1>1 DEF RaiseInv, RaiseTypeOK
  <2> QED
    BY <2>1, HeadTail
<1> HIDE DEF h, t
<1>3. 1 \in DOMAIN todo /\ Len(todo) >= 1
  BY <1>1, <1>2
<1>4. Exists(h)
  BY <1>2, <1>3 DEF Orderly
<1>5. PICK s \in ChildLists(h) : todo' = s \o t
  BY <1>4 DEF QueryTree, h, t
<1>6. s \in Seq(Windows) /\ \A c \in Children(h) : \E j \in DOMAIN s : s[j] = c
  BY <1>5, ChildListsTyped
<1>7. /\ Len(s) \in Nat /\ DOMAIN s = 1..Len(s)
      /\ DOMAIN todo' = 1..(Len(s) + Len(t)) /\ Len(t) \in Nat
      /\ \A j \in 1..Len(s) : todo'[j] = s[j]
      /\ \A j \in 1..Len(t) : todo'[Len(s) + j] = t[j]
  <2>1. /\ s \in Seq(Nodes) /\ Len(s) \in Nat /\ DOMAIN s = 1..Len(s)
        /\ Len(t) \in Nat /\ DOMAIN t = 1..Len(t)
    BY <1>2, <1>6, LenProperties DEF Nodes
  <2>2. /\ todo' \in Seq(Nodes) /\ Len(todo') = Len(s) + Len(t)
        /\ \A j \in 1..(Len(s) + Len(t)) :
              todo'[j] = IF j <= Len(s) THEN s[j] ELSE t[j - Len(s)]
    <3>1. /\ s \o t \in Seq(Nodes) /\ Len(s \o t) = Len(s) + Len(t)
          /\ \A j \in 1..(Len(s) + Len(t)) :
                (s \o t)[j] = IF j <= Len(s) THEN s[j] ELSE t[j - Len(s)]
      BY <1>2, <2>1, ConcatProperties, Zenon
    <3> QED
      BY <1>5, <3>1, Zenon
  <2>3. DOMAIN todo' = 1..(Len(s) + Len(t))
    BY <2>2, LenProperties
  <2>4. ASSUME NEW j \in 1..Len(s) PROVE todo'[j] = s[j]
    <3>1. j \in 1..(Len(s) + Len(t)) /\ j <= Len(s)
      BY <2>1
    <3> QED
      BY <2>2, <3>1, Zenon
  <2>5. ASSUME NEW j \in 1..Len(t) PROVE todo'[Len(s) + j] = t[j]
    <3>1. /\ Len(s) + j \in 1..(Len(s) + Len(t))
          /\ ~(Len(s) + j <= Len(s)) /\ (Len(s) + j) - Len(s) = j
      BY <2>1
    <3> QED
      BY <2>2, <3>1, Zenon
  <2> QED
    BY <2>1, <2>3, <2>4, <2>5, Zenon
<1>8. /\ \A i, j \in DOMAIN s : i < j => rank[s[i]] < rank[s[j]]
      /\ \A j \in DOMAIN s : s[j] \in Children(h)
  <2>1. /\ s \in [1..Cardinality(Children(h)) -> Children(h)]
        /\ \A i, j \in DOMAIN s : i < j => rank[s[i]] < rank[s[j]]
    BY <1>5 DEF ChildLists
  <2> QED
    BY <2>1
<1>9. ASSUME NEW i \in DOMAIN todo'
      PROVE  \/ i \in DOMAIN s /\ todo'[i] = s[i]
             \/ /\ i > Len(s) /\ i - Len(s) + 1 \in 2..Len(todo)
                /\ todo'[i] = todo[i - Len(s) + 1]
  <2>1. CASE i \in 1..Len(s)
    BY <1>7, <2>1
  <2>2. CASE i \notin 1..Len(s)
    <3> DEFINE k == i - Len(s)
    <3>1. i > Len(s) /\ k \in 1..Len(t) /\ i = Len(s) + k
      BY <1>7, <1>9, <2>2
    <3>2. k + 1 \in 2..Len(todo) /\ (k + 1) - 1 = k
      BY <1>2, <3>1
    <3>3. todo'[i] = t[k] /\ t[(k + 1) - 1] = todo[k + 1]
      BY <1>2, <1>7, <3>1, <3>2
    <3> QED
      BY <3>1, <3>2, <3>3
  <2> QED
    BY <2>1, <2>2
<1>10. \A u : Subtree(u)' = Subtree(u)
  BY <1>1, SubtreeSame
<1>11. \A u, v : InFront(u, v) => InFront(u, v)'
  BY <1>1, <1>10 DEF InFront
<1>12. \A i \in DOMAIN todo' : Exists(todo[i])'
  <2> SUFFICES ASSUME NEW i \in DOMAIN todo' PROVE Exists(todo'[i])
    BY <1>1 DEF Exists
  <2>1. ASSUME NEW j \in DOMAIN s PROVE Exists(s[j])
    <3>1. s[j] \in Windows /\ parent[s[j]] = h
      BY <1>8, <2>1 DEF Children
    <3>2. h # Gone
      BY <1>2 DEF Nodes
    <3> QED
      BY <3>1, <3>2 DEF Exists
  <2>2. \A j \in 2..Len(todo) : Exists(todo[j])
    BY <1>2 DEF Orderly
  <2> QED
    BY <1>9, <2>1, <2>2
<1>13. ASSUME NEW i \in DOMAIN todo', NEW j \in DOMAIN todo', i < j
       PROVE  InFront(todo'[i], todo'[j])
  <2>1. i \in Nat /\ j \in Nat
    BY <1>7
  <2>2. CASE j \in DOMAIN s
    <3>1. i \in DOMAIN s
      BY <1>7, <1>13, <2>1, <2>2
    <3>2. /\ s[i] \in Windows /\ s[j] \in Windows /\ parent[s[i]] = parent[s[j]]
          /\ rank[s[i]] < rank[s[j]]
      BY <1>8, <1>13, <2>2, <3>1 DEF Children
    <3>3. InFront(s[i], s[j])
      BY <3>2, SubtreeSelf DEF InFront
    <3> QED
      BY <1>7, <2>2, <3>1, <3>3
  <2>3. CASE j \notin DOMAIN s
    <3> DEFINE k == j - Len(s) + 1
    <3>1. k \in 2..Len(todo) /\ todo'[j] = todo[k]
      BY <1>9, <2>3
    <3>2. CASE i \in DOMAIN s
      <4>1. InFront(h, todo[k])
        BY <1>2, <1>3, <3>1 DEF Orderly
      <4>2. h \in Windows
        BY <4>1 DEF InFront, Subtree
      <4>3. s[i] \in Subtree(h)
        BY <1>8, <3>2, <4>2, ChildBelow
      <4>4. InFront(s[i], todo[k])
        BY <4>1, <4>3, SubtreeTransitive DEF InFront
      <4> QED
        BY <1>7, <3>1, <3>2, <4>4
    <3>3. CASE i \notin DOMAIN s
      <4> DEFINE l == i - Len(s) + 1
      <4>1. l \in 2..Len(todo) /\ todo'[i] = todo[l]
        BY <1>9, <3>3
      <4>2. l < k
        BY <1>7, <1>13, <2>1
      <4>3. l \in DOMAIN todo /\ k \in DOMAIN todo
        BY <1>2, <3>1, <4>1
      <4> HIDE DEF k, l
      <4>4. InFront(todo[l], todo[k])
        BY <4>2, <4>3 DEF Orderly
      <4> QED
        BY <3>1, <4>1, <4>4
    <3> QED
      BY <3>2, <3>3
  <2> QED
    BY <2>2, <2>3
<1>14. ASSUME NEW w \in Windows, Ours(w)
       PROVE  \E i \in DOMAIN todo' : Within(w, todo'[i])
  <2>1. PICK i \in DOMAIN todo : Within(w, todo[i]) /\ (i = 1 => w # todo[i])
    BY <1>1, <1>14 DEF Orderly, Remaining
  <2>2. CASE i = 1
    <3>1. Within(w, h) /\ w # h /\ Exists(w)
      BY <1>2, <1>14, <2>1, <2>2 DEF Ours
    <3>2. PICK c \in Children(h) : w \in Subtree(c)
      BY <1>2, <3>1, BelowChild
    <3>3. PICK j \in DOMAIN s : s[j] = c
      BY <1>6, <3>2
    <3>4. j \in DOMAIN todo' /\ todo'[j] = c
      BY <1>7, <3>3
    <3> QED
      BY <3>2, <3>4 DEF Within
  <2>3. CASE i # 1
    <3>1. i \in 2..Len(todo) /\ i - 1 \in 1..Len(t)
      BY <1>2, <2>3
    <3>2. t[i - 1] = todo[i] /\ todo'[Len(s) + (i - 1)] = t[i - 1]
      BY <1>2, <1>7, <3>1
    <3>3. Len(s) + (i - 1) \in DOMAIN todo'
      <4>1. i - 1 >= 1 /\ i - 1 <= Len(t) /\ i - 1 \in Nat
        BY <1>7, <3>1
      <4> QED
        BY <1>7, <4>1
    <3> QED
      BY <2>1, <3>2, <3>3
  <2> QED
    BY <2>2, <2>3
<1>15. \A w \in Windows : Ours(w)' => Remaining(w)'
  BY <1>1, <1>10, <1>14 DEF Ours, Exists, Remaining, Within
<1> QED
  BY <1>1, <1>11, <1>12, <1>13, <1>15 DEF Orderly

(***************************************************************************)
(* Every step keeps the tree, and the search in order while nobody changes *)
(* anything.                                                               *)
(***************************************************************************)
LEMMA QuietStep ==
    ASSUME RaiseInv, QuietInv, [RaiseNext]_vars
    PROVE  QuietInv'
<1> USE DEF QuietInv
<1>1. CASE OtherClients
  <2>1. ParentsExist' /\ Rooted'
    BY <1>1, TreeStep DEF RaiseInv
  <2>2. ~(phase' = "search" /\ changes' = 0)
    <3>1. PICK S : Change(S)
      BY <1>1 DEF OtherClients, Place, Restack, Destroy, SetPid
    <3>2. changes \in Nat
      BY DEF RaiseInv, RaiseTypeOK
    <3>3. phase' = phase /\ (phase = "search" => changes' = changes + 1)
      BY <3>1 DEF Change, clientVars
    <3> QED
      BY <3>2, <3>3
  <2> QED
    BY <2>1, <2>2
<1>2. CASE ~OtherClients
  <2>1. UNCHANGED serverVars
    BY <1>2 DEF RaiseNext, SetOpenCb, AulResume, OpenCbReturns, Searching, CheckPid,
                QueryTree, NotFound, vars, serverVars
  <2>2. ParentsExist' /\ Rooted'
    BY <2>1 DEF ParentsExist, Rooted, Exists, serverVars
  <2>3. ASSUME phase' = "search", changes' = 0 PROVE Orderly'
    <3>1. CASE RaiseWin /\ UNCHANGED <<serverVars, open, raised>>
      BY <2>3, <3>1, OrderlyStart
    <3>2. CASE CheckPid
      <4>1. Orderly
        BY <2>3, <3>2 DEF CheckPid, EndHistory, historyVars
      <4> QED
        BY <2>3, <3>2, <4>1, OrderlyCheck
    <3>3. CASE QueryTree
      <4>1. Orderly
        BY <2>3, <3>3 DEF QueryTree, historyVars
      <4> QED
        BY <3>3, <4>1, OrderlyQuery
    <3>4. CASE UNCHANGED vars
      <4>1. Orderly /\ UNCHANGED <<parent, rank, own, a_pid, todo, asked>>
        BY <2>3, <3>4 DEF vars, serverVars, clientVars, historyVars
      <4>2. \A u : Subtree(u)' = Subtree(u)
        BY <4>1, SubtreeSame
      <4> QED
        BY <4>1, <4>2 DEF Orderly, Exists, InFront, Remaining, Within, Ours
    <3>5. ASSUME NEW cb \in OpenCbs \cup {NULL}, SetOpenCb(cb) PROVE FALSE
      BY <2>3, <3>5 DEF SetOpenCb
    <3>6. CASE AulResume
      BY <2>3, <3>1, <3>6 DEF AulResume
    <3>7. ASSUME NEW r \in {0, -1}, OpenCbReturns(r) PROVE Orderly'
      BY <2>3, <3>1, <3>7 DEF OpenCbReturns
    <3>8. CASE NotFound
      BY <2>3, <3>8 DEF NotFound
    <3> QED
      BY <1>2, <3>2, <3>3, <3>4, <3>5, <3>6, <3>7, <3>8 DEF RaiseNext, Searching
  <2> QED
    BY <2>2, <2>3
<1> QED
  BY <1>1, <1>2

(***************************************************************************)
(* What the search answers while nobody changes anything.                  *)
(***************************************************************************)
LEMMA QuietAnswer ==
    ASSUME RaiseInv, QuietInv, RaiseNext, phase = "search", phase' = "idle", changes = 0
    PROVE  IF result' = "sent"
           THEN Ours(raised') /\ \A w \in Windows : Ours(w) /\ w # raised' => Before(raised', w)
           ELSE \A w \in Windows : ~Ours(w)
<1>1. Orderly
  BY DEF QuietInv
<1>2. CASE CheckPid
  <2> DEFINE h == Head(todo)
  <2>1. todo # <<>> /\ ~asked /\ Ours(h) /\ result' = "sent" /\ raised' = h
    BY <1>2 DEF CheckPid
  <2>2. h = todo[1] /\ 1 \in DOMAIN todo /\ \A i \in DOMAIN todo : i \in Nat /\ i >= 1
    <3>1. todo \in Seq(Nodes)
      BY DEF RaiseInv, RaiseTypeOK
    <3>2. Len(todo) \in Nat /\ DOMAIN todo = 1..Len(todo) /\ h = todo[1]
      BY <2>1, <3>1, HeadTail
    <3>3. Len(todo) # 0
      BY <2>1, <3>1, EmptySeq
    <3> QED
      BY <3>2, <3>3
  <2>3. h \in Windows
    BY <2>1 DEF Ours, RaiseInv, RaiseTypeOK
  <2>4. ASSUME NEW w \in Windows, Ours(w), w # h PROVE Before(h, w)
    <3>1. PICK i \in DOMAIN todo : Within(w, todo[i])
      BY <1>1, <2>4 DEF Orderly, Remaining
    <3>2. CASE i = 1
      BY <2>2, <2>3, <2>4, <3>1, <3>2 DEF Within, Before
    <3>3. CASE i # 1
      <4>1. 1 < i
        BY <2>2, <3>3
      <4>2. InFront(h, todo[i])
        BY <1>1, <2>2, <4>1 DEF Orderly
      <4>3. todo[i] \in Windows
        BY <4>2 DEF InFront, Subtree
      <4>4. w \in Subtree(todo[i])
        BY <3>1, <4>3 DEF Within
      <4> QED
        BY <4>2, <4>4, SubtreeTransitive DEF InFront, Before
    <3> QED
      BY <3>2, <3>3
  <2> HIDE DEF h
  <2> QED
    BY <2>1, <2>4
<1>3. CASE NotFound
  <2>1. todo = <<>> /\ result' = "ENOENT"
    BY <1>3 DEF NotFound
  <2>2. \A i \in DOMAIN todo : FALSE
    BY <2>1
  <2> QED
    BY <1>1, <2>1, <2>2 DEF Orderly, Remaining
<1>4. CheckPid \/ NotFound
  BY DEF RaiseNext, OtherClients, Place, Restack, Destroy, SetPid, Change, clientVars,
         SetOpenCb, AulResume, OpenCbReturns, Searching, QueryTree
<1> QED
  BY <1>2, <1>3, <1>4

LEMMA QuietHolds == RaiseSpec => [](RaiseInv /\ QuietInv)
<1>1. RaiseInit => QuietInv
  BY DEF RaiseInit, QuietInv, ParentsExist, Rooted
<1>2. RaiseInv /\ QuietInv /\ [RaiseNext]_vars => QuietInv'
  BY QuietStep
<1> QED
  BY <1>1, <1>2, RaiseInitially, RaiseStep, PTL DEF RaiseSpec

(***************************************************************************)
(* For any number of windows, in any tree they can have come to form: with *)
(* the other clients quiet, what is raised is the first window of ours in  *)
(* the order of the tree, and ENOENT means that there is none.             *)
(***************************************************************************)
THEOREM QuietCorrect == RaiseSpec => QuietSearch
<1>1. RaiseInv /\ QuietInv /\ [RaiseNext]_vars =>
        [phase = "search" /\ phase' = "idle" /\ changes = 0 =>
            IF result' = "sent"
            THEN Ours(raised') /\ \A w \in Windows : Ours(w) /\ w # raised' => Before(raised', w)
            ELSE \A w \in Windows : ~Ours(w)]_vars
  BY QuietAnswer
<1> QED
  BY <1>1, QuietHolds, PTL DEF RaiseSpec, QuietSearch
-----------------------------------------------------------------------------
(***************************************************************************)
(* The tree in front of the search: ancestors of one window stand one      *)
(* above the other, so that nothing is below two children of a window.     *)
(***************************************************************************)
LEMMA ParentBelow ==
    ASSUME RaiseTypeOK, NEW u, NEW w \in Subtree(u), w # u
    PROVE  parent[w] \in Subtree(u)
<1>1. w \in Windows /\ parent[w] \in Nodes \cup {Gone}
  BY DEF Subtree, RaiseTypeOK
<1>2. parent[w] \in Windows
  <2>1. ASSUME parent[w] \notin Windows PROVE Ancestry({w})
    BY <1>1, <2>1 DEF Ancestry, Nodes
  <2>2. w \in {w} /\ u \notin {w} /\ {w} \in SUBSET Windows
    BY <1>1
  <2> QED
    BY <2>1, <2>2 DEF Subtree
<1>3. ASSUME NEW P \in SUBSET Windows, parent[w] \in P, Ancestry(P) PROVE u \in P
  <2>1. Ancestry(P \cup {w}) /\ P \cup {w} \in SUBSET Windows /\ w \in P \cup {w}
    BY <1>1, <1>3 DEF Ancestry
  <2>2. u \in P \cup {w}
    BY <2>1 DEF Subtree
  <2> QED
    BY <2>2
<1> QED
  BY <1>2, <1>3 DEF Subtree

LEMMA OneAboveTheOther ==
    ASSUME RaiseTypeOK, NEW a \in Windows, NEW b \in Windows,
           NEW w \in Subtree(a), w \in Subtree(b)
    PROVE  a \in Subtree(b) \/ b \in Subtree(a)
<1> SUFFICES ASSUME a \notin Subtree(b), b \notin Subtree(a) PROVE FALSE
  OBVIOUS
<1> DEFINE P == Subtree(a) \cap Subtree(b)
<1>1. P \in SUBSET Windows /\ w \in P
  BY DEF Subtree
<1>2. \A x \in P : parent[x] \in P
  BY ParentBelow
<1>3. Ancestry(P) /\ a \notin P
  BY <1>2 DEF Ancestry
<1> HIDE DEF P
<1>4. a \in P
  BY <1>1, <1>3 DEF Subtree
<1> QED
  BY <1>3, <1>4

LEMMA NotBelowChild ==
    ASSUME RaiseTypeOK, Rooted, NEW v \in Nodes, NEW c \in Children(v)
    PROVE  v \notin Subtree(c)
<1> SUFFICES ASSUME v \in Subtree(c) PROVE FALSE
  OBVIOUS
<1>1. v \in Windows /\ c \in Windows /\ parent[c] = v
  BY DEF Subtree, Children
<1> DEFINE Q == {x \in Windows : v \in Subtree(x) /\ x \in Subtree(c)}
<1>2. c \in Q /\ v \in Q
  BY <1>1, SubtreeSelf
<1>3. ASSUME NEW x \in Q PROVE parent[x] \in Q
  <2>1. CASE x = c
    BY <1>1, <1>2, <2>1
  <2>2. CASE x # c
    <3>1. parent[x] \in Subtree(c)
      BY <2>2, ParentBelow
    <3>2. parent[x] \in Windows /\ x \in Children(parent[x])
      BY <3>1 DEF Subtree, Children
    <3>3. x \in Subtree(parent[x])
      BY <3>2, ChildBelow
    <3>4. v \in Subtree(parent[x])
      BY <3>3, SubtreeTransitive
    <3> QED
      BY <3>1, <3>2, <3>4
  <2> QED
    BY <2>1, <2>2
<1>4. Q \in SUBSET Windows /\ Q # {}
  BY <1>2
<1> HIDE DEF Q
<1> QED
  BY <1>3, <1>4 DEF Rooted

LEMMA SiblingsApart ==
    ASSUME RaiseTypeOK, Rooted, NEW v \in Nodes, NEW c \in Children(v), NEW d \in Children(v),
           NEW w \in Subtree(c), w \in Subtree(d)
    PROVE  c = d
<1>1. /\ c \in Windows /\ parent[c] = v
      /\ d \in Windows /\ parent[d] = v
  BY DEF Children
<1>2. v \notin Subtree(c) /\ v \notin Subtree(d)
  BY NotBelowChild
<1>3. c \in Subtree(d) \/ d \in Subtree(c)
  BY <1>1, OneAboveTheOther
<1>4. c \in Subtree(d) => c = d
  BY <1>1, <1>2, ParentBelow
<1>5. d \in Subtree(c) => c = d
  BY <1>1, <1>2, ParentBelow
<1> QED
  BY <1>3, <1>4, <1>5
-----------------------------------------------------------------------------
LEMMA PendingFinite ==
    ASSUME RaiseTypeOK, NEW q \in Seq(Nodes)
    PROVE  IsFiniteSet(Pending(q)) /\ Cardinality(Pending(q)) \in Nat
<1>1. IsFiniteSet(Nodes)
  BY FS_AddElement DEF Nodes
<1>2. Len(q) \in Nat /\ DOMAIN q = 1..Len(q)
  BY LenProperties
<1>3. IsFiniteSet(DOMAIN q)
  BY <1>2, FS_Interval
<1>4. IsFiniteSet((DOMAIN q) \X Nodes)
  BY <1>1, <1>3, FS_Product
<1>5. Pending(q) \in SUBSET ((DOMAIN q) \X Nodes)
  BY DEF Pending
<1>6. IsFiniteSet(Pending(q))
  BY <1>4, <1>5, FS_Subset
<1> QED
  BY <1>6, FS_CardinalityType

(***************************************************************************)
(* Putting the children of the first window in its place leaves less to    *)
(* visit: what is below a child was below their parent, once.              *)
(***************************************************************************)
LEMMA PendingShrinks ==
    ASSUME RaiseTypeOK, Rooted, NEW q \in Seq(Nodes), q # <<>>, NEW s \in Seq(Windows),
           \A i \in DOMAIN s : s[i] \in Children(Head(q)),
           \A i, j \in DOMAIN s : s[i] = s[j] => i = j
    PROVE  Cardinality(Pending(s \o Tail(q))) < Cardinality(Pending(q))
<1> DEFINE h == Head(q)
           t == Tail(q)
           r == s \o t
           n == Len(s)
           S == Pending(r)
           T == Pending(q) \ {<<1, h>>}
           f == [p \in S |-> IF p[1] <= n THEN <<1, p[2]>> ELSE <<(p[1] - n) + 1, p[2]>>]
<1>1. /\ h = q[1] /\ h \in Nodes /\ t \in Seq(Nodes)
      /\ Len(q) \in Nat /\ DOMAIN q = 1..Len(q) /\ Len(t) = Len(q) - 1
      /\ \A i \in 2..Len(q) : t[i - 1] = q[i]
  BY HeadTail
<1>2. n \in Nat /\ DOMAIN s = 1..n /\ s \in Seq(Nodes)
  <2>1. n \in Nat /\ DOMAIN s = 1..n /\ \A i \in 1..n : s[i] \in Windows
    BY LenProperties, ElementOfSeq
  <2>2. s \in Seq(Nodes)
    BY DEF Nodes
  <2> QED
    BY <2>1, <2>2
<1>3. /\ r \in Seq(Nodes) /\ Len(r) = n + Len(t) /\ DOMAIN r = 1..Len(r)
      /\ \A i \in 1..n : r[i] = s[i]
      /\ \A i \in (n + 1)..Len(r) : r[i] = t[i - n]
  <2>1. /\ r \in Seq(Nodes) /\ Len(r) = n + Len(t)
        /\ \A i \in 1..(n + Len(t)) : r[i] = IF i <= n THEN s[i] ELSE t[i - n]
    BY <1>1, <1>2, ConcatProperties
  <2>2. DOMAIN r = 1..Len(r)
    BY <2>1, LenProperties
  <2> QED
    BY <1>1, <1>2, <2>1, <2>2
<1>4. h \in Below(h)
  BY <1>1, SubtreeSelf DEF Below, Nodes
<1>5. <<1, h>> \in Pending(q)
  <2>1. 1 \in DOMAIN q
    BY <1>1, EmptySeq
  <2> QED
    BY <1>1, <1>4, <2>1 DEF Pending
<1>6. ASSUME NEW p \in S, p[1] <= n
      PROVE  /\ p[1] \in 1..n /\ s[p[1]] \in Children(h) /\ p[2] \in Subtree(s[p[1]])
             /\ p[2] \in Below(h) /\ p[2] # h
  <2>1. p[1] \in DOMAIN r /\ p[2] \in Below(r[p[1]])
    BY DEF Pending
  <2>2. p[1] \in 1..n /\ r[p[1]] = s[p[1]]
    BY <1>2, <1>3, <1>6, <2>1
  <2>3. s[p[1]] \in Children(h) /\ s[p[1]] \in Windows
    BY <1>2, <2>2 DEF Children
  <2>4. p[2] \in Subtree(s[p[1]])
    BY <2>1, <2>2, <2>3 DEF Below, Nodes
  <2>5. p[2] # h
    BY <1>1, <2>3, <2>4, NotBelowChild
  <2>6. p[2] \in Below(h)
    <3>1. CASE h = Root
      BY <2>4, <3>1 DEF Below, Subtree, Nodes
    <3>2. CASE h # Root
      <4>1. s[p[1]] \in Subtree(h)
        BY <1>1, <2>3, <3>2, ChildBelow DEF Nodes
      <4> QED
        BY <2>4, <3>2, <4>1, SubtreeTransitive DEF Below
    <3> QED
      BY <3>1, <3>2
  <2> QED
    BY <2>2, <2>3, <2>4, <2>5, <2>6
<1>7. ASSUME NEW p \in S, ~(p[1] <= n)
      PROVE  /\ p[1] \in Int /\ (p[1] - n) + 1 \in 2..Len(q)
             /\ p[2] \in Below(q[(p[1] - n) + 1])
  <2>1. p[1] \in DOMAIN r /\ p[2] \in Below(r[p[1]])
    BY DEF Pending
  <2>2. /\ p[1] \in (n + 1)..Len(r) /\ r[p[1]] = t[p[1] - n]
        /\ (p[1] - n) + 1 \in 2..Len(q) /\ ((p[1] - n) + 1) - 1 = p[1] - n
    BY <1>1, <1>2, <1>3, <1>7, <2>1
  <2>3. t[p[1] - n] = q[(p[1] - n) + 1]
    BY <1>1, <2>2
  <2> QED
    BY <1>1, <1>2, <2>1, <2>2, <2>3
<1>8. \A p \in S : p = <<p[1], p[2]>> /\ p[1] \in DOMAIN r /\ p[2] \in Nodes
  BY DEF Pending
<1>9. ASSUME NEW p \in S PROVE f[p] \in T
  <2>1. CASE p[1] <= n
    <3>1. f[p] = <<1, p[2]>>
      BY <2>1
    <3>2. p[2] \in Below(q[1]) /\ p[2] # h /\ p[2] \in Nodes /\ 1 \in DOMAIN q
      BY <1>1, <1>6, <1>8, <2>1, EmptySeq
    <3> HIDE DEF f, h, S
    <3> QED
      BY <3>1, <3>2 DEF Pending
  <2>2. CASE ~(p[1] <= n)
    <3>1. f[p] = <<(p[1] - n) + 1, p[2]>>
      BY <2>2
    <3>2. /\ (p[1] - n) + 1 \in DOMAIN q /\ (p[1] - n) + 1 # 1
          /\ p[2] \in Below(q[(p[1] - n) + 1]) /\ p[2] \in Nodes
      BY <1>1, <1>7, <1>8, <2>2
    <3> HIDE DEF f, h, S
    <3> QED
      BY <3>1, <3>2 DEF Pending
  <2> QED
    BY <2>1, <2>2
<1>10. ASSUME NEW p1 \in S, NEW p2 \in S, f[p1] = f[p2] PROVE p1 = p2
  <2>1. CASE p1[1] <= n /\ p2[1] <= n
    <3>1. p1[2] = p2[2]
      BY <1>10, <2>1
    <3>2. s[p1[1]] = s[p2[1]]
      BY <1>1, <1>6, <2>1, <3>1, SiblingsApart
    <3>3. p1[1] = p2[1]
      BY <1>2, <1>6, <2>1, <3>2
    <3> QED
      BY <1>8, <3>1, <3>3
  <2>2. CASE ~(p1[1] <= n) /\ ~(p2[1] <= n)
    <3>1. f[p1] = <<(p1[1] - n) + 1, p1[2]>> /\ f[p2] = <<(p2[1] - n) + 1, p2[2]>>
      BY <2>2
    <3>2. p1[2] = p2[2] /\ (p1[1] - n) + 1 = (p2[1] - n) + 1
      BY <1>10, <3>1
    <3>3. p1[1] \in Int /\ p2[1] \in Int
      BY <1>7, <2>2
    <3>4. p1[1] = p2[1]
      BY <1>2, <3>2, <3>3
    <3> QED
      BY <1>8, <3>2, <3>4
  <2>3. ASSUME NEW x \in S, NEW y \in S, x[1] <= n, ~(y[1] <= n) PROVE f[x] # f[y]
    <3>1. f[x] = <<1, x[2]>> /\ f[y] = <<(y[1] - n) + 1, y[2]>>
      BY <2>3
    <3>2. (y[1] - n) + 1 # 1
      BY <1>7, <2>3
    <3> QED
      BY <3>1, <3>2
  <2> QED
    BY <1>10, <2>1, <2>2, <2>3
<1>11. IsFiniteSet(T) /\ Cardinality(T) = Cardinality(Pending(q)) - 1
  BY <1>5, PendingFinite, FS_RemoveElement
<1>12. f \in Injection(S, T)
  <2>1. f \in [S -> T]
    BY <1>9
  <2> HIDE DEF f, S, T
  <2> QED
    BY <1>10, <2>1 DEF Injection, IsInjective
<1>13. Cardinality(S) <= Cardinality(T)
  <2> HIDE DEF f, S, T
  <2> QED
    BY <1>11, <1>12, FS_Injection
<1>14. Cardinality(S) \in Nat /\ Cardinality(Pending(q)) \in Nat
  BY <1>3, PendingFinite
<1> HIDE DEF S, T
<1>15. Cardinality(S) < Cardinality(Pending(q))
  BY <1>11, <1>13, <1>14
<1> QED
  BY <1>15 DEF S

LEMMA ChildListsOnce ==
    ASSUME RaiseTypeOK, NEW v, NEW s \in ChildLists(v)
    PROVE  /\ \A i \in DOMAIN s : s[i] \in Children(v)
           /\ \A i, j \in DOMAIN s : s[i] = s[j] => i = j
<1>1. IsFiniteSet(Children(v))
  BY FS_Subset DEF Children
<1>2. Cardinality(Children(v)) \in Nat
  BY <1>1, FS_CardinalityType
<1>3. /\ s \in [1..Cardinality(Children(v)) -> Children(v)]
      /\ \A i, j \in DOMAIN s : i < j => rank[s[i]] < rank[s[j]]
  BY DEF ChildLists
<1>4. \A i \in DOMAIN s : s[i] \in Children(v) /\ rank[s[i]] \in Nat /\ i \in Int
  <2>1. DOMAIN s = 1..Cardinality(Children(v))
    BY <1>3
  <2>2. ASSUME NEW i \in DOMAIN s PROVE s[i] \in Children(v) /\ i \in Int
    BY <1>2, <1>3, <2>1
  <2>3. \A c \in Children(v) : rank[c] \in Nat
    BY DEF Children, RaiseTypeOK
  <2> QED
    BY <2>2, <2>3
<1>5. ASSUME NEW i \in DOMAIN s, NEW j \in DOMAIN s, s[i] = s[j] PROVE ~(i < j)
  BY <1>3, <1>4, <1>5
<1> QED
  BY <1>4, <1>5

LEMMA RequestAdvances ==
    ASSUME RaiseInv, QuietInv, RaiseNext, phase = "search", phase' = "search",
           <<todo, asked>>' # <<todo, asked>>
    PROVE  RequestsLeft' < RequestsLeft
<1>1. RaiseTypeOK /\ Rooted /\ todo \in Seq(Nodes)
  BY DEF RaiseInv, QuietInv, RaiseTypeOK
<1>2. Cardinality(Pending(todo)) \in Nat
  BY <1>1, PendingFinite
<1>3. ASSUME UNCHANGED parent PROVE \A q : Pending(q)' = Pending(q)
  BY <1>3, SubtreeSame DEF Pending, Below
<1>4. CASE CheckPid
  <2>1. UNCHANGED <<parent, todo>> /\ ~asked /\ asked'
    BY <1>4 DEF CheckPid, serverVars
  <2>2. Pending(todo)' = Pending(todo)
    BY <2>1, SubtreeSame DEF Pending, Below
  <2> QED
    BY <1>2, <2>1, <2>2 DEF RequestsLeft
<1>5. CASE QueryTree
  <2>1. UNCHANGED parent /\ todo # <<>> /\ asked /\ ~asked'
    BY <1>5 DEF QueryTree, serverVars
  <2>2. PICK s \in Seq(Windows) :
           /\ todo' = s \o Tail(todo)
           /\ \A i \in DOMAIN s : s[i] \in Children(Head(todo))
           /\ \A i, j \in DOMAIN s : s[i] = s[j] => i = j
    <3>1. CASE Exists(Head(todo))
      <4>1. PICK s \in ChildLists(Head(todo)) : todo' = s \o Tail(todo)
        BY <1>5, <3>1 DEF QueryTree
      <4> QED
        BY <1>1, <4>1, ChildListsTyped, ChildListsOnce
    <3>2. CASE ~Exists(Head(todo))
      <4>1. todo' = Tail(todo) /\ Tail(todo) \in Seq(Nodes)
        BY <1>1, <1>5, <2>1, <3>2, HeadTail DEF QueryTree
      <4>2. <<>> \in Seq(Windows) /\ DOMAIN <<>> = {} /\ <<>> \o Tail(todo) = Tail(todo)
        BY <4>1, EmptySeq, ConcatEmptySeq
      <4> QED
        BY <4>1, <4>2
    <3> QED
      BY <3>1, <3>2
  <2>3. Cardinality(Pending(todo')) < Cardinality(Pending(todo))
    BY <1>1, <2>1, <2>2, PendingShrinks
  <2>4. todo' \in Seq(Nodes)
    <3>1. RaiseInv'
      BY RaiseStep
    <3> QED
      BY <3>1 DEF RaiseInv, RaiseTypeOK
  <2>5. Pending(todo)' = Pending(todo')
    BY <2>1, SubtreeSame DEF Pending, Below
  <2>6. Cardinality(Pending(todo')) \in Nat
    BY <1>1, <2>4, PendingFinite
  <2> QED
    BY <1>2, <2>1, <2>3, <2>5, <2>6 DEF RequestsLeft
<1>6. CASE OtherClients
  <2>1. UNCHANGED clientVars
    BY <1>6 DEF OtherClients, Place, Restack, Destroy, SetPid, Change
  <2> QED
    BY <2>1 DEF clientVars
<1>7. ~(AulResume \/ (\E cb \in OpenCbs \cup {NULL} : SetOpenCb(cb))
           \/ (\E r \in {0, -1} : OpenCbReturns(r)) \/ NotFound)
  BY DEF AulResume, SetOpenCb, OpenCbReturns, NotFound
<1> QED
  BY <1>4, <1>5, <1>6, <1>7 DEF RaiseNext, Searching

(***************************************************************************)
(* The recursion of __find_win gets nearer to its end with every request,  *)
(* whatever the tree it finds: it does not run in circles.                 *)
(***************************************************************************)
THEOREM SearchTerminates == RaiseSpec => SearchAdvances
<1>1. RaiseInv /\ QuietInv /\ [RaiseNext]_vars =>
        [phase = "search" /\ phase' = "search" /\ <<todo, asked>>' # <<todo, asked>>
            => RequestsLeft' < RequestsLeft]_vars
  BY RequestAdvances
<1> QED
  BY <1>1, QuietHolds, PTL DEF RaiseSpec, SearchAdvances
=============================================================================
