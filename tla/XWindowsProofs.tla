---------------------------- MODULE XWindowsProofs ----------------------------
(***************************************************************************)
(* The window list against the screen: with calloc not failing, whenever   *)
(* the queue is empty, g_winnode_list shows every mapped window as it is   *)
(* and the application is resumed if one of them can be seen, for any      *)
(* number of windows, any length of the queue, any number of cancelled     *)
(* launches and any number of main loops in the process.  In the first of  *)
(* these loops the list is exact, and the application paused if nothing    *)
(* can be seen; later ones may find in the list what the last left there.  *)
(***************************************************************************)
EXTENDS XDisplayProofs, WellFoundedInduction

EventSet == [type : {"show", "hide", "visibility"}, win : Windows, obscured : BOOLEAN]

NodeStates == {"absent", "visible", "obscured"}

(***************************************************************************)
(* What handling e makes of the node n of window w.                        *)
(***************************************************************************)
After(w, n, e) ==
    IF e.win # w THEN n
    ELSE IF e.type = "hide" THEN "absent"
    ELSE IF e.type = "show" THEN IF w \in Top THEN "visible" ELSE n
    ELSE IF n = "absent" THEN n
    ELSE IF e.obscured THEN "obscured" ELSE "visible"

(***************************************************************************)
(* The events of q, handled one after the other, turn the node n of w into *)
(* m; s[k] is the node after the first k of them.                          *)
(***************************************************************************)
Leads(q, w, n, m) ==
    \E s \in [0..Len(q) -> NodeStates] :
        /\ s[0] = n /\ s[Len(q)] = m
        /\ \A k \in 1..Len(q) : s[k] = After(w, s[k - 1], q[k])

Shown(w) == IF w \in Top THEN NodeOf(xwin[w]) ELSE "absent"

(***************************************************************************)
(* What is still in the queue makes every node what the screen shows; only *)
(* the node of an unmapped window may be one that an earlier loop left.    *)
(***************************************************************************)
Exact(w) == mains = 0 \/ w \notin Top \/ xwin[w] # "unmapped"

ListCatchesUp ==
    \A w \in Windows :
        /\ \E m \in NodeStates : Leads(xq, w, winnode[w], m) /\ (Exact(w) => m = Shown(w))
        /\ w \notin Top => winnode[w] = "absent"

(***************************************************************************)
(* A window that is in the list or about to get there is on the screen, or *)
(* its hide event comes after.                                             *)
(***************************************************************************)
Hidden(w, i) == \E j \in DOMAIN xq : j > i /\ xq[j].type = "hide" /\ xq[j].win = w

GhostsGo == mains = 0 =>
    \A w \in Windows :
        /\ winnode[w] # "absent" => xwin[w] # "unmapped" \/ Hidden(w, 0)
        /\ \A i \in DOMAIN xq : xq[i].type = "show" /\ xq[i].win = w =>
                                    xwin[w] # "unmapped" \/ Hidden(w, i)

(***************************************************************************)
(* b_active is what __check_visible says of the list, or a visibility      *)
(* event will make it so: every show event has one behind it.  In a later  *)
(* loop this holds of the windows that can be seen.                        *)
(***************************************************************************)
Checked(i) == \E j \in DOMAIN xq : j > i /\ xq[j].type = "visibility"

ShowsChecked == \A i \in DOMAIN xq : xq[i].type = "show" => Checked(i)

ActiveCatchesUp ==
    /\ ShowsChecked
    /\ \/ Checked(0)
       \/ /\ TopVisible => b_active
          /\ mains = 0 => /\ CheckVisible(winnode) => b_active
                          /\ b_active /\ appeared => CheckVisible(winnode)
-----------------------------------------------------------------------------
LEMMA AppendOne ==
    ASSUME NEW S, NEW q \in Seq(S), NEW a \in S
    PROVE  /\ q \o <<a>> \in Seq(S)
           /\ Len(q) \in Nat /\ DOMAIN q = 1..Len(q)
           /\ Len(q \o <<a>>) = Len(q) + 1 /\ DOMAIN (q \o <<a>>) = 1..(Len(q) + 1)
           /\ \A i \in 1..Len(q) : (q \o <<a>>)[i] = q[i]
           /\ (q \o <<a>>)[Len(q) + 1] = a
<1>1. <<a>> \in Seq(S) /\ Len(<<a>>) = 1
      BY ShortSeqs
<1>2. Len(q) \in Nat /\ DOMAIN q = 1..Len(q)
      BY LenProperties
<1>3. q \o <<a>> \in Seq(S) /\ Len(q \o <<a>>) = Len(q) + 1
      BY <1>1, ConcatProperties
<1>4. DOMAIN (q \o <<a>>) = 1..(Len(q) + 1)
      BY <1>3, LenProperties
<1>5. \A i \in 1..Len(q) : (q \o <<a>>)[i] = q[i]
      BY <1>1, <1>2, ConcatProperties
<1>6. (q \o <<a>>)[Len(q) + 1] = a
      BY <1>1, <1>2, ConcatProperties
<1> QED BY <1>2, <1>3, <1>4, <1>5, <1>6

LEMMA AppendTwo ==
    ASSUME NEW S, NEW q \in Seq(S), NEW a \in S, NEW b \in S
    PROVE  q \o <<a, b>> = (q \o <<a>>) \o <<b>>
<1>1. /\ <<a>> \in Seq(S) /\ <<b>> \in Seq(S) /\ <<a, b>> \in Seq(S)
      /\ Len(<<a>>) = 1 /\ Len(<<b>>) = 1 /\ Len(<<a, b>>) = 2
      BY ShortSeqs
<1>2. <<a>> \o <<b>> \in Seq(S) /\ Len(<<a>> \o <<b>>) = 2
      BY <1>1, ConcatProperties
<1>3. (<<a>> \o <<b>>)[1] = a /\ (<<a>> \o <<b>>)[2] = b
      BY <1>1, ConcatProperties
<1>4. \A i \in 1..2 : <<a, b>>[i] = (<<a>> \o <<b>>)[i]
      BY <1>3
<1>5. <<a, b>> = <<a>> \o <<b>>
      BY <1>1, <1>2, <1>4, SeqEqual
<1> QED BY <1>1, <1>5, ConcatAssociative

LEMMA HeadTail ==
    ASSUME NEW S, NEW q \in Seq(S), q # <<>>
    PROVE  /\ Head(q) = q[1] /\ Head(q) \in S /\ Tail(q) \in Seq(S)
           /\ Len(q) \in Nat /\ Len(q) >= 1 /\ DOMAIN q = 1..Len(q)
           /\ Len(Tail(q)) = Len(q) - 1 /\ DOMAIN Tail(q) = 1..(Len(q) - 1)
           /\ \A i \in 1..(Len(q) - 1) : Tail(q)[i] = q[i + 1]
<1>1. Len(q) \in Nat /\ DOMAIN q = 1..Len(q)
      BY LenProperties
<1>2. Len(q) >= 1
      BY <1>1, EmptySeq
<1>3. Head(q) = q[1] /\ Head(q) \in S /\ Tail(q) \in Seq(S) /\ Len(Tail(q)) = Len(q) - 1
      BY HeadTailProperties
<1>4. DOMAIN Tail(q) = 1..(Len(q) - 1)
      BY <1>3, LenProperties
<1>5. \A i \in 1..(Len(q) - 1) : Tail(q)[i] = q[i + 1]
      BY <1>3, HeadTailProperties
<1> QED BY <1>1, <1>2, <1>3, <1>4, <1>5

(***************************************************************************)
(* Induction over the natural numbers, stated of a set: the library states *)
(* it of an operator.                                                      *)
(***************************************************************************)
LEMMA SetInduction ==
    ASSUME NEW S \in SUBSET Nat, 0 \in S, \A n \in S : n + 1 \in S
    PROVE  S = Nat
<1> DEFINE R == OpToRel(<, Nat)
           T == Nat \ S
<1>1. IsWellFoundedOn(R, Nat)
      BY NatLessThanWellFounded
<1>2. \A x, y \in Nat : <<y, x>> \in R <=> y < x
      BY DEF OpToRel
<1> SUFFICES ASSUME T # {} PROVE FALSE
    OBVIOUS
<1>3. T \in SUBSET Nat
      OBVIOUS
<1> HIDE DEF R, T
<1>4. PICK x \in T : \A y \in T : ~ (<<y, x>> \in R)
      BY <1>1, <1>3, WFMin
<1>5. x \in Nat /\ x \notin S /\ \A y \in T : ~(y < x)
      BY <1>2, <1>3, <1>4 DEF T
<1>6. x - 1 \in Nat /\ x - 1 < x /\ (x - 1) + 1 = x
      BY <1>5
<1>7. x - 1 \in S
      BY <1>5, <1>6 DEF T
<1> QED BY <1>5, <1>6, <1>7

LEMMA AfterTyped ==
    ASSUME NEW w, NEW n \in NodeStates, NEW e
    PROVE  After(w, n, e) \in NodeStates
BY DEF After, NodeStates

LEMMA LeadsEmpty ==
    ASSUME NEW w, NEW n \in NodeStates
    PROVE  Leads(<<>>, w, n, n)
<1> DEFINE s == [k \in 0..0 |-> n]
<1>1. s \in [0..Len(<<>>) -> NodeStates] /\ s[0] = n /\ s[Len(<<>>)] = n
      OBVIOUS
<1>2. \A k \in 1..Len(<<>>) : FALSE
      OBVIOUS
<1> HIDE DEF s
<1> QED BY <1>1, <1>2 DEF Leads

LEMMA LeadsNowhere ==
    ASSUME NEW w, NEW n, NEW m, Leads(<<>>, w, n, m)
    PROVE  n = m
BY DEF Leads

(***************************************************************************)
(* One more event at the end, or one less at the beginning.                *)
(***************************************************************************)
LEMMA LeadsOn ==
    ASSUME NEW q \in Seq(EventSet), NEW e \in EventSet, NEW w, NEW n,
           NEW m \in NodeStates, Leads(q, w, n, m)
    PROVE  Leads(q \o <<e>>, w, n, After(w, m, e))
<1> DEFINE r == q \o <<e>>
           l == Len(q)
<1>1. /\ l \in Nat /\ Len(r) = l + 1
      /\ \A i \in 1..l : r[i] = q[i]
      /\ r[l + 1] = e
      BY AppendOne
<1>2. PICK s \in [0..l -> NodeStates] :
         /\ s[0] = n /\ s[l] = m
         /\ \A k \in 1..l : s[k] = After(w, s[k - 1], q[k])
      BY DEF Leads
<1> DEFINE t == [k \in 0..(l + 1) |-> IF k = l + 1 THEN After(w, m, e) ELSE s[k]]
<1> HIDE DEF r, l
<1>3. t \in [0..(l + 1) -> NodeStates]
  <2>1. ASSUME NEW k \in 0..(l + 1), k # l + 1 PROVE s[k] \in NodeStates
        BY <1>1, <1>2, <2>1
  <2> QED BY <2>1, AfterTyped
<1>4. t[0] = n /\ t[l + 1] = After(w, m, e)
      BY <1>1, <1>2
<1>5. ASSUME NEW k \in 1..(l + 1) PROVE t[k] = After(w, t[k - 1], r[k])
  <2>1. CASE k = l + 1
    <3>1. t[k - 1] = m /\ r[k] = e /\ t[k] = After(w, m, e)
          BY <1>1, <1>2, <2>1
    <3> QED BY <3>1
  <2>2. CASE k # l + 1
    <3>1. k \in 1..l /\ t[k] = s[k] /\ t[k - 1] = s[k - 1]
          BY <1>1, <2>2
    <3>2. r[k] = q[k] /\ s[k] = After(w, s[k - 1], q[k])
          BY <1>1, <1>2, <3>1
    <3> QED BY <3>1, <3>2
  <2> QED BY <2>1, <2>2
<1> HIDE DEF t
<1>6. Leads(r, w, n, After(w, m, e))
      BY <1>1, <1>3, <1>4, <1>5 DEF Leads
<1> QED BY <1>6 DEF r

LEMMA LeadsFrom ==
    ASSUME NEW q \in Seq(EventSet), q # <<>>, NEW w, NEW n, NEW m, Leads(q, w, n, m)
    PROVE  Leads(Tail(q), w, After(w, n, Head(q)), m)
<1> DEFINE r == Tail(q)
           l == Len(q)
<1>1. /\ l \in Nat /\ l >= 1 /\ Len(r) = l - 1
      /\ \A i \in 1..(l - 1) : r[i] = q[i + 1]
      /\ Head(q) = q[1]
      BY HeadTail
<1>2. PICK s \in [0..l -> NodeStates] :
         /\ s[0] = n /\ s[l] = m
         /\ \A k \in 1..l : s[k] = After(w, s[k - 1], q[k])
      BY DEF Leads
<1> DEFINE t == [k \in 0..(l - 1) |-> s[k + 1]]
<1> HIDE DEF r, l
<1>3. t \in [0..(l - 1) -> NodeStates]
      BY <1>1, <1>2
<1>4. t[0] = After(w, n, Head(q)) /\ t[l - 1] = m
  <2>1. t[0] = s[1] /\ 1 \in 1..l /\ 1 - 1 = 0
        BY <1>1
  <2>2. s[1] = After(w, s[1 - 1], q[1])
        BY <1>2, <2>1
  <2>3. t[l - 1] = s[l]
        BY <1>1
  <2> QED BY <1>1, <1>2, <2>1, <2>2, <2>3
<1>5. ASSUME NEW k \in 1..(l - 1) PROVE t[k] = After(w, t[k - 1], r[k])
  <2>1. k + 1 \in 1..l /\ t[k] = s[k + 1] /\ t[k - 1] = s[k] /\ (k + 1) - 1 = k
        BY <1>1
  <2>2. s[k + 1] = After(w, s[(k + 1) - 1], q[k + 1])
        BY <1>2, <2>1
  <2> QED BY <1>1, <2>1, <2>2
<1> HIDE DEF t
<1>6. Leads(r, w, After(w, n, Head(q)), m)
      BY <1>1, <1>3, <1>4, <1>5 DEF Leads
<1> QED BY <1>6 DEF r

(***************************************************************************)
(* Hide events alone make no node: a node that is there in the end was the *)
(* same all along.                                                         *)
(***************************************************************************)
LEMMA LeadsQuietly ==
    ASSUME NEW q \in Seq(EventSet), NEW w, NEW n, NEW m, Leads(q, w, n, m), m # "absent",
           \A i \in DOMAIN q : q[i].type = "hide"
    PROVE  n = m
<1> DEFINE l == Len(q)
<1>1. l \in Nat /\ DOMAIN q = 1..l
      BY LenProperties
<1>2. PICK s \in [0..l -> NodeStates] :
         /\ s[0] = n /\ s[l] = m
         /\ \A k \in 1..l : s[k] = After(w, s[k - 1], q[k])
      BY DEF Leads
<1> HIDE DEF l
<1> DEFINE S == {k \in Nat : k <= l => s[k] \in {n, "absent"}}
<1>3. 0 \in S
      BY <1>2
<1>4. ASSUME NEW k \in S PROVE k + 1 \in S
  <2> SUFFICES ASSUME k + 1 <= l PROVE s[k + 1] \in {n, "absent"}
      OBVIOUS
  <2>1. k \in Nat /\ k <= l /\ k + 1 \in 1..l /\ (k + 1) - 1 = k
        BY <1>1
  <2>2. s[k] \in {n, "absent"}
        BY <2>1
  <2>3. s[k + 1] = After(w, s[k], q[k + 1]) /\ q[k + 1].type = "hide"
        BY <1>1, <1>2, <2>1
  <2> QED BY <2>2, <2>3 DEF After
<1>5. S \in SUBSET Nat
      OBVIOUS
<1> HIDE DEF S
<1>6. S = Nat
      BY <1>3, <1>4, <1>5, SetInduction
<1>7. l \in S
      BY <1>1, <1>6
<1> QED BY <1>1, <1>2, <1>7 DEF S
-----------------------------------------------------------------------------
(***************************************************************************)
(* Everything but the server and the window handlers leaves the screen,    *)
(* the queue and the list alone, and the end of a main loop the list.      *)
(***************************************************************************)
Quiet == UNCHANGED <<winnode, b_active, xwin, xq, appeared, mains>>

LEMMA OtherSteps ==
    ASSUME XTypeOK, [XNext]_allVars
    PROVE  Server \/ DispatchX \/ EndMain \/ Quiet
<1>1. CASE StartMain \/ FailedStart
      BY <1>1 DEF StartMain, FailedStart, BeforeLoop, BeforeLoopFails, ElmInit, winVars, Quiet
<1>3. CASE OtherStep
  <2>1. UNCHANGED winVars
        BY <1>3 DEF OtherStep, CreateReturns, LeaveLoop, Dispatch, FirstStart, Relaunch,
           AulStart, AulTerminate, VconfChanged, TimerFires, AppEvent, SetCallback
  <2> QED BY <1>3, <2>1 DEF OtherStep, xVars, winVars, Quiet
<1>4. CASE UNCHANGED allVars
      BY <1>4 DEF allVars, vars, xVars, winVars, Quiet
<1> QED BY <1>1, <1>3, <1>4 DEF XNext

LEMMA LoopEnds ==
    ASSUME XTypeOK, EndMain
    PROVE  /\ UNCHANGED <<winnode, b_active>>
           /\ mains' # 0
           /\ \/ xwin' = NoWindows /\ xq' = <<>>
              \/ UNCHANGED <<xwin, xq>>
<1>1. mains \in Nat /\ mains' = mains + 1
      BY DisplayAssumption DEF EndMain, XTypeOK
<1>2. UNCHANGED <<winnode, b_active>>
      BY DEF EndMain, TerminateReturns, winVars
<1>3. (xwin' = NoWindows /\ xq' = <<>>) \/ UNCHANGED <<xwin, xq>>
      BY DEF EndMain
<1> QED BY <1>1, <1>2, <1>3

(***************************************************************************)
(* The handlers do to each node what After says.                           *)
(***************************************************************************)
LEMMA Handled ==
    ASSUME ~AllocMayFail, TypeOK, XTypeOK, DispatchX, NEW w \in Windows
    PROVE  winnode'[w] = After(w, winnode[w], Head(xq))
<1> DEFINE e == Head(xq)
<1>1. winnode \in [Windows -> NodeStates]
      BY DEF TypeOK, NodeStates
<1>2. e \in EventSet
      BY HeadTail DEF XTypeOK, DispatchX, EventSet
<1>3. e.win \in Windows /\ e.type \in {"show", "hide", "visibility"}
      BY <1>2 DEF EventSet
<1>4. Handle(e)
      BY DEF DispatchX
<1> SUFFICES winnode'[w] = After(w, winnode[w], e)
    OBVIOUS
<1> HIDE DEF e
<1>5. CASE e.type = "show" /\ e.win \in Top /\ ShowCb(e.win)
      BY <1>1, <1>3, <1>5 DEF ShowCb, StoreNode, After
<1>6. CASE e.type = "hide" /\ HideCb(e.win)
      BY <1>1, <1>3, <1>6 DEF HideCb, After
<1>7. CASE e.type = "visibility" /\ VisibilityCb(e.win, e.obscured)
      BY <1>1, <1>3, <1>7 DEF VisibilityCb, StoreNode, ExistWin, After
<1>8. CASE Ignored(e) /\ UNCHANGED vars
  <2>1. winnode' = winnode
        BY <1>8 DEF vars, winVars
  <2> QED BY <1>1, <1>3, <1>8, <2>1 DEF Ignored, ExistWin, After
<1> QED BY <1>4, <1>5, <1>6, <1>7, <1>8 DEF Handle

LEMMA ListStep ==
    ASSUME ~AllocMayFail, TypeOK, XTypeOK, ListCatchesUp, [XNext]_allVars
    PROVE  ListCatchesUp'
<1> DEFINE Catches(v) ==
        /\ \E m \in NodeStates : Leads(xq', v, winnode'[v], m) /\ (Exact(v)' => m = Shown(v)')
        /\ v \notin Top => winnode'[v] = "absent"
<1> SUFFICES ASSUME NEW v \in Windows PROVE Catches(v)
    BY DEF ListCatchesUp
<1>1. /\ xq \in Seq(EventSet) /\ mains \in Nat
      /\ xwin \in [Windows -> {"unmapped", "visible", "obscured"}]
      BY DisplayAssumption DEF XTypeOK, EventSet
<1>2. PICK n \in NodeStates : Leads(xq, v, winnode[v], n) /\ (Exact(v) => n = Shown(v))
      BY DEF ListCatchesUp
<1>3. v \notin Top => winnode[v] = "absent"
      BY DEF ListCatchesUp
<1>4. ASSUME NEW w \in Windows, NEW o \in BOOLEAN, MapWindow(w, o) PROVE Catches(v)
  <2> DEFINE a == Event("show", w, FALSE)
             b == Event("visibility", w, o)
             k == After(v, n, a)
             l == After(v, k, b)
  <2>1. /\ a \in EventSet /\ a.type = "show" /\ a.win = w
        BY DEF Event, EventSet
  <2>0. /\ b \in EventSet /\ b.type = "visibility" /\ b.win = w /\ b.obscured = o
        BY DEF Event, EventSet
  <2>2. mains' = mains /\ winnode' = winnode
        BY <1>4 DEF MapWindow, vars, winVars
  <2>3. Exact(v)' => l = Shown(v)'
    <3>1. CASE v = w
          BY <1>1, <1>2, <1>4, <2>0, <2>1, <2>2, <3>1
             DEF MapWindow, Shown, NodeOf, After, Exact, NodeStates
    <3>2. CASE v # w
      <4>1. l = n
            BY <2>0, <2>1, <3>2 DEF After
      <4>2. xwin'[v] = xwin[v]
            BY <1>1, <1>4, <3>2 DEF MapWindow
      <4> QED BY <1>2, <2>2, <4>1, <4>2 DEF Shown, Exact
    <3> QED BY <3>1, <3>2
  <2>4. k \in NodeStates /\ l \in NodeStates
        BY <1>2, AfterTyped
  <2>5. xq' = xq \o <<a, b>>
        BY <1>4 DEF MapWindow, Send
  <2> HIDE DEF a, b
  <2>6. xq' = (xq \o <<a>>) \o <<b>> /\ xq \o <<a>> \in Seq(EventSet)
        BY <1>1, <2>0, <2>1, <2>5, AppendOne, AppendTwo
  <2>7. Leads(xq \o <<a>>, v, winnode[v], k)
        BY <1>1, <1>2, <2>1, LeadsOn
  <2> HIDE DEF k
  <2>8. Leads((xq \o <<a>>) \o <<b>>, v, winnode[v], l)
        BY <2>0, <2>4, <2>6, <2>7, LeadsOn
  <2> QED BY <1>3, <2>2, <2>3, <2>4, <2>6, <2>8
<1>5. ASSUME NEW w \in Windows, UnmapWindow(w) PROVE Catches(v)
  <2> DEFINE a == Event("hide", w, FALSE)
             l == After(v, n, a)
  <2>1. a \in EventSet /\ a.type = "hide" /\ a.win = w
        BY DEF Event, EventSet
  <2>2. mains' = mains /\ winnode' = winnode /\ xq' = xq \o <<a>>
        BY <1>5 DEF UnmapWindow, Send, vars, winVars
  <2>3. Exact(v)' => l = Shown(v)'
    <3>1. CASE v = w
          BY <1>1, <1>5, <2>1, <3>1 DEF UnmapWindow, Shown, NodeOf, After
    <3>2. CASE v # w
      <4>1. l = n
            BY <2>1, <3>2 DEF After
      <4>2. xwin'[v] = xwin[v]
            BY <1>1, <1>5, <3>2 DEF UnmapWindow
      <4> QED BY <1>2, <2>2, <4>1, <4>2 DEF Shown, Exact
    <3> QED BY <3>1, <3>2
  <2>4. l \in NodeStates
        BY <1>2, AfterTyped
  <2> HIDE DEF a
  <2>5. Leads(xq \o <<a>>, v, winnode[v], l)
        BY <1>1, <1>2, <2>1, LeadsOn
  <2> QED BY <1>3, <2>2, <2>3, <2>4, <2>5
<1>6. ASSUME NEW w \in Windows, ChangeVisibility(w) PROVE Catches(v)
  <2> DEFINE a == Event("visibility", w, xwin[w] = "visible")
             l == After(v, n, a)
  <2>1. /\ a \in EventSet /\ a.type = "visibility" /\ a.win = w
        /\ a.obscured = (xwin[w] = "visible")
        BY DEF Event, EventSet
  <2>2. mains' = mains /\ winnode' = winnode /\ xq' = xq \o <<a>>
        BY <1>6 DEF ChangeVisibility, Send, vars, winVars
  <2>3. Exact(v)' => l = Shown(v)'
    <3>1. CASE v = w
      <4>1. n = Shown(v)
            BY <1>2, <1>6, <3>1 DEF ChangeVisibility, Exact
      <4> QED BY <1>1, <1>6, <2>1, <3>1, <4>1 DEF ChangeVisibility, Shown, NodeOf, After
    <3>2. CASE v # w
      <4>1. l = n
            BY <2>1, <3>2 DEF After
      <4>2. xwin'[v] = xwin[v]
            BY <1>1, <1>6, <3>2 DEF ChangeVisibility
      <4> QED BY <1>2, <2>2, <4>1, <4>2 DEF Shown, Exact
    <3> QED BY <3>1, <3>2
  <2>4. l \in NodeStates
        BY <1>2, AfterTyped
  <2> HIDE DEF a
  <2>5. Leads(xq \o <<a>>, v, winnode[v], l)
        BY <1>1, <1>2, <2>1, LeadsOn
  <2> QED BY <1>3, <2>2, <2>3, <2>4, <2>5
<1>7. CASE DispatchX
  <2>1. mains' = mains /\ xwin' = xwin /\ xq # <<>> /\ xq' = Tail(xq)
        BY <1>7 DEF DispatchX
  <2>2. Leads(Tail(xq), v, After(v, winnode[v], Head(xq)), n)
        BY <1>1, <1>2, <2>1, LeadsFrom
  <2>3. Shown(v)' = Shown(v) /\ Exact(v)' = Exact(v)
        BY <2>1 DEF Shown, Exact
  <2>4. winnode'[v] = After(v, winnode[v], Head(xq))
        BY <1>7, Handled
  <2>5. v \notin Top => winnode'[v] = "absent"
        BY <1>3, <2>4 DEF After
  <2> QED BY <1>2, <2>1, <2>2, <2>3, <2>4, <2>5
<1>8. CASE EndMain
  <2>1. CASE xwin' = NoWindows /\ xq' = <<>>
    <3>1. winnode' = winnode /\ winnode[v] \in NodeStates /\ mains' # 0
          BY <1>8, LoopEnds DEF TypeOK, NodeStates
    <3>2. Leads(<<>>, v, winnode[v], winnode[v])
          BY <3>1, LeadsEmpty
    <3>3. Exact(v)' => winnode[v] = Shown(v)'
          BY <1>3, <2>1, <3>1 DEF Exact, NoWindows, Shown
    <3> QED BY <1>3, <2>1, <3>1, <3>2, <3>3
  <2>2. CASE UNCHANGED <<xwin, xq>>
    <3>1. winnode' = winnode /\ mains' # 0 /\ Shown(v)' = Shown(v)
          BY <1>8, <2>2, LoopEnds DEF Shown
    <3>2. Exact(v)' => Exact(v)
          BY <2>2, <3>1 DEF Exact
    <3> QED BY <1>2, <1>3, <2>2, <3>1, <3>2
  <2> QED BY <1>8, <2>1, <2>2, LoopEnds
<1>9. CASE Quiet
  <2>1. mains' = mains /\ winnode' = winnode /\ xwin' = xwin /\ xq' = xq
        BY <1>9 DEF Quiet
  <2>2. Shown(v)' = Shown(v) /\ Exact(v)' = Exact(v)
        BY <2>1 DEF Shown, Exact
  <2> QED BY <1>2, <1>3, <2>1, <2>2
<1> HIDE DEF Catches
<1> QED BY <1>4, <1>5, <1>6, <1>7, <1>8, <1>9, OtherSteps DEF Server
-----------------------------------------------------------------------------
(***************************************************************************)
(* What the server sends is at the end of the queue.                       *)
(***************************************************************************)
LEMMA Sent ==
    ASSUME XTypeOK, Server
    PROVE  /\ UNCHANGED <<winnode, b_active, mains>>
           /\ Len(xq) \in Nat /\ DOMAIN xq = 1..Len(xq)
           /\ \A i \in DOMAIN xq : i \in DOMAIN xq' /\ xq'[i] = xq[i]
           /\ \/ \E w \in Windows : /\ xwin' = [xwin EXCEPT ![w] = "unmapped"]
                                    /\ DOMAIN xq' = 1..(Len(xq) + 1)
                                    /\ xq'[Len(xq) + 1].type = "hide"
                                    /\ xq'[Len(xq) + 1].win = w
                                    /\ appeared' = appeared
              \/ \E w \in Windows : /\ xwin'[w] # "unmapped"
                                    /\ \A v \in Windows \ {w} : xwin'[v] = xwin[v]
                                    /\ DOMAIN xq' = 1..(Len(xq) + 1)
                                    /\ xq'[Len(xq) + 1].type = "visibility"
                                    /\ appeared' = appeared
              \/ \E w \in Windows : /\ xwin'[w] # "unmapped"
                                    /\ \A v \in Windows \ {w} : xwin'[v] = xwin[v]
                                    /\ DOMAIN xq' = 1..(Len(xq) + 2)
                                    /\ xq'[Len(xq) + 1].type = "show"
                                    /\ xq'[Len(xq) + 1].win = w
                                    /\ xq'[Len(xq) + 2].type = "visibility"
<1>1. /\ xq \in Seq(EventSet)
      /\ xwin \in [Windows -> {"unmapped", "visible", "obscured"}]
      BY DEF XTypeOK, EventSet
<1>2. Len(xq) \in Nat /\ DOMAIN xq = 1..Len(xq)
      BY <1>1, LenProperties
<1>3. UNCHANGED <<winnode, b_active, mains>>
      BY DEF Server, MapWindow, UnmapWindow, ChangeVisibility, vars, winVars
<1>4. ASSUME NEW w \in Windows, UnmapWindow(w)
      PROVE  /\ \A i \in DOMAIN xq : i \in DOMAIN xq' /\ xq'[i] = xq[i]
             /\ xwin' = [xwin EXCEPT ![w] = "unmapped"]
             /\ DOMAIN xq' = 1..(Len(xq) + 1)
             /\ xq'[Len(xq) + 1].type = "hide"
             /\ xq'[Len(xq) + 1].win = w
             /\ appeared' = appeared
  <2> DEFINE a == Event("hide", w, FALSE)
  <2>1. a \in EventSet /\ a.type = "hide" /\ a.win = w
        BY DEF Event, EventSet
  <2>2. xq' = xq \o <<a>>
        BY <1>4 DEF UnmapWindow, Send
  <2> HIDE DEF a
  <2>3. /\ DOMAIN xq' = 1..(Len(xq) + 1)
        /\ \A i \in 1..Len(xq) : xq'[i] = xq[i]
        /\ xq'[Len(xq) + 1] = a
        BY <1>1, <2>1, <2>2, AppendOne
  <2> QED BY <1>2, <1>4, <2>1, <2>3 DEF UnmapWindow
<1>5. ASSUME NEW w \in Windows, ChangeVisibility(w)
      PROVE  /\ \A i \in DOMAIN xq : i \in DOMAIN xq' /\ xq'[i] = xq[i]
             /\ xwin'[w] # "unmapped"
             /\ \A v \in Windows \ {w} : xwin'[v] = xwin[v]
             /\ DOMAIN xq' = 1..(Len(xq) + 1)
             /\ xq'[Len(xq) + 1].type = "visibility"
             /\ appeared' = appeared
  <2> DEFINE a == Event("visibility", w, xwin[w] = "visible")
  <2>1. a \in EventSet /\ a.type = "visibility"
        BY DEF Event, EventSet
  <2>2. xq' = xq \o <<a>>
        BY <1>5 DEF ChangeVisibility, Send
  <2> HIDE DEF a
  <2>3. /\ DOMAIN xq' = 1..(Len(xq) + 1)
        /\ \A i \in 1..Len(xq) : xq'[i] = xq[i]
        /\ xq'[Len(xq) + 1] = a
        BY <1>1, <2>1, <2>2, AppendOne
  <2>4. xwin'[w] # "unmapped" /\ \A v \in Windows \ {w} : xwin'[v] = xwin[v]
        BY <1>1, <1>5 DEF ChangeVisibility
  <2> QED BY <1>2, <1>5, <2>1, <2>3, <2>4 DEF ChangeVisibility
<1>6. ASSUME NEW w \in Windows, NEW o \in BOOLEAN, MapWindow(w, o)
      PROVE  /\ \A i \in DOMAIN xq : i \in DOMAIN xq' /\ xq'[i] = xq[i]
             /\ xwin'[w] # "unmapped"
             /\ \A v \in Windows \ {w} : xwin'[v] = xwin[v]
             /\ DOMAIN xq' = 1..(Len(xq) + 2)
             /\ xq'[Len(xq) + 1].type = "show"
             /\ xq'[Len(xq) + 1].win = w
             /\ xq'[Len(xq) + 2].type = "visibility"
  <2> DEFINE a == Event("show", w, FALSE)
             b == Event("visibility", w, o)
             r == xq \o <<a>>
  <2>1. a \in EventSet /\ a.type = "show" /\ a.win = w
        BY DEF Event, EventSet
  <2>2. b \in EventSet /\ b.type = "visibility"
        BY DEF Event, EventSet
  <2>3. xq' = xq \o <<a, b>>
        BY <1>6 DEF MapWindow, Send
  <2> HIDE DEF a, b
  <2>4. /\ r \in Seq(EventSet) /\ Len(r) = Len(xq) + 1
        /\ \A i \in 1..Len(xq) : r[i] = xq[i]
        /\ r[Len(xq) + 1] = a
        BY <1>1, <2>1, AppendOne
  <2>5. xq' = r \o <<b>>
        BY <1>1, <2>1, <2>2, <2>3, AppendTwo
  <2> HIDE DEF r
  <2>6. /\ DOMAIN xq' = 1..(Len(r) + 1)
        /\ \A i \in 1..Len(r) : xq'[i] = r[i]
        /\ xq'[Len(r) + 1] = b
        BY <2>2, <2>4, <2>5, AppendOne
  <2>7. /\ DOMAIN xq' = 1..(Len(xq) + 2)
        /\ \A i \in 1..Len(xq) : xq'[i] = xq[i]
        /\ xq'[Len(xq) + 1] = a /\ xq'[Len(xq) + 2] = b
        BY <1>2, <2>4, <2>6
  <2>8. xwin'[w] # "unmapped" /\ \A v \in Windows \ {w} : xwin'[v] = xwin[v]
        BY <1>1, <1>6 DEF MapWindow
  <2> QED BY <1>2, <2>1, <2>2, <2>7, <2>8
<1>7. CASE \E w \in Windows : UnmapWindow(w)
      BY <1>2, <1>3, <1>4, <1>7
<1>8. CASE \E w \in Windows : ChangeVisibility(w)
      BY <1>2, <1>3, <1>5, <1>8
<1>9. CASE \E w \in Windows, o \in BOOLEAN : MapWindow(w, o)
      BY <1>2, <1>3, <1>6, <1>9
<1> QED BY <1>7, <1>8, <1>9 DEF Server

(***************************************************************************)
(* What the loop takes is at its beginning.                                *)
(***************************************************************************)
LEMMA Taken ==
    ASSUME XTypeOK, DispatchX
    PROVE  /\ UNCHANGED <<xwin, appeared, mains>>
           /\ xq # <<>> /\ Head(xq) = xq[1] /\ Head(xq) \in EventSet
           /\ Len(xq) \in Nat /\ DOMAIN xq = 1..Len(xq) /\ 1 \in DOMAIN xq
           /\ DOMAIN xq' = 1..(Len(xq) - 1)
           /\ \A i \in 1..(Len(xq) - 1) : i + 1 \in DOMAIN xq /\ xq'[i] = xq[i + 1]
           /\ \A i \in DOMAIN xq : i > 1 => i - 1 \in DOMAIN xq' /\ xq'[i - 1] = xq[i]
<1>1. xq \in Seq(EventSet) /\ xq # <<>> /\ xq' = Tail(xq)
      BY DEF XTypeOK, EventSet, DispatchX
<1>2. /\ Head(xq) = xq[1] /\ Head(xq) \in EventSet
      /\ Len(xq) \in Nat /\ Len(xq) >= 1 /\ DOMAIN xq = 1..Len(xq)
      /\ DOMAIN xq' = 1..(Len(xq) - 1)
      /\ \A i \in 1..(Len(xq) - 1) : xq'[i] = xq[i + 1]
      BY <1>1, HeadTail
<1>3. \A i \in 1..(Len(xq) - 1) : i + 1 \in DOMAIN xq
      BY <1>2
<1>4. \A i \in DOMAIN xq : i > 1 => i - 1 \in 1..(Len(xq) - 1) /\ (i - 1) + 1 = i
      BY <1>2
<1>5. \A i \in DOMAIN xq : i > 1 => i - 1 \in DOMAIN xq' /\ xq'[i - 1] = xq[i]
      BY <1>2, <1>4
<1> QED BY <1>1, <1>2, <1>3, <1>5 DEF DispatchX
-----------------------------------------------------------------------------
(***************************************************************************)
(* Even when calloc fails, a node only comes with a show event and does    *)
(* not survive a hide event.                                               *)
(***************************************************************************)
LEMMA NodeComesAndGoes ==
    ASSUME TypeOK, XTypeOK, DispatchX, NEW w \in Windows, winnode'[w] # "absent"
    PROVE  /\ winnode[w] # "absent" \/ (Head(xq).type = "show" /\ Head(xq).win = w)
           /\ ~(Head(xq).type = "hide" /\ Head(xq).win = w)
<1> DEFINE e == Head(xq)
<1>1. winnode \in [Windows -> NodeStates]
      BY DEF TypeOK, NodeStates
<1>2. e.win \in Windows /\ e.type \in {"show", "hide", "visibility"}
      BY Taken DEF EventSet
<1>3. Handle(e)
      BY DEF DispatchX
<1> SUFFICES /\ winnode[w] # "absent" \/ (e.type = "show" /\ e.win = w)
             /\ ~(e.type = "hide" /\ e.win = w)
    OBVIOUS
<1> HIDE DEF e
<1>4. CASE e.type = "show" /\ e.win \in Top /\ ShowCb(e.win)
      BY <1>1, <1>2, <1>4 DEF ShowCb, StoreNode
<1>5. CASE e.type = "hide" /\ HideCb(e.win)
      BY <1>1, <1>2, <1>5 DEF HideCb
<1>6. CASE e.type = "visibility" /\ VisibilityCb(e.win, e.obscured)
      BY <1>1, <1>2, <1>6 DEF VisibilityCb, StoreNode, ExistWin
<1>7. CASE Ignored(e) /\ UNCHANGED vars
  <2>1. winnode' = winnode
        BY <1>7 DEF vars, winVars
  <2> QED BY <1>7, <2>1 DEF Ignored, ExistWin
<1> QED BY <1>3, <1>4, <1>5, <1>6, <1>7 DEF Handle

LEMMA GhostStep ==
    ASSUME TypeOK, XTypeOK, GhostsGo, [XNext]_allVars
    PROVE  GhostsGo'
<1> SUFFICES ASSUME mains' = 0, NEW w \in Windows
             PROVE  /\ winnode'[w] # "absent" => xwin'[w] # "unmapped" \/ Hidden(w, 0)'
                    /\ \A i \in DOMAIN xq' : xq'[i].type = "show" /\ xq'[i].win = w =>
                                               xwin'[w] # "unmapped" \/ Hidden(w, i)'
    BY DEF GhostsGo
<1>0. mains \in Nat /\ xwin \in [Windows -> {"unmapped", "visible", "obscured"}]
      BY DisplayAssumption DEF XTypeOK
<1>1. ASSUME mains = 0
      PROVE  /\ winnode[w] # "absent" => xwin[w] # "unmapped" \/ Hidden(w, 0)
             /\ \A i \in DOMAIN xq : xq[i].type = "show" /\ xq[i].win = w =>
                                               xwin[w] # "unmapped" \/ Hidden(w, i)
      BY <1>1 DEF GhostsGo
<1>2. CASE Server
  <2>1. mains = 0 /\ winnode' = winnode
        BY <1>2, Sent
  <2>2. \A i \in Int : Hidden(w, i) => Hidden(w, i)'
        BY <1>2, Sent DEF Hidden
  <2>3. CASE \E u \in Windows : /\ xwin' = [xwin EXCEPT ![u] = "unmapped"]
                                /\ DOMAIN xq' = 1..(Len(xq) + 1)
                                /\ xq'[Len(xq) + 1].type = "hide"
                                /\ xq'[Len(xq) + 1].win = u
    <3>1. PICK u \in Windows : /\ xwin' = [xwin EXCEPT ![u] = "unmapped"]
                               /\ DOMAIN xq' = 1..(Len(xq) + 1)
                               /\ xq'[Len(xq) + 1].type = "hide"
                               /\ xq'[Len(xq) + 1].win = u
          BY <2>3
    <3>2. /\ Len(xq) \in Nat /\ DOMAIN xq = 1..Len(xq)
          /\ \A i \in DOMAIN xq : xq'[i] = xq[i]
          BY <1>2, Sent
    <3>3. CASE u = w
      <4>1. \A i \in 0..Len(xq) : Hidden(w, i)'
        <5>1. Len(xq) + 1 \in DOMAIN xq' /\ \A i \in 0..Len(xq) : Len(xq) + 1 > i
              BY <3>1, <3>2
        <5> QED BY <3>1, <3>3, <5>1 DEF Hidden
      <4>2. 0 \in 0..Len(xq)
            BY <3>2
      <4>3. \A i \in DOMAIN xq' : xq'[i].type = "show" => i \in 0..Len(xq)
            BY <3>1, <3>2
      <4> QED BY <4>1, <4>2, <4>3
    <3>4. CASE u # w
      <4>1. xwin'[w] = xwin[w]
            BY <1>0, <3>1, <3>4
      <4>2. \A i \in DOMAIN xq' : xq'[i].win = w => i \in DOMAIN xq /\ xq'[i] = xq[i] /\ i \in Int
            BY <3>1, <3>2, <3>4
      <4> QED BY <1>1, <2>1, <2>2, <4>1, <4>2
    <3> QED BY <3>3, <3>4
  <2>4. CASE \E u \in Windows : /\ xwin'[u] # "unmapped"
                                /\ \A v \in Windows \ {u} : xwin'[v] = xwin[v]
                                /\ DOMAIN xq' = 1..(Len(xq) + 1)
                                /\ xq'[Len(xq) + 1].type = "visibility"
    <3>1. PICK u \in Windows : /\ xwin'[u] # "unmapped"
                               /\ \A v \in Windows \ {u} : xwin'[v] = xwin[v]
                               /\ DOMAIN xq' = 1..(Len(xq) + 1)
                               /\ xq'[Len(xq) + 1].type = "visibility"
          BY <2>4
    <3>2. CASE u = w
          BY <3>1, <3>2
    <3>3. CASE u # w
      <4>1. xwin'[w] = xwin[w]
            BY <3>1, <3>3
      <4>2. \A i \in DOMAIN xq' : xq'[i].type = "show" => i \in DOMAIN xq /\ xq'[i] = xq[i] /\ i \in Int
            BY <1>2, <3>1, Sent
      <4> QED BY <1>1, <2>1, <2>2, <4>1, <4>2
    <3> QED BY <3>2, <3>3
  <2>5. CASE \E u \in Windows : /\ xwin'[u] # "unmapped"
                                /\ \A v \in Windows \ {u} : xwin'[v] = xwin[v]
                                /\ DOMAIN xq' = 1..(Len(xq) + 2)
                                /\ xq'[Len(xq) + 1].type = "show"
                                /\ xq'[Len(xq) + 1].win = u
                                /\ xq'[Len(xq) + 2].type = "visibility"
    <3>1. PICK u \in Windows : /\ xwin'[u] # "unmapped"
                               /\ \A v \in Windows \ {u} : xwin'[v] = xwin[v]
                               /\ DOMAIN xq' = 1..(Len(xq) + 2)
                               /\ xq'[Len(xq) + 1].win = u
                               /\ xq'[Len(xq) + 2].type = "visibility"
          BY <2>5
    <3>2. CASE u = w
          BY <3>1, <3>2
    <3>3. CASE u # w
      <4>1. xwin'[w] = xwin[w]
            BY <3>1, <3>3
      <4>2. \A i \in DOMAIN xq' : xq'[i].type = "show" /\ xq'[i].win = w
                                     => i \in DOMAIN xq /\ xq'[i] = xq[i] /\ i \in Int
            BY <1>2, <3>1, <3>3, Sent
      <4> QED BY <1>1, <2>1, <2>2, <4>1, <4>2
    <3> QED BY <3>2, <3>3
  <2> QED BY <1>2, <2>3, <2>4, <2>5, Sent
<1>3. CASE DispatchX
  <2>1. /\ mains = 0 /\ xwin' = xwin
        /\ Head(xq) = xq[1] /\ 1 \in DOMAIN xq /\ Len(xq) \in Nat /\ DOMAIN xq = 1..Len(xq)
        /\ DOMAIN xq' = 1..(Len(xq) - 1)
        /\ \A i \in 1..(Len(xq) - 1) : i + 1 \in DOMAIN xq /\ xq'[i] = xq[i + 1]
        /\ \A i \in DOMAIN xq : i > 1 => i - 1 \in DOMAIN xq' /\ xq'[i - 1] = xq[i]
        BY <1>3, Taken
  <2>2. ASSUME NEW i \in Int, i >= 1, Hidden(w, i) PROVE Hidden(w, i - 1)'
    <3>1. PICK j \in DOMAIN xq : j > i /\ xq[j].type = "hide" /\ xq[j].win = w
          BY <2>2 DEF Hidden
    <3>2. j \in Int /\ j > 1 /\ j - 1 > i - 1
          BY <2>1, <2>2, <3>1
    <3>3. j - 1 \in DOMAIN xq' /\ xq'[j - 1] = xq[j]
          BY <2>1, <3>2
    <3> QED BY <3>1, <3>2, <3>3 DEF Hidden
  <2>3. ASSUME Hidden(w, 0), ~(Head(xq).type = "hide" /\ Head(xq).win = w) PROVE Hidden(w, 0)'
    <3>1. PICK j \in DOMAIN xq : j > 0 /\ xq[j].type = "hide" /\ xq[j].win = w
          BY <2>3 DEF Hidden
    <3>2. j \in Int /\ j > 1 /\ j - 1 > 0
          BY <2>1, <2>3, <3>1
    <3>3. j - 1 \in DOMAIN xq' /\ xq'[j - 1] = xq[j]
          BY <2>1, <3>2
    <3> QED BY <3>1, <3>2, <3>3 DEF Hidden
  <2>4. ASSUME winnode'[w] # "absent", xwin'[w] = "unmapped" PROVE Hidden(w, 0)'
    <3>1. ~(Head(xq).type = "hide" /\ Head(xq).win = w)
          BY <1>3, <2>4, NodeComesAndGoes
    <3>2. CASE winnode[w] # "absent"
          BY <1>1, <2>1, <2>3, <2>4, <3>1, <3>2
    <3>3. CASE Head(xq).type = "show" /\ Head(xq).win = w
      <4>1. Hidden(w, 1)
            BY <1>1, <2>1, <2>4, <3>3
      <4>2. Hidden(w, 1 - 1)'
            BY <2>2, <4>1
      <4> QED BY <4>2
    <3> QED BY <1>3, <2>4, <3>2, <3>3, NodeComesAndGoes
  <2>5. ASSUME NEW i \in DOMAIN xq', xq'[i].type = "show", xq'[i].win = w, xwin'[w] = "unmapped"
        PROVE  Hidden(w, i)'
    <3>1. i + 1 \in DOMAIN xq /\ xq[i + 1] = xq'[i] /\ i + 1 \in Int /\ i + 1 >= 1 /\ (i + 1) - 1 = i
          BY <2>1
    <3>2. Hidden(w, i + 1)
          BY <1>1, <2>1, <2>5, <3>1
    <3>3. Hidden(w, (i + 1) - 1)'
          BY <2>2, <3>1, <3>2
    <3> QED BY <3>1, <3>3
  <2> QED BY <2>4, <2>5
<1>4. CASE Quiet
  <2>1. mains = 0 /\ winnode' = winnode /\ xwin' = xwin /\ xq' = xq
        BY <1>4 DEF Quiet
  <2>2. \A i : Hidden(w, i)' = Hidden(w, i)
        BY <2>1 DEF Hidden
  <2> QED BY <1>1, <2>1, <2>2
<1> QED BY <1>2, <1>3, <1>4, OtherSteps, LoopEnds
-----------------------------------------------------------------------------
(***************************************************************************)
(* The handlers check the list, a show event apart; a visibility event     *)
(* always makes b_active what the check says.                              *)
(***************************************************************************)
LEMMA HandlerChecks ==
    ASSUME TypeOK, XTypeOK, DispatchX
    PROVE  /\ Head(xq).type = "visibility" => CheckVisible(winnode') = b_active'
           /\ Head(xq).type = "hide" =>
                 /\ CheckVisible(winnode') => CheckVisible(winnode)
                 /\ \/ b_active' = b_active /\ (CheckVisible(winnode') \/ ~b_active)
                    \/ ~b_active' /\ ~CheckVisible(winnode')
                    \/ UNCHANGED <<b_active, winnode>>
<1> DEFINE e == Head(xq)
<1>1. winnode \in [Windows -> NodeStates] /\ b_active \in BOOLEAN
      BY DEF TypeOK, NodeStates
<1>2. e.win \in Windows /\ e.type \in {"show", "hide", "visibility"}
      BY Taken DEF EventSet
<1>3. Handle(e)
      BY DEF DispatchX
<1> SUFFICES /\ e.type = "visibility" => CheckVisible(winnode') = b_active'
             /\ e.type = "hide" =>
                 /\ CheckVisible(winnode') => CheckVisible(winnode)
                 /\ \/ b_active' = b_active /\ (CheckVisible(winnode') \/ ~b_active)
                    \/ ~b_active' /\ ~CheckVisible(winnode')
                    \/ UNCHANGED <<b_active, winnode>>
    OBVIOUS
<1> HIDE DEF e
<1>4. CASE e.type = "show"
      BY <1>4
<1>5. CASE e.type = "hide" /\ HideCb(e.win)
  <2>1. CheckVisible(winnode') => CheckVisible(winnode)
        BY <1>1, <1>5 DEF HideCb, CheckVisible
  <2>2. \/ b_active' = b_active /\ (CheckVisible(winnode') \/ ~b_active)
        \/ ~b_active' /\ ~CheckVisible(winnode')
        BY <1>5 DEF HideCb, Backgrounded
  <2> QED BY <1>5, <2>1, <2>2
<1>6. CASE e.type = "visibility" /\ VisibilityCb(e.win, e.obscured)
  <2>1. CASE Backgrounded
        BY <1>6, <2>1 DEF Backgrounded, CheckVisible
  <2>2. CASE Foregrounded
        BY <1>6, <2>2 DEF Foregrounded, CheckVisible
  <2>3. CASE CheckVisible(winnode') = b_active /\ b_active' = b_active
        BY <1>6, <2>3
  <2> QED BY <1>6, <2>1, <2>2, <2>3 DEF VisibilityCb
<1>7. CASE e.type = "hide" /\ UNCHANGED vars
      BY <1>7 DEF vars, winVars
<1> QED BY <1>2, <1>3, <1>4, <1>5, <1>6, <1>7 DEF Handle, Ignored

(***************************************************************************)
(* A step leaves a visibility event in the queue, or else it is one that   *)
(* put or took none, the last one was handled, or the loop ended.          *)
(***************************************************************************)
LEMMA ChecksKept ==
    ASSUME XTypeOK, ShowsChecked, [XNext]_allVars
    PROVE  /\ ShowsChecked'
           /\ \/ Checked(0)'
              \/ /\ ~Checked(0)
                 /\ UNCHANGED <<winnode, b_active, appeared, mains>>
                 /\ TopVisible' => TopVisible
              \/ /\ DispatchX
                 /\ \/ Head(xq).type = "visibility"
                    \/ Head(xq).type = "hide" /\ ~Checked(0)
              \/ EndMain
<1> DEFINE Kept == \/ Checked(0)'
                   \/ /\ ~Checked(0)
                      /\ UNCHANGED <<winnode, b_active, appeared, mains>>
                      /\ TopVisible' => TopVisible
                   \/ /\ DispatchX
                      /\ \/ Head(xq).type = "visibility"
                         \/ Head(xq).type = "hide" /\ ~Checked(0)
                   \/ EndMain
<1> SUFFICES ShowsChecked' /\ Kept
    OBVIOUS
<1>1. CASE Server
  <2>1. /\ UNCHANGED <<winnode, b_active, mains>>
        /\ Len(xq) \in Nat /\ DOMAIN xq = 1..Len(xq)
        /\ \A i \in DOMAIN xq : i \in DOMAIN xq' /\ xq'[i] = xq[i]
        BY <1>1, Sent
  <2>2. \A i \in Int : Checked(i) => Checked(i)'
        BY <2>1 DEF Checked
  <2>3. CASE \E n \in {1, 2} : /\ DOMAIN xq' = 1..(Len(xq) + n)
                               /\ xq'[Len(xq) + n].type = "visibility"
    <3>1. PICK n \in {1, 2} : /\ DOMAIN xq' = 1..(Len(xq) + n)
                              /\ xq'[Len(xq) + n].type = "visibility"
          BY <2>3
    <3>2. Len(xq) + n \in DOMAIN xq' /\ Len(xq) + n > 0
          BY <2>1, <3>1
    <3>3. Checked(0)'
          BY <3>1, <3>2 DEF Checked
    <3>4. \A i \in DOMAIN xq' : xq'[i].type = "show" => Len(xq) + n > i
          BY <2>1, <3>1
    <3>5. ShowsChecked'
          BY <3>1, <3>2, <3>4 DEF Checked, ShowsChecked
    <3> QED BY <3>3, <3>5
  <2>4. CASE \E w \in Windows : /\ xwin' = [xwin EXCEPT ![w] = "unmapped"]
                                 /\ DOMAIN xq' = 1..(Len(xq) + 1)
                                 /\ xq'[Len(xq) + 1].type = "hide"
                                 /\ appeared' = appeared
    <3>1. \A i \in DOMAIN xq' : xq'[i].type = "show" => i \in DOMAIN xq /\ i \in Int
          BY <2>1, <2>4
    <3>2. ShowsChecked'
          BY <2>1, <2>2, <3>1 DEF ShowsChecked
    <3>3. xwin \in [Windows -> {"unmapped", "visible", "obscured"}]
          BY DEF XTypeOK
    <3>4. TopVisible' => TopVisible
          BY <2>4, <3>3, DisplayAssumption DEF TopVisible
    <3> QED BY <2>1, <2>2, <2>4, <3>2, <3>4
  <2> QED BY <1>1, <2>3, <2>4, Sent
<1>2. CASE DispatchX
  <2>1. /\ Head(xq) = xq[1] /\ 1 \in DOMAIN xq /\ Len(xq) \in Nat /\ DOMAIN xq = 1..Len(xq)
        /\ Head(xq).type \in {"show", "hide", "visibility"}
        /\ DOMAIN xq' = 1..(Len(xq) - 1)
        /\ \A i \in 1..(Len(xq) - 1) : i + 1 \in DOMAIN xq /\ xq'[i] = xq[i + 1]
        /\ \A i \in DOMAIN xq : i > 1 => i - 1 \in DOMAIN xq' /\ xq'[i - 1] = xq[i]
        BY <1>2, Taken DEF EventSet
  <2>2. ASSUME NEW i \in Int, i >= 1, Checked(i) PROVE Checked(i - 1)'
    <3>1. PICK j \in DOMAIN xq : j > i /\ xq[j].type = "visibility"
          BY <2>2 DEF Checked
    <3>2. j \in Int /\ j > 1 /\ j - 1 > i - 1
          BY <2>1, <2>2, <3>1
    <3>3. j - 1 \in DOMAIN xq' /\ xq'[j - 1] = xq[j]
          BY <2>1, <3>2
    <3> QED BY <3>1, <3>2, <3>3 DEF Checked
  <2>3. ASSUME NEW i \in DOMAIN xq', xq'[i].type = "show" PROVE Checked(i)'
    <3>1. i + 1 \in DOMAIN xq /\ xq[i + 1] = xq'[i] /\ i + 1 \in Int /\ i + 1 >= 1 /\ (i + 1) - 1 = i
          BY <2>1
    <3>2. Checked(i + 1)
          BY <2>3, <3>1 DEF ShowsChecked
    <3>3. Checked((i + 1) - 1)'
          BY <2>2, <3>1, <3>2
    <3> QED BY <3>1, <3>3
  <2>4. CASE Head(xq).type = "show"
    <3>1. Checked(1)
          BY <2>1, <2>4 DEF ShowsChecked
    <3>2. Checked(1 - 1)'
          BY <2>2, <3>1
    <3> QED BY <2>3, <3>2 DEF ShowsChecked
  <2>5. CASE Head(xq).type = "visibility"
        BY <1>2, <2>3, <2>5 DEF ShowsChecked
  <2>6. ASSUME Head(xq).type = "hide", Checked(0) PROVE Checked(0)'
    <3>1. PICK j \in DOMAIN xq : j > 0 /\ xq[j].type = "visibility"
          BY <2>6 DEF Checked
    <3>2. j > 1
          BY <2>1, <2>6, <3>1
    <3>3. Checked(1)
          BY <3>1, <3>2 DEF Checked
    <3>4. Checked(1 - 1)'
          BY <2>2, <3>3
    <3> QED BY <3>4
  <2>7. CASE Head(xq).type = "hide"
        BY <1>2, <2>3, <2>6, <2>7 DEF ShowsChecked
  <2> QED BY <2>1, <2>4, <2>5, <2>7
<1>3. CASE EndMain
  <2>1. CASE xq' = <<>>
    <3>1. DOMAIN xq' = {}
          BY <2>1
    <3> QED BY <1>3, <3>1 DEF ShowsChecked
  <2>2. CASE UNCHANGED xq
    <3>1. ShowsChecked'
          BY <2>2 DEF ShowsChecked, Checked
    <3> QED BY <1>3, <3>1
  <2> QED BY <1>3, <2>1, <2>2, LoopEnds
<1>4. CASE Quiet
  <2>1. UNCHANGED <<winnode, b_active, appeared, mains, xq, xwin>>
        BY <1>4 DEF Quiet
  <2>2. ShowsChecked' /\ (Checked(0)' <=> Checked(0)) /\ (TopVisible' <=> TopVisible)
        BY <2>1 DEF ShowsChecked, Checked, TopVisible
  <2> QED BY <2>1, <2>2
<1> QED BY <1>1, <1>2, <1>3, <1>4, OtherSteps

(***************************************************************************)
(* With no visibility event, and therefore no show event, in the queue, a  *)
(* window that can be seen has a node that says so.                        *)
(***************************************************************************)
LEMMA SeenIsListed ==
    ASSUME XTypeOK', ListCatchesUp', ShowsChecked', ~Checked(0)', TopVisible'
    PROVE  CheckVisible(winnode')
<1>1. PICK w \in Top : xwin'[w] = "visible"
      BY DEF TopVisible
<1>2. w \in Windows /\ Exact(w)' /\ Shown(w)' = "visible"
      BY <1>1, DisplayAssumption DEF Exact, Shown, NodeOf
<1>3. Leads(xq', w, winnode'[w], "visible")
      BY <1>2 DEF ListCatchesUp
<1>4. xq' \in Seq(EventSet)
      BY DEF XTypeOK, EventSet
<1>5. ASSUME NEW i \in DOMAIN xq' PROVE xq'[i].type = "hide"
  <2>1. i \in Int /\ i > 0 /\ xq'[i] \in EventSet
        BY <1>4, LenProperties, ElementOfSeq
  <2>2. xq'[i].type # "visibility"
        BY <2>1 DEF Checked
  <2>3. xq'[i].type # "show"
    <3>1. ASSUME xq'[i].type = "show" PROVE FALSE
      <4>1. Checked(i)'
            BY <3>1 DEF ShowsChecked
      <4>2. PICK j \in DOMAIN xq' : j > i /\ xq'[j].type = "visibility"
            BY <4>1 DEF Checked
      <4>3. j > 0
            BY <1>4, <4>2, LenProperties
      <4> QED BY <4>2, <4>3 DEF Checked
    <3> QED BY <3>1
  <2> QED BY <2>1, <2>2, <2>3 DEF EventSet
<1>6. winnode'[w] = "visible"
      BY <1>3, <1>4, <1>5, LeadsQuietly
<1> QED BY <1>2, <1>6 DEF CheckVisible

LEMMA ActiveCatchesUpStep ==
    ASSUME TypeOK, XTypeOK, ActiveCatchesUp, [XNext]_allVars, XTypeOK', ListCatchesUp'
    PROVE  ActiveCatchesUp'
<1> DEFINE Fits == /\ CheckVisible(winnode) => b_active
                   /\ b_active /\ appeared => CheckVisible(winnode)
<1>1. ShowsChecked
      BY DEF ActiveCatchesUp
<1>2. ShowsChecked'
      BY <1>1, ChecksKept
<1> SUFFICES ASSUME ~Checked(0)'
             PROVE  (TopVisible => b_active)' /\ (mains' = 0 => Fits')
    BY <1>2 DEF ActiveCatchesUp
<1>3. ASSUME ~Checked(0) PROVE (TopVisible => b_active) /\ (mains = 0 => Fits)
      BY <1>3 DEF ActiveCatchesUp
<1>4. TopVisible' => CheckVisible(winnode')
      BY <1>2, SeenIsListed
<1>5. CASE /\ ~Checked(0)
           /\ UNCHANGED <<winnode, b_active, appeared, mains>>
           /\ TopVisible' => TopVisible
      BY <1>3, <1>5 DEF CheckVisible
<1>6. CASE DispatchX /\ Head(xq).type = "visibility"
      BY <1>4, <1>6, HandlerChecks DEF CheckVisible
<1>7. CASE DispatchX /\ Head(xq).type = "hide" /\ ~Checked(0)
  <2>1. UNCHANGED <<xwin, appeared, mains>>
        BY <1>7, Taken
  <2>2. TopVisible' <=> TopVisible
        BY <2>1 DEF TopVisible
  <2>3. /\ CheckVisible(winnode') => CheckVisible(winnode)
        /\ \/ b_active' = b_active /\ (CheckVisible(winnode') \/ ~b_active)
           \/ ~b_active' /\ ~CheckVisible(winnode')
           \/ UNCHANGED <<b_active, winnode>>
        BY <1>7, HandlerChecks
  <2>4. CheckVisible(winnode)' <=> CheckVisible(winnode')
        BY DEF CheckVisible
  <2> QED BY <1>3, <1>4, <1>7, <2>1, <2>2, <2>3, <2>4
<1>8. CASE EndMain
  <2>1. mains' # 0 /\ b_active' = b_active
        BY <1>8, LoopEnds
  <2>2. CASE xwin' = NoWindows
    <3>1. ~TopVisible'
          BY <2>2, DisplayAssumption DEF TopVisible, NoWindows
    <3> QED BY <2>1, <3>1
  <2>3. CASE UNCHANGED <<xwin, xq>>
    <3>1. (TopVisible' <=> TopVisible) /\ ~Checked(0)
          BY <2>3 DEF TopVisible, Checked
    <3> QED BY <1>3, <2>1, <3>1
  <2> QED BY <1>8, <2>2, <2>3, LoopEnds
<1> QED BY <1>1, <1>5, <1>6, <1>7, <1>8, ChecksKept
-----------------------------------------------------------------------------
LEMMA CatchUpInit == XInit => ListCatchesUp /\ GhostsGo /\ ActiveCatchesUp
<1> SUFFICES ASSUME XInit PROVE ListCatchesUp /\ GhostsGo /\ ActiveCatchesUp
    OBVIOUS
<1>1. /\ xq = <<>> /\ xwin = NoWindows /\ appeared = FALSE
      /\ winnode = [w \in Windows |-> "absent"]
      BY DEF XInit, Init
<1>2. ListCatchesUp
  <2>1. \A w \in Windows : Shown(w) = "absent" /\ winnode[w] = "absent" /\ "absent" \in NodeStates
        BY <1>1 DEF Shown, NodeOf, NoWindows, NodeStates
  <2>2. \A w \in Windows : Leads(<<>>, w, "absent", "absent")
        BY LeadsEmpty DEF NodeStates
  <2> QED BY <1>1, <2>1, <2>2 DEF ListCatchesUp
<1>3. DOMAIN xq = {}
      BY <1>1
<1>4. GhostsGo
      BY <1>1, <1>3 DEF GhostsGo
<1>5. ActiveCatchesUp
  <2>1. ShowsChecked /\ ~CheckVisible(winnode)
        BY <1>1, <1>3 DEF ShowsChecked, CheckVisible
  <2>2. ~TopVisible
        BY <1>1, DisplayAssumption DEF TopVisible, NoWindows
  <2> QED BY <1>1, <2>1, <2>2 DEF ActiveCatchesUp
<1> QED BY <1>2, <1>4, <1>5

(***************************************************************************)
(* In the only main loop there is, nothing has been left by an earlier     *)
(* one.                                                                    *)
(***************************************************************************)
LEMMA FirstMain ==
    ASSUME MaxMains = 1, XTypeOK, LaunchCounted, InLoop
    PROVE  mains = 0
BY DEF XTypeOK, LaunchCounted, InLoop

LEMMA GhostsHold == XSpec => [](XTypeOK /\ LaunchCounted /\ GhostsGo)
<1>1. TypeOK /\ XTypeOK /\ GhostsGo /\ [XNext]_allVars => GhostsGo'
      BY GhostStep
<1>2. XInit => GhostsGo
      BY CatchUpInit
<1>3. XTypeOK /\ LaunchCounted /\ [XNext]_allVars => XTypeOK' /\ LaunchCounted'
      BY QueueTyped, LaunchesCounted
<1>4. XSpec => []TypeOK
      BY DisplayImplementsEfl, TypeCorrect, PTL
<1> QED BY <1>1, <1>2, <1>3, <1>4, XInitTypes, PTL DEF XSpec

(***************************************************************************)
(* In the first loop, g_winnode_list never keeps a window that is gone     *)
(* from the screen, even when calloc fails.                                *)
(***************************************************************************)
THEOREM NoGhosts == ASSUME MaxMains = 1 PROVE XSpec => []NoGhostWindow
<1>1. XTypeOK /\ LaunchCounted /\ GhostsGo => NoGhostWindow
      BY FirstMain DEF GhostsGo, Hidden, NoGhostWindow
<1> QED BY <1>1, GhostsHold, PTL

LEMMA CatchUpHolds ==
    ASSUME ~AllocMayFail
    PROVE  XSpec => [](XTypeOK /\ LaunchCounted /\ TypeOK /\ ActiveConsistent
                          /\ ListCatchesUp /\ ActiveCatchesUp)
<1>1. TypeOK /\ XTypeOK /\ ListCatchesUp /\ [XNext]_allVars => ListCatchesUp'
      BY ListStep
<1>2. TypeOK /\ XTypeOK /\ ActiveCatchesUp /\ [XNext]_allVars /\ XTypeOK' /\ ListCatchesUp'
        => ActiveCatchesUp'
      BY ActiveCatchesUpStep
<1>3. XInit => ListCatchesUp /\ ActiveCatchesUp
      BY CatchUpInit
<1>4. XTypeOK /\ LaunchCounted /\ [XNext]_allVars => XTypeOK' /\ LaunchCounted'
      BY QueueTyped, LaunchesCounted
<1>5. XSpec => []TypeOK /\ []ActiveConsistent
      BY DisplayImplementsEfl, TypeCorrect, ActivityCorrect, PTL
<1> QED BY <1>1, <1>2, <1>3, <1>4, <1>5, XInitTypes, PTL DEF XSpec

(***************************************************************************)
(* In every main loop the process runs, when the queue is empty, every     *)
(* mapped top window has a node with its true bfobscured and no child      *)
(* window has one.                                                         *)
(***************************************************************************)
MappedWindowsListed == Settled =>
    \A w \in Windows :
        /\ w \in Top /\ xwin[w] # "unmapped" => winnode[w] = xwin[w]
        /\ w \notin Top => winnode[w] = "absent"

(***************************************************************************)
(* What __show_cb, __hide_cb and __visibility_cb make of the list: never   *)
(* behind on a window that is mapped, whatever an earlier loop left there, *)
(* and exact in the first.                                                 *)
(***************************************************************************)
THEOREM ListKeepsUp ==
    ASSUME ~AllocMayFail
    PROVE  XSpec => [](MappedWindowsListed /\ (mains = 0 => ListMatchesScreen))
<1>1. ASSUME ListCatchesUp, Settled, NEW w \in Windows
      PROVE  (Exact(w) => winnode[w] = Shown(w)) /\ (w \notin Top => winnode[w] = "absent")
  <2>1. xq = <<>>
        BY <1>1 DEF Settled
  <2>2. PICK m \in NodeStates : Leads(xq, w, winnode[w], m) /\ (Exact(w) => m = Shown(w))
        BY <1>1 DEF ListCatchesUp
  <2>3. winnode[w] = m
        BY <2>1, <2>2, LeadsNowhere
  <2> QED BY <1>1, <2>2, <2>3 DEF ListCatchesUp
<1>2. ListCatchesUp => MappedWindowsListed
      BY <1>1 DEF MappedWindowsListed, Exact, Shown, NodeOf
<1>3. ListCatchesUp => (mains = 0 => ListMatchesScreen)
      BY <1>1 DEF ListMatchesScreen, Exact, Shown
<1> QED BY <1>2, <1>3, CatchUpHolds, PTL

(***************************************************************************)
(* Whatever was mapped, moved in front and hidden in whatever order, the   *)
(* list is exact when the queue of the first loop is empty.                *)
(***************************************************************************)
THEOREM ListExact ==
    ASSUME MaxMains = 1, ~AllocMayFail PROVE XSpec => []ListMatchesScreen
<1>1. XTypeOK /\ LaunchCounted /\ (mains = 0 => ListMatchesScreen) => ListMatchesScreen
      BY FirstMain DEF ListMatchesScreen, Settled
<1> QED BY <1>1, ListKeepsUp, CatchUpHolds, PTL

(***************************************************************************)
(* An application with a window that can be seen is not left paused, in    *)
(* the first main loop or a later one.                                     *)
(***************************************************************************)
THEOREM ResumedCorrect ==
    ASSUME ~AllocMayFail PROVE XSpec => []ResumedWhenVisible
<1>1. ASSUME TypeOK, ActiveConsistent, ActiveCatchesUp, Settled, TopVisible
      PROVE  b_active /\ state # "AS_PAUSED"
  <2>1. ~Checked(0)
        BY <1>1 DEF Settled, Checked
  <2>2. b_active
        BY <1>1, <2>1 DEF ActiveCatchesUp
  <2> QED BY <1>1, <2>2 DEF ActiveConsistent, TypeOK
<1>2. TypeOK /\ ActiveConsistent /\ ActiveCatchesUp => ResumedWhenVisible
      BY <1>1 DEF ResumedWhenVisible
<1> QED BY <1>2, CatchUpHolds, PTL

(***************************************************************************)
(* In the first loop, an application that had a window and has none that   *)
(* can be seen is in the background, the system manager told so, and has   *)
(* been paused unless it never started, is dying, or was started there.    *)
(***************************************************************************)
THEOREM PausedCorrect ==
    ASSUME MaxMains = 1, ~AllocMayFail PROVE XSpec => []PausedWhenInvisible
<1>1. ASSUME XTypeOK, LaunchCounted, TypeOK, ActiveConsistent, ActiveCatchesUp,
             ListMatchesScreen, Settled, appeared, ~TopVisible
      PROVE  ~b_active /\ sysman = "background"
  <2>1. mains = 0 /\ ~Checked(0)
        BY <1>1, FirstMain DEF Settled, Checked
  <2>2. \A w \in Windows : winnode[w] = IF w \in Top THEN NodeOf(xwin[w]) ELSE "absent"
        BY <1>1 DEF ListMatchesScreen
  <2>3. ~CheckVisible(winnode)
        BY <1>1, <2>2 DEF CheckVisible, TopVisible, NodeOf
  <2>4. ~b_active
        BY <1>1, <2>1, <2>3 DEF ActiveCatchesUp
  <2> QED BY <1>1, <2>4 DEF ActiveConsistent, TypeOK
<1>2. XTypeOK /\ LaunchCounted /\ TypeOK /\ ActiveConsistent /\ ActiveCatchesUp
        /\ ListMatchesScreen /\ BackgroundInv => PausedWhenInvisible
      BY <1>1 DEF PausedWhenInvisible, BackgroundInv, Settled, InLoop
<1>3. XSpec => []BackgroundInv
      BY DisplayImplementsEfl, StartedUnseen, PTL
<1> QED BY <1>2, <1>3, CatchUpHolds, ListExact, PTL
=============================================================================
