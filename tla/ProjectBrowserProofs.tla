------------------------ MODULE ProjectBrowserProofs ------------------------
(***************************************************************************)
(* What a browser holds of a project: the engine in its worker, and the    *)
(* project it shows, patched part by part.                                 *)
(***************************************************************************)
EXTENDS ProjectEngineProofs

-----------------------------------------------------------------------------
(* Folds over a patch *)

(* applyProjectPatch of the browser: the project after a patch.            *)
Show(v, patch) == FoldLeft(ViewPatch, v, patch)

IsShowFold(f, v, s, n) ==
  f = [S \in SUBSET (1..n) |->
         IF S = {} THEN v ELSE ViewPatch(f[S \ {Max(S)}], s[Max(S)])]

(* The recursive function in FoldLeft exists.                              *)
LEMMA ShowFoldExists ==
  ASSUME NEW v, NEW s
  PROVE  \A n \in Nat : \E f : IsShowFold(f, v, s, n)
<1> DEFINE N == {n \in Nat : \E f : IsShowFold(f, v, s, n)}
<1>1. 0 \in N
  <2> DEFINE g == [S \in SUBSET (1..0) |-> v]
  <2>1. \A S \in SUBSET (1..0) : S = {}
    OBVIOUS
  <2>2. IsShowFold(g, v, s, 0)
    BY <2>1 DEF IsShowFold
  <2> QED BY <2>2
<1>2. ASSUME NEW n \in N PROVE n + 1 \in N
  <2>1. n \in Nat /\ 1..(n + 1) = (1..n) \cup {n + 1} /\ n + 1 \notin 1..n
    OBVIOUS
  <2>2. PICK f : IsShowFold(f, v, s, n)
    OBVIOUS
  <2> DEFINE g == [S \in SUBSET (1..(n + 1)) |->
               IF n + 1 \in S THEN ViewPatch(f[S \ {n + 1}], s[n + 1]) ELSE f[S]]
  <2>3. \A S \in SUBSET (1..(n + 1)) : n + 1 \in S => Max(S) = n + 1 /\ S \ {n + 1} \in SUBSET (1..n)
    <3> TAKE S \in SUBSET (1..(n + 1))
    <3> HAVE n + 1 \in S
    <3>1. \A x \in S : n + 1 >= x /\ (x >= n + 1 => x = n + 1)
      BY <2>1
    <3> QED BY <2>1, <3>1 DEF Max
  <2>4. \A S \in SUBSET (1..(n + 1)) : n + 1 \notin S => S \in SUBSET (1..n)
    BY <2>1
  <2>5. \A S \in SUBSET (1..n) : g[S] = f[S] /\ S \in SUBSET (1..(n + 1)) /\ S \ {Max(S)} \in SUBSET (1..n)
    BY <2>1
  <2>6. IsShowFold(g, v, s, n + 1)
    <3> SUFFICES ASSUME NEW S \in SUBSET (1..(n + 1))
                 PROVE  g[S] = IF S = {} THEN v ELSE ViewPatch(g[S \ {Max(S)}], s[Max(S)])
      BY DEF IsShowFold
    <3>1. CASE n + 1 \in S
      <4>1. Max(S) = n + 1 /\ S \ {n + 1} \in SUBSET (1..n)
        BY <2>3, <3>1
      <4>2. g[S \ {n + 1}] = f[S \ {n + 1}]
        BY <4>1, <2>5
      <4>3. g[S] = ViewPatch(f[S \ {n + 1}], s[n + 1])
        BY <3>1
      <4> HIDE DEF g
      <4>4. g[S] = ViewPatch(g[S \ {Max(S)}], s[Max(S)])
        BY <4>1, <4>2, <4>3, Zenon
      <4> QED BY <3>1, <4>4, Zenon
    <3>2. CASE n + 1 \notin S
      <4>1. S \in SUBSET (1..n)
        BY <2>4, <3>2
      <4>2. g[S] = f[S] /\ g[S \ {Max(S)}] = f[S \ {Max(S)}]
        BY <4>1, <2>5
      <4>3. f[S] = IF S = {} THEN v ELSE ViewPatch(f[S \ {Max(S)}], s[Max(S)])
        BY <2>2, <4>1 DEF IsShowFold
      <4> QED BY <4>2, <4>3
    <3> QED BY <3>1, <3>2
  <2> HIDE DEF g
  <2>7. \E h : IsShowFold(h, v, s, n + 1)
    BY <2>6
  <2> QED BY <2>1, <2>7
<1>3. N \in SUBSET Nat
  OBVIOUS
<1>4. N = Nat
  <2> HIDE DEF N
  <2> QED BY <1>1, <1>2, <1>3, Induction
<1> QED BY <1>4

(* The project after the parts of a patch, one after the other.            *)
IsShow(run, v, s, n) ==
  /\ run[0] = v
  /\ \A k \in 1..n : run[k] = ViewPatch(run[k - 1], s[k])

(* The project after a patch is the one after the last of its parts.       *)
LEMMA ShowSteps ==
  ASSUME NEW v, NEW s, NEW n \in Nat, DOMAIN s = 1..n
  PROVE  \E run : IsShow(run, v, s, n) /\ Show(v, s) = run[n]
<1>1. \E f : IsShowFold(f, v, s, n)
  BY ShowFoldExists
<1>2. PICK f : /\ f = [S \in SUBSET (DOMAIN s) |->
                       IF S = {} THEN v ELSE ViewPatch(f[S \ {Max(S)}], s[Max(S)])]
               /\ Show(v, s) = f[DOMAIN s]
  BY <1>1, Zenon DEF Show, FoldLeft, MapThenFoldSet, IsShowFold
<1> DEFINE run == [k \in 0..n |-> f[1..k]]
<1>3. 1..0 = {} /\ run[0] = f[1..0] /\ run[n] = f[1..n]
  OBVIOUS
<1>4. run[0] = v
  BY <1>2, <1>3
<1>5. ASSUME NEW k \in 1..n PROVE run[k] = ViewPatch(run[k - 1], s[k])
  <2>1. 1..k \in SUBSET (1..n) /\ 1..k # {} /\ (1..k) \ {k} = 1..(k - 1)
    OBVIOUS
  <2>2. Max(1..k) = k
    <3>1. \A x \in 1..k : k >= x /\ (x >= k => x = k)
      OBVIOUS
    <3>2. k \in 1..k
      OBVIOUS
    <3> QED BY <3>1, <3>2 DEF Max
  <2>3. f[1..k] = ViewPatch(f[(1..k) \ {Max(1..k)}], s[Max(1..k)])
    BY <1>2, <2>1
  <2>4. run[k] = f[1..k] /\ run[k - 1] = f[1..(k - 1)]
    OBVIOUS
  <2> HIDE DEF run
  <2> QED BY <2>1, <2>2, <2>3, <2>4, Zenon
<1> HIDE DEF run
<1> QED BY <1>2, <1>3, <1>4, <1>5 DEF IsShow

-----------------------------------------------------------------------------
(* Types *)

Types == {"network", "display", "power", "other"}

Views ==
  [rev : Nat, name : Labels \cup {0}, conns : SUBSET Cable, assigned : SUBSET Assignments,
   places : [Items -> Positions \cup {0}]]

Parts == {"add", "remove", "label", "route", "derived", "placements", "assignments", "name"}

(* The values a part of a patch carries.                                   *)
PartOK(p) ==
  /\ p.kind \in Parts
  /\ p.kind = "add" => p.conn \in Cable
  /\ p.kind = "label" => p.label \in Labels \cup {0}
  /\ p.kind = "route" => p.route \in RouteValues
  /\ p.kind = "derived" => \A st \in p.states : st.type \in Types /\ st.speed \in Nat
  /\ p.kind = "placements" => \A u \in p.upsert : u.item \in Items /\ u.x \in Positions \cup {0}
  /\ p.kind = "assignments" => p.upsert \subseteq Assignments
  /\ p.kind = "name" => p.name \in Labels \cup {0}

PatchOK(s, n) == s = [k \in 1..n |-> s[k]] /\ \A k \in 1..n : PartOK(s[k])

(* runtimeRoute gives a route.                                             *)
LEMMA RuntimeRouteType ==
  ASSUME NEW w \in RouteValues
  PROVE  /\ RuntimeRoute(w) \in RouteValues
         /\ RuntimeRoute(w).bends = w.bends /\ RuntimeRoute(w).avoid = w.avoid
<1>1. NoRoute \in RouteValues /\ NoRoute.bends = 0 /\ NoRoute.avoid = FALSE
  BY DEF NoRoute, RouteValues
<1>2. EmptyRoute.bends = 0 /\ EmptyRoute.avoid = FALSE
  BY DEF EmptyRoute
<1>3. CASE w = NoRoute
  BY <1>1, <1>3, Zenon DEF RuntimeRoute, OrEmpty
<1>4. CASE w = EmptyRoute
  BY <1>1, <1>2, <1>4, Zenon DEF RuntimeRoute, OrEmpty
<1>5. CASE w # NoRoute /\ w # EmptyRoute
  BY <1>5, Zenon DEF RuntimeRoute, OrEmpty
<1> QED BY <1>3, <1>4, <1>5

(* A project whose connections are changed one by one.                     *)
LEMMA OtherConns ==
  ASSUME NEW v \in Views, NEW cs \in SUBSET Cable
  PROVE  /\ [v EXCEPT !.conns = cs] \in Views /\ [v EXCEPT !.conns = cs].conns = cs
         /\ [v EXCEPT !.conns = cs].name = v.name /\ [v EXCEPT !.conns = cs].assigned = v.assigned
         /\ [v EXCEPT !.conns = cs].places = v.places
  BY DEF Views

(* The parts of a patch leave cables to the screen.                        *)
LEMMA LabelledCables ==
  ASSUME NEW cs \in SUBSET Cable, NEW p, p.label \in Labels \cup {0}
  PROVE  {IF c.id = p.id THEN [c EXCEPT !.label = p.label] ELSE c : c \in cs} \in SUBSET Cable
  BY DEF Cable

(* Cables with a patched route keep their types.                           *)
LEMMA ReroutedCables ==
  ASSUME NEW cs \in SUBSET Cable, NEW p, p.route \in RouteValues
  PROVE  {IF c.id = p.id THEN [c EXCEPT !.route = RuntimeRoute(p.route)] ELSE c : c \in cs}
           \in SUBSET Cable
<1> PICK w \in RouteValues : w = RuntimeRoute(p.route)
  BY RuntimeRouteType
<1> QED BY DEF Cable

(* Cables whose networks are derived again keep their types.               *)
LEMMA RederivedCables ==
  ASSUME NEW cs \in SUBSET Cable, NEW p, \A st \in p.states : st.type \in Types /\ st.speed \in Nat
  PROVE  PatchDerived(cs, p) \in SUBSET Cable
<1> DEFINE st(c) == CHOOSE x \in p.states : x.id = c.id
           new(c) == IF \E x \in p.states : x.id = c.id
                       THEN [c EXCEPT !.type = st(c).type, !.speed = st(c).speed] ELSE c
<1>1. ASSUME NEW c \in cs PROVE new(c) \in Cable
  <2>1. CASE \E x \in p.states : x.id = c.id
    <3>1. st(c) \in p.states
      BY <2>1, Zenon
    <3> PICK ty \in Types, sp \in Nat : ty = st(c).type /\ sp = st(c).speed
      BY <3>1
    <3>2. [c EXCEPT !.type = ty, !.speed = sp] \in Cable
      BY DEF Cable, Types
    <3> QED BY <2>1, <3>2
  <2> QED BY <2>1
<1>2. PatchDerived(cs, p) = {new(c) : c \in cs}
  BY DEF PatchDerived
<1> HIDE DEF new
<1> QED BY <1>1, <1>2

(* applyProjectPatch gives a project again.                                *)
LEMMA ViewPatchType ==
  ASSUME NEW v \in Views, NEW p, PartOK(p)
  PROVE  ViewPatch(v, p) \in Views
<1>1. v.conns \in SUBSET Cable /\ v.assigned \in SUBSET Assignments /\ v.places \in [Items -> Positions \cup {0}]
  BY DEF Views
<1>2. CASE p.kind = "add"
  <2> PICK w \in RouteValues : w = RuntimeRoute(p.conn.route)
    BY <1>2, RuntimeRouteType DEF PartOK, Cable
  <2>1. [p.conn EXCEPT !.route = w] \in Cable
    BY <1>2 DEF PartOK, Cable
  <2> PICK n \in Cable : n = [p.conn EXCEPT !.route = w]
    BY <2>1
  <2>2. ViewPatch(v, p) = [v EXCEPT !.conns = v.conns \cup {n}]
    BY <1>2 DEF ViewPatch
  <2>3. v.conns \cup {n} \in SUBSET Cable
    BY <1>1
  <2> QED BY <2>2, <2>3, OtherConns
<1>3. CASE p.kind = "remove"
  <2> PICK cs \in SUBSET Cable : cs = {c \in v.conns : c.id # p.conn.id}
    BY <1>1
  <2>1. ViewPatch(v, p) = [v EXCEPT !.conns = cs]
    BY <1>3 DEF ViewPatch
  <2> QED BY <2>1, OtherConns
<1>4. CASE p.kind = "label"
  <2> PICK cs \in SUBSET Cable : cs = {IF c.id = p.id THEN [c EXCEPT !.label = p.label] ELSE c : c \in v.conns}
    BY <1>1, <1>4, LabelledCables DEF PartOK
  <2>1. ViewPatch(v, p) = [v EXCEPT !.conns = cs]
    BY <1>4 DEF ViewPatch
  <2> QED BY <2>1, OtherConns
<1>5. CASE p.kind = "route"
  <2> PICK cs \in SUBSET Cable : cs = {IF c.id = p.id THEN [c EXCEPT !.route = RuntimeRoute(p.route)] ELSE c : c \in v.conns}
    BY <1>1, <1>5, ReroutedCables DEF PartOK
  <2>1. ViewPatch(v, p) = [v EXCEPT !.conns = cs]
    BY <1>5 DEF ViewPatch
  <2> QED BY <2>1, OtherConns
<1>6. CASE p.kind = "derived"
  <2> PICK cs \in SUBSET Cable : cs = PatchDerived(v.conns, p)
    BY <1>1, <1>6, RederivedCables DEF PartOK
  <2>1. ViewPatch(v, p) = [v EXCEPT !.conns = cs]
    BY <1>6 DEF ViewPatch
  <2> QED BY <2>1, OtherConns
<1>7. CASE p.kind = "placements"
  <2>1. ASSUME NEW i \in Items PROVE PatchPlacements(v.places, p)[i] \in Positions \cup {0}
    <3>1. CASE \E u \in p.upsert : u.item = i
      <4>1. (CHOOSE u \in p.upsert : u.item = i) \in p.upsert
        BY <3>1, Zenon
      <4> QED BY <1>1, <1>7, <4>1 DEF PatchPlacements, PartOK
    <3>2. CASE ~\E u \in p.upsert : u.item = i
      BY <1>1, <3>2 DEF PatchPlacements
    <3> QED BY <3>1, <3>2
  <2>2. PatchPlacements(v.places, p) = [i \in Items |-> PatchPlacements(v.places, p)[i]]
    BY DEF PatchPlacements
  <2>3. PatchPlacements(v.places, p) \in [Items -> Positions \cup {0}]
    BY <2>1, <2>2
  <2> PICK pl \in [Items -> Positions \cup {0}] : pl = PatchPlacements(v.places, p)
    BY <2>3
  <2>4. ViewPatch(v, p) = [v EXCEPT !.places = pl]
    BY <1>7 DEF ViewPatch
  <2> QED BY <2>4 DEF Views
<1>8. CASE p.kind = "assignments"
  <2> PICK as \in SUBSET Assignments :
           as = {a \in v.assigned : a.id \notin p.remove \cup {u.id : u \in p.upsert}} \cup p.upsert
    BY <1>1, <1>8 DEF PartOK
  <2>1. ViewPatch(v, p) = [v EXCEPT !.assigned = as]
    BY <1>8 DEF ViewPatch
  <2> QED BY <2>1 DEF Views
<1>9. CASE p.kind = "name"
  <2>1. ViewPatch(v, p) = [v EXCEPT !.name = p.name]
    BY <1>9 DEF ViewPatch
  <2> QED BY <1>9, <2>1 DEF Views, PartOK
<1> QED BY <1>2, <1>3, <1>4, <1>5, <1>6, <1>7, <1>8, <1>9 DEF PartOK, Parts

(* And so does a whole patch.                                              *)
LEMMA ShowType ==
  ASSUME NEW v \in Views, NEW s, NEW n \in Nat, PatchOK(s, n)
  PROVE  Show(v, s) \in Views
<1>1. DOMAIN s = 1..n
  BY DEF PatchOK
<1>2. PICK run : IsShow(run, v, s, n) /\ Show(v, s) = run[n]
  BY <1>1, ShowSteps
<1> DEFINE N == {k \in Nat : k <= n => run[k] \in Views}
<1>3. 0 \in N
  BY <1>2 DEF IsShow
<1>4. ASSUME NEW k \in N PROVE k + 1 \in N
  <2> SUFFICES ASSUME k + 1 <= n PROVE run[k + 1] \in Views
    OBVIOUS
  <2>1. k \in Nat /\ run[k] \in Views /\ k + 1 \in 1..n /\ (k + 1) - 1 = k
    OBVIOUS
  <2>2. run[k + 1] = ViewPatch(run[k], s[k + 1])
    BY <1>2, <2>1 DEF IsShow
  <2>3. PartOK(s[k + 1])
    BY <2>1 DEF PatchOK
  <2> QED BY <2>1, <2>2, <2>3, ViewPatchType
<1>5. N \in SUBSET Nat
  OBVIOUS
<1>6. N = Nat
  <2> HIDE DEF N
  <2> QED BY <1>3, <1>4, <1>5, Induction
<1> QED BY <1>2, <1>6

(* Two sequences of one part.                                              *)
LEMMA TwoParts ==
  ASSUME NEW a, NEW p
  PROVE  <<a>> \o <<p>> = <<a, p>>
<1> PICK S : S = {a, p}  OBVIOUS
<1>1. <<a>> \in Seq(S) /\ <<p>> \in Seq(S) /\ Len(<<a>>) = 1 /\ Len(<<p>>) = 1
  OBVIOUS
<1> PICK s, q, r : q = <<a>> /\ r = <<p>> /\ s = q \o r  OBVIOUS
<1>2. s \in Seq(S) /\ Len(s) = 2 /\ s[1] = q[1] /\ s[2] = r[1]
  BY <1>1
<1> PICK w : w = <<a, p>>  OBVIOUS
<1>3. w \in Seq(S) /\ Len(w) = 2 /\ w[1] = a /\ w[2] = p
  OBVIOUS
<1>4. s = [i \in 1..2 |-> s[i]] /\ w = [i \in 1..2 |-> w[i]]
  BY <1>2, <1>3
<1>5. s[1] = w[1] /\ s[2] = w[2]
  <2>1. q[1] = a /\ r[1] = p
    OBVIOUS
  <2> QED BY <1>2, <1>3, <2>1
<1>6. \A i \in 1..2 : s[i] = w[i]
  <2>1. \A i \in 1..2 : i = 1 \/ i = 2
    OBVIOUS
  <2> QED BY <1>5, <2>1
<1> QED BY <1>4, <1>6

(* A patch of two parts.                                                   *)
LEMMA PairOfParts ==
  ASSUME NEW p, NEW q, NEW s, s = <<p, q>>
  PROVE  s = [k \in 1..2 |-> s[k]] /\ s[1] = p /\ s[2] = q
  OBVIOUS

(* A derived patch is empty or one part.                                   *)
LEMMA DerivedParts ==
  ASSUME NEW before, NEW after \in Engines
  PROVE  \/ DerivedPatch(before, after) = <<>>
         \/ \E p : DerivedPatch(before, after) = <<p>> /\ p.kind = "derived" /\ PartOK(p)
<1> PICK ch : ch = {c \in after.conns : \E d \in before.conns :
                      d.id = c.id /\ <<d.type, d.speed>> # <<c.type, c.speed>>}
  OBVIOUS
<1> PICK sts : sts = {[id |-> c.id, type |-> c.type, speed |-> c.speed] : c \in ch}  OBVIOUS
<1> PICK p : p = [kind |-> "derived", states |-> sts]  OBVIOUS
<1>1. DerivedPatch(before, after) = IF ch = {} THEN <<>> ELSE <<p>>
  BY DEF DerivedPatch
<1>2. \A c \in ch : c.type \in Types /\ c.speed \in Nat
  BY DEF Engines, Cable, Types
<1>3. \A st \in sts : st.type \in Types /\ st.speed \in Nat
  BY <1>2
<1>4. p.kind = "derived" /\ PartOK(p)
  BY <1>3 DEF PartOK, Parts
<1> QED BY <1>1, <1>4

(* An engine whose ids are behind the next one.                            *)
Loaded(e) == e \in Engines /\ \A c \in e.conns : c.id < e.next

(* What a command carries, as far as types go.                             *)
Typed(op) ==
  /\ op.kind \in Kinds
  /\ op.kind = "create" => op.from \in Refs /\ op.to \in Refs
  /\ op.kind = "label" => op.label \in Labels \cup {0}
  /\ op.kind = "route" => op.route \in RouteValues
  /\ op.kind = "sides" => op.src \in Sides /\ op.tgt \in Sides
  /\ op.kind = "canonical" => \A ch \in op.changes : ch.bends \in Bends \cup {0}
  /\ op.kind = "name" => op.name \in Labels \cup {0}
  /\ op.kind = "assign" => \A ch \in op.changes : ch.next \in Assignments \cup {NoAssignment}
  /\ op.kind = "place" => \A ch \in op.changes : ch.next # 0 => ch.item \in Items /\ ch.next \in Positions
  /\ op.kind = "snap" => op.planned \in Positions

(* The engine after a command: it builds, at the next revision.            *)
Answers(e, u) == Loaded(u) /\ Builds(u) /\ u.rev = e.rev + 1

(* A reply: an engine, and a patch that does not start with derived states.*)
ReplyOK(e, reply) ==
  /\ Answers(e, reply.engine)
  /\ \E n \in Nat \ {0} : PatchOK(reply.forward, n) /\ reply.forward[1].kind # "derived"

(* commit_topology answers with the engine it was given.                   *)
LEMMA CommitType ==
  ASSUME NEW e \in Engines, NEW t, Loaded(t), NEW fw, NEW inv,
         NEW reply \in CommitTopology(e, t, fw, inv)
  PROVE  Answers(e, reply.engine) /\ reply.forward = fw /\ reply.inverse = inv
<1>1. Builds(t) /\ reply.engine = [t EXCEPT !.rev = e.rev + 1] /\ reply.forward = fw /\ reply.inverse = inv
  BY DEF CommitTopology
<1>2. e.rev \in Nat
  BY DEF Engines
<1> PICK n \in Nat : n = e.rev + 1
  BY <1>2
<1> PICK u : u = reply.engine  OBVIOUS
<1>3. u \in Engines /\ u.rev = n /\ u.next = t.next /\ u.conns = t.conns /\ u.assigned = t.assigned
  BY <1>1 DEF Engines, Loaded
<1>4. Builds(u)
  BY <1>1, <1>3 DEF Builds, AssignedTo
<1> QED BY <1>1, <1>3, <1>4 DEF Loaded, Answers

(* A patch of one part.                                                    *)
LEMMA OnePart ==
  ASSUME NEW p, PartOK(p), p.kind # "derived", NEW e, NEW reply, Answers(e, reply.engine), reply.forward = <<p>>
  PROVE  ReplyOK(e, reply)
<1> PICK s : s = reply.forward  OBVIOUS
<1>1. s = [k \in 1..1 |-> s[k]] /\ s[1] = p
  OBVIOUS
<1>2. \A k \in 1..1 : s[k] = p
  BY <1>1
<1> PICK n \in Nat \ {0} : n = 1  OBVIOUS
<1>3. PatchOK(s, n)
  BY <1>1, <1>2 DEF PatchOK
<1> QED BY <1>1, <1>3 DEF ReplyOK

(* A patch of two.                                                         *)
LEMMA TwoPartReply ==
  ASSUME NEW p, PartOK(p), p.kind # "derived", NEW q, PartOK(q),
         NEW e, NEW reply, Answers(e, reply.engine), reply.forward = <<p, q>>
  PROVE  ReplyOK(e, reply)
<1> PICK s : s = reply.forward  OBVIOUS
<1>1. s = [k \in 1..2 |-> s[k]] /\ s[1] = p /\ s[2] = q
  BY PairOfParts
<1> PICK n \in Nat \ {0} : n = 2  OBVIOUS
<1>2. \A k \in 1..n : s[k] \in {p, q}
  BY <1>1
<1>3. PatchOK(s, n)
  BY <1>1, <1>2 DEF PatchOK
<1> QED BY <1>1, <1>3 DEF ReplyOK

(* A patch of a part and the derived states it changes.                    *)
LEMMA BatchParts ==
  ASSUME NEW p, PartOK(p), p.kind # "derived", NEW before, NEW after \in Engines,
         NEW e, NEW reply, Answers(e, reply.engine), reply.forward = <<p>> \o DerivedPatch(before, after)
  PROVE  ReplyOK(e, reply)
<1> PICK dp : dp = DerivedPatch(before, after)  OBVIOUS
<1>1. CASE dp = <<>>
  <2>1. <<p>> \o dp = <<p>>
    BY <1>1
  <2> QED BY <2>1, OnePart
<1>2. CASE \E q : dp = <<q>> /\ q.kind = "derived" /\ PartOK(q)
  <2> PICK q : dp = <<q>> /\ q.kind = "derived" /\ PartOK(q)
    BY <1>2
  <2>1. <<p>> \o <<q>> = <<p, q>>
    BY TwoParts
  <2> QED BY <2>1, TwoPartReply
<1>3. (dp = <<>>) \/ \E q : dp = <<q>> /\ q.kind = "derived" /\ PartOK(q)
  BY DerivedParts
<1> QED BY <1>1, <1>2, <1>3

(* A part that is added, and what it is added to.                          *)
LEMMA CreateType ==
  ASSUME NEW e, Loaded(e), NEW op, op.from \in Refs, op.to \in Refs,
         NEW reply \in CreateConnection(e, op)
  PROVE  ReplyOK(e, reply)
<1> DEFINE c == NewConnection(e, op)
           u == [e EXCEPT !.conns = e.conns \cup {c}, !.next = c.id + 1]
           t == NormalizeDerived(u)
           a == [kind |-> "add", conn |-> Only(t, t.next - 1)]
<1>1. PICK inv : reply \in CommitTopology(e, t, Batch(a, e, t), inv)
  <2>1. ValidateConnection(e, op.from, op.to)
    BY DEF CreateConnection
  <2> QED BY <2>1 DEF CreateConnection, Batch
<1>2. e \in Engines /\ e.conns \in SUBSET Cable /\ \A b \in e.conns : b.id < e.next
  BY DEF Loaded, Engines
<1>3. e.next \in Nat \ {0} /\ \A b \in e.conns : b.id \in Nat
  BY <1>2 DEF Engines, Cable
<1>4. c.id = e.next
  BY <1>2, NextId DEF NewConnection
<1>5. c \in Cable
  <2>1. NoRoute \in RouteValues
    BY DEF NoRoute, RouteValues
  <2>2. ConnectionId(e) \in Nat \ {0}
    BY <1>2, <1>3, NextId
  <2> PICK w \in RouteValues, i \in Nat \ {0} : w = NoRoute /\ i = ConnectionId(e)
    BY <2>1, <2>2
  <2> QED BY DEF NewConnection, Cable
<1> HIDE DEF c
<1>6. u \in Engines /\ u.conns = e.conns \cup {c} /\ u.next = e.next + 1
  <2> PICK cs, n : cs = e.conns \cup {c} /\ n = c.id + 1  OBVIOUS
  <2>1. cs \in SUBSET Cable /\ n \in Nat \ {0} /\ n = e.next + 1
    BY <1>2, <1>3, <1>4, <1>5
  <2>2. u = [e EXCEPT !.conns = cs, !.next = n]
    OBVIOUS
  <2> HIDE DEF u
  <2> QED BY <1>2, <2>1, <2>2 DEF Engines
<1>7. t = NormalizeDerived(u) /\ a.kind = "add" /\ a.conn = Only(t, t.next - 1)
  OBVIOUS
<1> HIDE DEF u, t, a
<1>8. t \in Engines /\ t.next = u.next /\ \E f : Redraws(f, u.conns, t)
  BY <1>6, <1>7, Redrawn
<1> PICK conns : conns = e.conns \cup {c}  OBVIOUS
<1> PICK f : Redraws(f, conns, t)
  BY <1>6, <1>8
<1>9. Loaded(t)
  <2>1. \A b \in conns : b.id < e.next + 1
    BY <1>2, <1>3, <1>4
  <2>2. \A b \in t.conns : b.id < e.next + 1
    BY <2>1 DEF Redraws, Mapped
  <2> QED BY <1>6, <1>8, <2>2 DEF Loaded
<1>10. PartOK(a)
  <2>1. f[c] \in t.conns /\ f[c].id = e.next
    BY <1>4 DEF Redraws, Mapped
  <2>2. t.next - 1 = e.next
    BY <1>3, <1>6, <1>8
  <2>3. Only(t, e.next) \in t.conns
    BY <2>1, Zenon DEF Only
  <2>4. a.conn \in Cable
    BY <1>7, <1>8, <2>2, <2>3 DEF Engines
  <2> QED BY <1>7, <2>4 DEF PartOK, Parts
<1>11. Answers(e, reply.engine) /\ reply.forward = Batch(a, e, t)
  BY <1>1, <1>2, <1>9, CommitType
<1>12. a.kind # "derived"
  BY <1>7
<1> QED BY <1>8, <1>10, <1>11, <1>12, BatchParts DEF Batch

(* remove_connection.                                                      *)
LEMMA RemoveType ==
  ASSUME NEW e, Loaded(e), NEW op, NEW reply \in RemoveConnection(e, op)
  PROVE  ReplyOK(e, reply)
<1> DEFINE U(c) == [e EXCEPT !.conns = e.conns \ {c}]
           a == [kind |-> "remove", conn |-> Only(e, op.id)]
<1>1. PICK c \in e.conns :
        \E inv : reply \in CommitTopology(e, NormalizeDerived(U(c)), Batch(a, e, NormalizeDerived(U(c))), inv)
  BY DEF RemoveConnection, Batch
<1> PICK inv : reply \in CommitTopology(e, NormalizeDerived(U(c)), Batch(a, e, NormalizeDerived(U(c))), inv)
  BY <1>1
<1> DEFINE u == U(c)
           t == NormalizeDerived(u)
<1>2. reply \in CommitTopology(e, t, Batch(a, e, t), inv)
  OBVIOUS
<1>3. PartOK(a) /\ a.kind # "derived"
  BY DEF PartOK, Parts
<1>4. e \in Engines
  BY DEF Loaded
<1> PICK conns : conns = e.conns \ {c}  OBVIOUS
<1>5. u \in Engines /\ u.conns = conns /\ u.next = e.next
  <2>1. conns \in SUBSET Cable /\ u = [e EXCEPT !.conns = conns]
    BY <1>4 DEF Engines
  <2> HIDE DEF u
  <2> QED BY <1>4, <2>1 DEF Engines
<1>6. t = NormalizeDerived(u)
  OBVIOUS
<1> HIDE DEF u, t, a, U
<1>7. t \in Engines /\ t.next = u.next /\ \E f : Redraws(f, u.conns, t)
  BY <1>5, <1>6, Redrawn
<1> PICK f : Redraws(f, conns, t)
  BY <1>5, <1>7
<1>8. Loaded(t)
  <2>1. \A b \in t.conns : b.id < e.next
    BY DEF Redraws, Mapped, Loaded
  <2> QED BY <1>5, <1>7, <2>1 DEF Loaded
<1>9. Answers(e, reply.engine) /\ reply.forward = Batch(a, e, t)
  BY <1>2, <1>4, <1>8, CommitType
<1> QED BY <1>3, <1>7, <1>9, BatchParts DEF Batch

(* Cables changed under their ids.                                         *)
LEMMA MappedLoaded ==
  ASSUME NEW e, Loaded(e), NEW g, \A c \in e.conns : g[c] \in Cable /\ g[c].id = c.id,
         NEW t, t = [e EXCEPT !.conns = Mapped(g, e.conns)]
  PROVE  Loaded(t)
<1>1. t \in Engines /\ t.conns = Mapped(g, e.conns)
  BY OtherCables DEF Loaded
<1> PICK cs : cs = Mapped(g, e.conns)  OBVIOUS
<1>2. t.next = e.next
  BY DEF Loaded, Engines
<1>3. \A c \in t.conns : c.id < e.next
  BY <1>1 DEF Mapped, Loaded
<1> QED BY <1>1, <1>2, <1>3 DEF Loaded

(* One cable replaced under its id.                                        *)
LEMMA ReplacedLoaded ==
  ASSUME NEW e, Loaded(e), NEW c \in e.conns, NEW n \in Cable, n.id = c.id
  PROVE  Loaded(WithConnection(e, c.id, n))
<1> DEFINE k(b) == IF b.id = c.id THEN n ELSE b
           g == [b \in e.conns |-> k(b)]
<1>1. \A b \in e.conns : g[b] = k(b)
  OBVIOUS
<1>2. \A b \in e.conns : g[b] \in Cable /\ g[b].id = b.id
  BY DEF Loaded, Engines
<1>3. {k(b) : b \in e.conns} = Mapped(g, e.conns)
  <2> HIDE DEF g, k
  <2> QED BY <1>1 DEF Mapped
<1>4. WithConnection(e, c.id, n) = [e EXCEPT !.conns = Mapped(g, e.conns)]
  <2> HIDE DEF g
  <2> QED BY <1>3 DEF WithConnection
<1> HIDE DEF g, k
<1> QED BY <1>2, <1>4, MappedLoaded

(* update_connection_label.                                                *)
LEMMA LabelType ==
  ASSUME NEW e, Loaded(e), NEW op, op.label \in Labels \cup {0},
         NEW reply \in UpdateConnectionLabel(e, op)
  PROVE  ReplyOK(e, reply)
<1> PICK p : p = [kind |-> "label", id |-> op.id, label |-> op.label]  OBVIOUS
<1>1. PICK c \in e.conns :
         /\ c.id = op.id
         /\ \E inv : reply \in CommitTopology(e, WithConnection(e, op.id, [c EXCEPT !.label = op.label]), <<p>>, inv)
  BY DEF UpdateConnectionLabel
<1> PICK inv : reply \in CommitTopology(e, WithConnection(e, op.id, [c EXCEPT !.label = op.label]), <<p>>, inv)
  BY <1>1
<1>2. e \in Engines /\ c \in Cable
  BY DEF Loaded, Engines
<1> PICK n : n = [c EXCEPT !.label = op.label]  OBVIOUS
<1>3. n \in Cable /\ n.id = c.id
  BY <1>2 DEF Cable
<1> PICK t : t = WithConnection(e, c.id, n)  OBVIOUS
<1>4. Loaded(t) /\ reply \in CommitTopology(e, t, <<p>>, inv)
  BY <1>1, <1>3, ReplacedLoaded
<1>5. PartOK(p) /\ p.kind # "derived"
  BY DEF PartOK, Parts
<1>6. Answers(e, reply.engine) /\ reply.forward = <<p>>
  BY <1>2, <1>4, CommitType
<1> QED BY <1>5, <1>6, OnePart

(* update_connection_route.                                                *)
LEMMA RouteType ==
  ASSUME NEW e, Loaded(e), NEW op, op.route \in RouteValues,
         NEW reply \in UpdateConnectionRoute(e, op)
  PROVE  ReplyOK(e, reply)
<1> PICK p : p = RoutePatch(op.id, op.route)  OBVIOUS
<1>1. PICK c \in e.conns :
         /\ c.id = op.id
         /\ \E inv : reply \in CommitTopology(e, WithConnection(e, op.id, [c EXCEPT !.route = op.route]), <<p>>, inv)
  BY DEF UpdateConnectionRoute
<1> PICK inv : reply \in CommitTopology(e, WithConnection(e, op.id, [c EXCEPT !.route = op.route]), <<p>>, inv)
  BY <1>1
<1>2. e \in Engines /\ c \in Cable
  BY DEF Loaded, Engines
<1> PICK n : n = [c EXCEPT !.route = op.route]  OBVIOUS
<1>3. n \in Cable /\ n.id = c.id
  BY <1>2 DEF Cable
<1> PICK t : t = WithConnection(e, c.id, n)  OBVIOUS
<1>4. Loaded(t) /\ reply \in CommitTopology(e, t, <<p>>, inv)
  BY <1>1, <1>3, ReplacedLoaded
<1>5. PartOK(p) /\ p.kind # "derived"
  BY DEF PartOK, Parts, RoutePatch
<1>6. Answers(e, reply.engine) /\ reply.forward = <<p>>
  BY <1>2, <1>4, CommitType
<1> QED BY <1>5, <1>6, OnePart

(* The commands on several routes.                                         *)
LEMMA RouteBatchType ==
  ASSUME NEW e, Loaded(e), Builds(e), NEW new, \A c \in e.conns : new[c] \in RouteValues,
         NEW reply \in RouteBatch(e, new)
  PROVE  ReplyOK(e, reply)
<1> DEFINE S == {c \in e.conns : new[c] # c.route}
           order == InIdOrder(S)
           fw == [i \in DOMAIN order |-> RoutePatch(order[i].id, new[order[i]])]
           R(c) == [c EXCEPT !.route = new[c]]
           rr == [c \in e.conns |-> R(c)]
<1>1. \A c \in e.conns : rr[c] = R(c)
  OBVIOUS
<1>2. {R(c) : c \in e.conns} = Mapped(rr, e.conns)
  <2> HIDE DEF R, rr
  <2> QED BY <1>1 DEF Mapped
<1>3. PICK inv : reply \in CommitTopology(e, [e EXCEPT !.conns = {R(c) : c \in e.conns}], fw, inv)
  BY DEF RouteBatch
<1>4. order # <<>>
  BY DEF RouteBatch
<1>5. ASSUME NEW c \in e.conns PROVE rr[c] \in Cable /\ rr[c].id = c.id
  <2>1. c \in Cable /\ rr[c] = R(c) /\ new[c] \in RouteValues
    BY DEF Loaded, Engines
  <2> QED BY <2>1 DEF Cable
<1>6. S \subseteq e.conns
  OBVIOUS
<1>7. fw = [i \in DOMAIN order |-> RoutePatch(order[i].id, new[order[i]])]
  OBVIOUS
<1> HIDE DEF R, rr, S, order, fw
<1> PICK t : t = [e EXCEPT !.conns = Mapped(rr, e.conns)]  OBVIOUS
<1>8. Loaded(t) /\ reply \in CommitTopology(e, t, fw, inv) /\ e \in Engines
  BY <1>2, <1>3, <1>5, MappedLoaded DEF Loaded
<1>9. Answers(e, reply.engine) /\ reply.forward = fw
  BY <1>8, CommitType
<1>10. UniqueIds(S) /\ e.next \in Nat /\ \A c \in S : c.id \in 1..e.next
  <2>1. e.next \in Nat
    BY DEF Loaded, Engines
  <2>2. \A c \in e.conns : c.id \in Nat \ {0} /\ c.id < e.next
    BY DEF Loaded, Engines, Cable
  <2>3. \A c \in S : c.id \in 1..e.next
    BY <1>6, <2>1, <2>2
  <2>4. UniqueIds(S)
    BY <1>6 DEF UniqueIds, Builds
  <2> QED BY <2>1, <2>3, <2>4
<1> PICK n : n = Cardinality(S)  OBVIOUS
<1>11. n \in Nat /\ order \in [1..n -> S]
  BY <1>10, InIdOrderFacts DEF order
<1>12. n # 0
  <2> SUFFICES ASSUME n = 0 PROVE FALSE
    OBVIOUS
  <2>1. DOMAIN order = {} /\ order = [i \in DOMAIN order |-> order[i]]
    BY <1>11
  <2>2. order = <<>>
    BY <2>1
  <2> QED BY <1>4, <2>2
<1>13. fw = [k \in 1..n |-> fw[k]] /\ \A i \in 1..n : fw[i] = RoutePatch(order[i].id, new[order[i]])
  BY <1>7, <1>11
<1>14. ASSUME NEW i \in 1..n PROVE PartOK(fw[i]) /\ fw[i].kind # "derived"
  <2>1. new[order[i]] \in RouteValues
    BY <1>6, <1>11
  <2> PICK p : p = fw[i]  OBVIOUS
  <2>2. p.kind = "route" /\ p.route \in RouteValues
    BY <1>13, <2>1 DEF RoutePatch
  <2>3. PartOK(p)
    BY <2>2 DEF PartOK, Parts
  <2> QED BY <2>2, <2>3
<1>15. PatchOK(fw, n)
  BY <1>13, <1>14 DEF PatchOK
<1>16. 1 \in 1..n /\ n \in Nat \ {0}
  BY <1>11, <1>12
<1> QED BY <1>9, <1>14, <1>15, <1>16 DEF ReplyOK

(* UpdateProjectMetadata.                                                  *)
LEMMA NameType ==
  ASSUME NEW e, Loaded(e), NEW op, op.name \in Labels \cup {0},
         NEW reply \in UpdateProjectMetadata(e, op)
  PROVE  ReplyOK(e, reply)
<1> PICK p : p = [kind |-> "name", name |-> op.name]  OBVIOUS
<1> PICK inv : inv = <<[kind |-> "name", name |-> e.name]>>  OBVIOUS
<1> PICK t : t = [e EXCEPT !.name = op.name]  OBVIOUS
<1>1. reply \in CommitTopology(e, t, <<p>>, inv)
  BY DEF UpdateProjectMetadata
<1>2. e \in Engines /\ Loaded(t)
  BY DEF Loaded, Engines
<1>3. PartOK(p) /\ p.kind # "derived"
  BY DEF PartOK, Parts
<1>4. Answers(e, reply.engine) /\ reply.forward = <<p>>
  BY <1>1, <1>2, CommitType
<1> QED BY <1>3, <1>4, OnePart

(* update_assignments.                                                     *)
LEMMA AssignType ==
  ASSUME NEW e, Loaded(e), NEW op, \A ch \in op.changes : ch.next \in Assignments \cup {NoAssignment},
         NEW reply \in UpdateAssignments(e, op)
  PROVE  ReplyOK(e, reply)
<1>1. PICK C : C = {ch \in op.changes : ch.prev # ch.next}  OBVIOUS
<1>2. PICK old, new : old = {ch.prev : ch \in C} /\ new = {ch.next : ch \in C}  OBVIOUS
<1>3. PICK p : p = AssignmentPatch(old, new)  OBVIOUS
<1>4. PICK S : S = (e.assigned \ old) \cup (new \ {NoAssignment})  OBVIOUS
<1>5. PICK t : t = [e EXCEPT !.assigned = S]  OBVIOUS
<1>6. PICK inv : reply \in CommitTopology(e, t, <<p>>, inv)
  BY <1>1, <1>2, <1>3, <1>4, <1>5 DEF UpdateAssignments
<1>7. e \in Engines /\ e.assigned \in SUBSET Assignments
  BY DEF Loaded, Engines
<1>8. new \ {NoAssignment} \in SUBSET Assignments
  BY <1>1, <1>2
<1>9. S \in SUBSET Assignments
  BY <1>4, <1>7, <1>8
<1>10. Loaded(t)
  BY <1>5, <1>9 DEF Loaded, Engines
<1>11. PartOK(p) /\ p.kind # "derived"
  <2>1. p.kind = "assignments" /\ p.upsert = new \ {NoAssignment}
    BY <1>3 DEF AssignmentPatch
  <2> QED BY <1>8, <2>1 DEF PartOK, Parts
<1>12. Answers(e, reply.engine) /\ reply.forward = <<p>>
  BY <1>6, <1>7, <1>10, CommitType
<1> QED BY <1>11, <1>12, OnePart

(* update_placements.                                                      *)
LEMMA PlaceType ==
  ASSUME NEW e, Loaded(e), NEW op,
         \A ch \in op.changes : ch.next # 0 => ch.item \in Items /\ ch.next \in Positions,
         NEW reply \in UpdatePlacements(e, op)
  PROVE  ReplyOK(e, reply)
<1> PICK changes : changes = {ch \in op.changes : ch.prev # ch.next}  OBVIOUS
<1> PICK p : p = PlacementPatch(changes)  OBVIOUS
<1> PICK pl : pl = (e.placed \cup {u.item : u \in p.upsert}) \ p.remove  OBVIOUS
<1> PICK t : t = [e EXCEPT !.placed = pl]  OBVIOUS
<1>1. PICK inv : reply \in CommitTopology(e, t, <<p>>, inv)
  BY DEF UpdatePlacements
<1>2. e \in Engines /\ e.placed \in SUBSET Items
  BY DEF Loaded, Engines
<1>3. /\ p.kind = "placements"
      /\ p.upsert = {[item |-> ch.item, x |-> ch.next] : ch \in {c \in changes : c.next # 0}}
  BY DEF PlacementPatch
<1>4. \A u \in p.upsert : u.item \in Items /\ u.x \in Positions
  BY <1>3
<1>5. pl \in SUBSET Items
  BY <1>2, <1>4
<1>6. Loaded(t)
  BY <1>5 DEF Loaded, Engines
<1>7. PartOK(p) /\ p.kind # "derived"
  BY <1>3, <1>4 DEF PartOK, Parts
<1>8. Answers(e, reply.engine) /\ reply.forward = <<p>>
  BY <1>1, <1>2, <1>6, CommitType
<1> QED BY <1>7, <1>8, OnePart

(* Engine::dispatch answers with an engine that builds and a patch.        *)
LEMMA DispatchType ==
  ASSUME NEW e, Loaded(e), Builds(e), NEW op, Typed(op), NEW reply \in Dispatch(e, op)
  PROVE  ReplyOK(e, reply)
<1>1. e.rev # MaxRevision /\ e \in Engines
  BY DEF Dispatch, Loaded
<1>2. CASE op.kind = "create"
  <2>1. reply \in CreateConnection(e, op)
    BY <1>1, <1>2 DEF Dispatch
  <2> QED BY <1>2, <2>1, CreateType DEF Typed
<1>3. CASE op.kind = "remove"
  <2>1. reply \in RemoveConnection(e, op)
    BY <1>1, <1>3 DEF Dispatch
  <2> QED BY <2>1, RemoveType
<1>4. CASE op.kind = "label"
  <2>1. reply \in UpdateConnectionLabel(e, op)
    BY <1>1, <1>4 DEF Dispatch
  <2> QED BY <1>4, <2>1, LabelType DEF Typed
<1>5. CASE op.kind = "route"
  <2>1. reply \in UpdateConnectionRoute(e, op)
    BY <1>1, <1>5 DEF Dispatch
  <2> QED BY <1>5, <2>1, RouteType DEF Typed
<1>6. CASE op.kind = "sides"
  <2>1. reply \in ResolveConnectionRouteSides(e, op)
    BY <1>1, <1>6 DEF Dispatch
  <2>2. RouteReply(e, reply)
    BY <1>1, <1>6, <2>1, SidesRoutes DEF Typed
  <2> QED BY <2>2, RouteBatchType DEF RouteReply
<1>7. CASE op.kind = "canonical"
  <2>1. reply \in CanonicalizeConnectionRoutes(e, op)
    BY <1>1, <1>7 DEF Dispatch
  <2>2. RouteReply(e, reply)
    BY <1>1, <1>7, <2>1, CanonicalRoutes DEF Typed
  <2> QED BY <2>2, RouteBatchType DEF RouteReply
<1>8. CASE op.kind = "reset"
  <2>1. reply \in ResetAllConnectionBends(e, op)
    BY <1>1, <1>8 DEF Dispatch
  <2>2. RouteReply(e, reply)
    BY <1>1, <2>1, ResetRoutes
  <2> QED BY <2>2, RouteBatchType DEF RouteReply
<1>9. CASE op.kind = "automatic"
  <2>1. reply \in RestoreAutomaticConnectionRoutes(e, op)
    BY <1>1, <1>9 DEF Dispatch
  <2>2. RouteReply(e, reply)
    BY <1>1, <2>1, AutomaticRoutes
  <2> QED BY <2>2, RouteBatchType DEF RouteReply
<1>10. CASE op.kind = "name"
  <2>1. reply \in UpdateProjectMetadata(e, op)
    BY <1>1, <1>10 DEF Dispatch
  <2> QED BY <1>10, <2>1, NameType DEF Typed
<1>11. CASE op.kind = "assign"
  <2>1. reply \in UpdateAssignments(e, op)
    BY <1>1, <1>11 DEF Dispatch
  <2> QED BY <1>11, <2>1, AssignType DEF Typed
<1>12. CASE op.kind = "place"
  <2>1. reply \in UpdatePlacements(e, op)
    BY <1>1, <1>12 DEF Dispatch
  <2> QED BY <1>12, <2>1, PlaceType DEF Typed
<1>13. CASE op.kind = "snap"
  <2>1. reply \in SnapPlacementsToGrid(e, op)
    BY <1>1, <1>13 DEF Dispatch
  <2> DEFINE nodes == {i \in Items : op.nodes[i] # 0}
             all == [changes |-> {[item |-> i, prev |-> op.nodes[i], next |-> op.planned] : i \in nodes}]
  <2>2. reply \in UpdatePlacements(e, all)
    BY <2>1 DEF SnapPlacementsToGrid
  <2>3. \A ch \in all.changes : ch.next # 0 => ch.item \in Items /\ ch.next \in Positions
    BY <1>13 DEF Typed
  <2> HIDE DEF all
  <2> QED BY <2>2, <2>3, PlaceType
<1> QED BY <1>2, <1>3, <1>4, <1>5, <1>6, <1>7, <1>8, <1>9, <1>10, <1>11, <1>12, <1>13
           DEF Typed, Kinds

-----------------------------------------------------------------------------
(* Replayed commands *)

(* A command rebuilt from a patch carries what the patch does.             *)
LEMMA ReplayTyped ==
  ASSUME NEW fw, NEW n \in Nat \ {0}, PatchOK(fw, n), fw[1].kind # "derived",
         Len(fw) = n, NEW inv, OperationFor(fw, inv) # NoOperation
  PROVE  Typed(OperationFor(fw, inv))
<1> PICK p, q : p = Head(fw) /\ q = Last(inv)  OBVIOUS
<1>1. p = fw[1] /\ PartOK(p) /\ p.kind # "derived"
  BY DEF PatchOK
<1> PICK op : op = OperationFor(fw, inv)  OBVIOUS
<1>2. CASE n > 1 /\ \A i \in 1..n : fw[i].kind = "route"
  <2> PICK chs : chs = {[id |-> fw[i].id, expected |-> inv[n + 1 - i].route.bends,
                         bends |-> fw[i].route.bends] : i \in 1..n}
    OBVIOUS
  <2>1. op = [kind |-> "canonical", changes |-> chs]
    BY <1>2 DEF OperationFor
  <2>2. \A i \in 1..n : fw[i].route.bends \in Bends \cup {0}
    BY <1>2 DEF PatchOK, PartOK, RouteValues
  <2>3. \A ch \in chs : ch.bends \in Bends \cup {0}
    BY <2>2
  <2>4. op.kind = "canonical" /\ op.changes = chs
    BY <2>1
  <2> QED BY <2>3, <2>4 DEF Typed, Kinds
<1>3. CASE ~(n > 1 /\ \A i \in 1..n : fw[i].kind = "route")
  <2>1. CASE p.kind \in {"name", "label", "route"}
    <3>1. op = p
      BY <1>3, <2>1 DEF OperationFor
    <3> QED BY <1>1, <2>1, <3>1 DEF Typed, Kinds, PartOK
  <2>2. CASE p.kind = "add"
    <3>1. op = [kind |-> "create", from |-> p.conn.from, to |-> p.conn.to]
      BY <1>3, <2>2 DEF OperationFor
    <3>2. p.conn.from \in Refs /\ p.conn.to \in Refs
      BY <1>1, <2>2 DEF PartOK, Cable
    <3>3. op.kind = "create" /\ op.from \in Refs /\ op.to \in Refs
      BY <3>1, <3>2
    <3> QED BY <3>3 DEF Typed, Kinds
  <2>3. CASE p.kind = "remove"
    <3>1. op.kind = "remove"
      BY <1>3, <2>3 DEF OperationFor
    <3> QED BY <3>1 DEF Typed, Kinds
  <2>4. CASE p.kind = "assignments"
    <3> DEFINE assignment(all, id) ==
                 IF \E a \in all : a.id = id THEN CHOOSE a \in all : a.id = id ELSE NoAssignment
               ids == {a.id : a \in p.upsert \cup q.upsert} \cup p.remove \cup q.remove
    <3> PICK chs : chs = {[prev |-> assignment(q.upsert, id), next |-> assignment(p.upsert, id)] : id \in ids}
      OBVIOUS
    <3>1. op = [kind |-> "assign", changes |-> chs]
      BY <1>3, <2>4 DEF OperationFor
    <3>2. ASSUME NEW id PROVE assignment(p.upsert, id) \in Assignments \cup {NoAssignment}
      <4>1. CASE \E a \in p.upsert : a.id = id
        <5>1. (CHOOSE a \in p.upsert : a.id = id) \in p.upsert
          BY <4>1, Zenon
        <5> QED BY <1>1, <2>4, <4>1, <5>1 DEF PartOK
      <4> QED BY <4>1
    <3> HIDE DEF assignment, ids
    <3>3. \A ch \in chs : ch.next \in Assignments \cup {NoAssignment}
      BY <3>2
    <3>4. op.kind = "assign" /\ op.changes = chs
      BY <3>1
    <3> QED BY <3>3, <3>4 DEF Typed, Kinds
  <2>5. CASE p.kind = "placements"
    <3> DEFINE position(all, i) ==
                 IF \E u \in all : u.item = i THEN (CHOOSE u \in all : u.item = i).x ELSE 0
               items == {u.item : u \in p.upsert \cup q.upsert} \cup p.remove \cup q.remove
    <3> PICK chs : chs = {[item |-> i, prev |-> position(q.upsert, i),
                           next |-> position(p.upsert, i)] : i \in items}
      OBVIOUS
    <3>1. op = [kind |-> "place", changes |-> chs]
      BY <1>3, <2>5 DEF OperationFor
    <3>2. ASSUME NEW i, position(p.upsert, i) # 0
          PROVE  i \in Items /\ position(p.upsert, i) \in Positions
      <4>1. \E u \in p.upsert : u.item = i
        BY <3>2
      <4>2. (CHOOSE u \in p.upsert : u.item = i) \in p.upsert /\ (CHOOSE u \in p.upsert : u.item = i).item = i
        BY <4>1, Zenon
      <4> QED BY <1>1, <2>5, <3>2, <4>1, <4>2 DEF PartOK
    <3> HIDE DEF position, items
    <3>3. \A ch \in chs : ch.next # 0 => ch.item \in Items /\ ch.next \in Positions
      BY <3>2
    <3>4. op.kind = "place" /\ op.changes = chs
      BY <3>1
    <3> QED BY <3>3, <3>4 DEF Typed, Kinds
  <2> QED BY <1>1, <2>1, <2>2, <2>3, <2>4, <2>5 DEF PartOK, Parts
<1> QED BY <1>2, <1>3

(* A patch is a sequence.                                                  *)
LEMMA PatchLength ==
  ASSUME NEW s, NEW n \in Nat, PatchOK(s, n)
  PROVE  Len(s) = n
<1> PICK S : S = {s[k] : k \in 1..n}  OBVIOUS
<1>1. s = [k \in 1..n |-> s[k]]
  BY DEF PatchOK
<1>2. s \in [1..n -> S]
  BY <1>1
<1>3. s \in Seq(S) /\ DOMAIN s = 1..n
  BY <1>2
<1> QED BY <1>3

(* The operations of a browser have their types.                           *)
LEMMA OperationsTyped ==
  ASSUME OneProject, NEW op \in Operations
  PROVE  Typed(op)
<1>1. OperationOK(op)
  BY OperationsOK DEF OneProject
<1> QED BY <1>1 DEF OperationOK, Typed, ChangesOK

(* The types of what a browser holds.                                      *)
BrowserOK ==
  /\ Loaded(worker) /\ Builds(worker) /\ worker.rev = db.rev
  /\ view \in Views /\ view.rev \in 1..MaxRevision
  /\ behind \in BOOLEAN

SharedOK == others \in 0..MaxOthers /\ taken \subseteq 1..db.seq

(* The engine of the server, and one loaded from rows.                     *)
LEMMA AgreeLoaded ==
  ASSUME NEW e, NEW d, Agree(e, d)
  PROVE  Loaded(e) /\ Builds(e) /\ Loaded(EngineOf(d)) /\ Builds(EngineOf(d)) /\ EngineOf(d).rev = d.rev
<1>1. Agree(EngineOf(d), d)
  BY Reloaded
<1> QED BY <1>1 DEF Agree, Loaded, EngineOf

(* A project loaded from rows.                                             *)
LEMMA ProjectType ==
  ASSUME NEW d \in Rows
  PROVE  ProjectOf(d) \in Views /\ ProjectOf(d).rev = d.rev
  BY DEF ProjectOf, Rows, Views

(* The sequence of the table does not go back.                             *)
LEMMA SequenceGrows ==
  ASSUME OneProject, NEW op \in Operations, NEW reply \in Dispatch(engine, op),
         NEW saved \in ApplyEnginePatch(db, reply)
  PROVE  saved.seq >= db.seq /\ db.seq \in Nat /\ saved.seq \in Nat
<1>1. Agree(engine, db) /\ OperationOK(op)
  BY OperationsOK DEF OneProject
<1>2. PICK x \in Store(db, reply.forward) : saved = [x EXCEPT !.rev = reply.engine.rev]
  BY DEF ApplyEnginePatch, Store
<1> PICK e, d : e = engine /\ d = db  OBVIOUS
<1>3. Stores(e, d, reply, x)
  BY <1>1, <1>2, DispatchStores
<1>4. x.seq >= d.seq /\ x \in Rows /\ d \in Rows
  BY <1>1, <1>3 DEF Stores, Agree, RowsOK
<1>5. saved.seq = x.seq
  BY <1>2, <1>4 DEF Rows
<1>6. x.seq \in Nat /\ d.seq \in Nat
  BY <1>4 DEF Rows
<1> QED BY <1>4, <1>5, <1>6

(* The project on the screen after a committed patch.                      *)
LEMMA PatchedType ==
  ASSUME NEW v \in Views, NEW e, NEW reply, ReplyOK(e, reply), NEW rev \in Nat
  PROVE  PatchView(v, reply.forward, rev) \in Views /\ PatchView(v, reply.forward, rev).rev = rev
<1>1. Show(v, reply.forward) \in Views
  BY ShowType DEF ReplyOK
<1> PICK w \in Views : w = Show(v, reply.forward)
  BY <1>1
<1>2. PatchView(v, reply.forward, rev) = [w EXCEPT !.rev = rev]
  BY DEF PatchView, Show
<1> QED BY <1>2 DEF Views

(* What the worker makes of another browser's command.                     *)
LEMMA ReplayAnswers ==
  ASSUME Loaded(worker), Builds(worker), NEW e, NEW reply, ReplyOK(e, reply),
         NEW mine \in ReplayOf(reply)
  PROVE  Answers(worker, mine.engine)
<1> PICK op : op = OperationFor(reply.forward, reply.inverse)  OBVIOUS
<1>1. op # NoOperation /\ mine \in Dispatch(worker, op)
  BY DEF ReplayOf
<1>2. PICK n \in Nat \ {0} : PatchOK(reply.forward, n) /\ reply.forward[1].kind # "derived"
  BY DEF ReplyOK
<1>3. Len(reply.forward) = n
  BY <1>2, PatchLength
<1>4. Typed(op)
  BY <1>1, <1>2, <1>3, ReplayTyped
<1>5. ReplyOK(worker, mine)
  BY <1>1, <1>4, DispatchType
<1> QED BY <1>5 DEF ReplyOK

(* The types of everything.                                                *)
AllTyped == OneProject /\ BrowserOK /\ SharedOK

(* The command of a browser, answered with a patch.                        *)
LEMMA CommitTyped ==
  ASSUME AllTyped, NEW op \in Operations, NEW reply \in Dispatch(engine, op),
         NEW saved \in ApplyEnginePatch(db, reply), Commits(reply, saved)
  PROVE  /\ ReplyOK(engine, reply) /\ OneProject' /\ SharedOK'
         /\ saved.rev \in 1..MaxRevision /\ saved.rev = engine.rev + 1
         /\ Agree(reply.engine, saved)
<1>1. OneProject /\ SharedOK
  BY DEF AllTyped
<1>2. Kept
  BY <1>1, CommitKeeps
<1>3. OneProject' /\ engine' = reply.engine /\ db' = saved /\ taken' = taken /\ others' = others
  BY <1>2 DEF Kept, Commits
<1>4. Loaded(engine) /\ Builds(engine) /\ Typed(op)
  BY <1>1, AgreeLoaded, OperationsTyped DEF OneProject
<1> PICK e : e = engine  OBVIOUS
<1>5. ReplyOK(e, reply)
  BY <1>4, DispatchType
<1>6. Agree(reply.engine, saved) /\ saved.rev \in 1..MaxRevision /\ reply.engine.rev = saved.rev
  <2>1. Agree(engine', db') /\ db'.rev \in 1..MaxRevision /\ engine'.rev = db'.rev
    BY <1>3 DEF OneProject
  <2> QED BY <1>3, <2>1
<1>7. reply.engine.rev = e.rev + 1
  BY <1>5 DEF ReplyOK, Answers
<1>8. SharedOK'
  <2>1. saved.seq >= db.seq /\ db.seq \in Nat /\ saved.seq \in Nat
    BY <1>1, SequenceGrows
  <2>2. \A i \in taken : i \in 1..saved.seq
    BY <1>1, <2>1 DEF SharedOK
  <2> QED BY <1>1, <1>3, <2>2 DEF SharedOK
<1> QED BY <1>3, <1>5, <1>6, <1>7, <1>8

(* The browser's own command.                                              *)
LEMMA OwnTyped ==
  ASSUME AllTyped, NEW op \in Operations, OwnCommand(op)
  PROVE  AllTyped'
<1>1. OneProject /\ BrowserOK /\ SharedOK
  BY DEF AllTyped
<1>2. PICK mine \in Dispatch(worker, op) :
        \/ \E reply \in Dispatch(engine, op) : \E saved \in ApplyEnginePatch(db, reply) :
             /\ Commits(reply, saved)
             /\ saved.rev = mine.engine.rev
             /\ worker' = mine.engine
             /\ view' = PatchView(view, reply.forward, saved.rev)
             /\ UNCHANGED behind
        \/ /\ Refuses(op) \/ CannotSave(op)
           /\ worker' = EngineOf(db)
           /\ UNCHANGED <<view, behind>>
  BY DEF OwnCommand
<1>3. ReplyOK(worker, mine)
  <2> PICK e : e = worker  OBVIOUS
  <2>1. Loaded(e) /\ Builds(e) /\ Typed(op)
    BY <1>1, OperationsTyped DEF BrowserOK
  <2> QED BY <2>1, DispatchType
<1>4. ASSUME NEW reply \in Dispatch(engine, op), NEW saved \in ApplyEnginePatch(db, reply),
             Commits(reply, saved), saved.rev = mine.engine.rev, worker' = mine.engine,
             view' = PatchView(view, reply.forward, saved.rev), behind' = behind
      PROVE  AllTyped'
  <2>1. ReplyOK(engine, reply) /\ OneProject' /\ SharedOK' /\ saved.rev \in 1..MaxRevision
    BY <1>4, CommitTyped
  <2> PICK v, n : v = PatchView(view, reply.forward, saved.rev) /\ n = saved.rev  OBVIOUS
  <2>2. v \in Views /\ v.rev = n
    <3>1. n \in Nat /\ view \in Views
      BY <1>1, <2>1 DEF BrowserOK
    <3> QED BY <2>1, <3>1, PatchedType
  <2>3. db' = saved
    BY <1>4 DEF Commits
  <2>4. Loaded(mine.engine) /\ Builds(mine.engine)
    BY <1>3 DEF ReplyOK, Answers
  <2>5. view' = v /\ worker' = mine.engine /\ mine.engine.rev = n /\ db'.rev = n /\ behind' = behind
    BY <1>4, <2>3
  <2>6. BrowserOK'
    BY <1>1, <2>1, <2>2, <2>4, <2>5 DEF BrowserOK, Loaded, Builds, AssignedTo
  <2> QED BY <2>1, <2>6 DEF AllTyped
<1>5. CASE (Refuses(op) \/ CannotSave(op)) /\ worker' = EngineOf(db) /\ UNCHANGED <<view, behind>>
  <2>1. OneProject'
    BY <1>1, <1>5, FailureKeeps DEF Kept
  <2>2. db' = db /\ taken' = taken /\ others' = others
    BY <1>5 DEF Refuses, CannotSave
  <2> PICK u : u = EngineOf(db)  OBVIOUS
  <2>3. Loaded(u) /\ Builds(u) /\ u.rev = db.rev
    BY <1>1, AgreeLoaded DEF OneProject
  <2>4. worker' = u /\ view' = view /\ behind' = behind
    BY <1>5
  <2>5. BrowserOK'
    BY <1>1, <2>2, <2>3, <2>4 DEF BrowserOK, Loaded, Builds, AssignedTo
  <2>6. SharedOK'
    BY <1>1, <2>2 DEF SharedOK
  <2> QED BY <2>1, <2>5, <2>6 DEF AllTyped
<1> QED BY <1>2, <1>4, <1>5

(* Another browser's command.                                              *)
LEMMA ForeignTyped ==
  ASSUME AllTyped, NEW op \in Operations, ForeignCommand(op)
  PROVE  AllTyped'
<1>1. OneProject /\ BrowserOK /\ SharedOK
  BY DEF AllTyped
<1>2. ASSUME NEW reply \in Dispatch(engine, op), NEW saved \in ApplyEnginePatch(db, reply),
             Commits(reply, saved), NEW mine \in ReplayOf(reply),
             mine.engine.rev = saved.rev, worker' = mine.engine,
             view' = PatchView(view, reply.forward, saved.rev), behind' = behind
      PROVE  AllTyped'
  <2>1. ReplyOK(engine, reply) /\ OneProject' /\ SharedOK' /\ saved.rev \in 1..MaxRevision
    BY <1>2, CommitTyped
  <2> PICK v, n : v = PatchView(view, reply.forward, saved.rev) /\ n = saved.rev  OBVIOUS
  <2>2. v \in Views /\ v.rev = n
    <3>1. n \in Nat /\ view \in Views
      BY <1>1, <2>1 DEF BrowserOK
    <3> QED BY <2>1, <3>1, PatchedType
  <2>3. db' = saved
    BY <1>2 DEF Commits
  <2>4. Loaded(mine.engine) /\ Builds(mine.engine)
    <3>1. Answers(worker, mine.engine)
      BY <1>1, <2>1, ReplayAnswers DEF BrowserOK
    <3> QED BY <3>1 DEF Answers
  <2>5. view' = v /\ worker' = mine.engine /\ mine.engine.rev = n /\ db'.rev = n /\ behind' = behind
    BY <1>2, <2>3
  <2>6. BrowserOK'
    BY <1>1, <2>1, <2>2, <2>4, <2>5 DEF BrowserOK, Loaded, Builds, AssignedTo
  <2> QED BY <2>1, <2>6 DEF AllTyped
<1>3. ASSUME NEW reply \in Dispatch(engine, op), NEW saved \in ApplyEnginePatch(db, reply),
             Commits(reply, saved), worker' = EngineOf(saved), behind' = TRUE, view' = view
      PROVE  AllTyped'
  <2>1. OneProject' /\ SharedOK' /\ Agree(reply.engine, saved)
    BY <1>3, CommitTyped
  <2>2. db' = saved
    BY <1>3 DEF Commits
  <2> PICK u : u = EngineOf(saved)  OBVIOUS
  <2>3. Loaded(u) /\ Builds(u) /\ u.rev = saved.rev
    BY <2>1, AgreeLoaded
  <2>4. worker' = u /\ view' = view /\ behind' = TRUE
    BY <1>3
  <2>5. BrowserOK'
    BY <1>1, <2>2, <2>3, <2>4 DEF BrowserOK, Loaded, Builds, AssignedTo
  <2> QED BY <2>1, <2>5 DEF AllTyped
<1>4. CASE CannotSave(op) /\ UNCHANGED <<worker, view, behind>>
  <2>1. OneProject'
    BY <1>1, <1>4, FailureKeeps DEF Kept
  <2>2. db' = db /\ taken' = taken /\ others' = others
    BY <1>4 DEF CannotSave
  <2>3. BrowserOK'
    BY <1>1, <1>4, <2>2 DEF BrowserOK, Loaded, Builds, AssignedTo
  <2>4. SharedOK'
    BY <1>1, <2>2 DEF SharedOK
  <2> QED BY <2>1, <2>3, <2>4 DEF AllTyped
<1> QED BY <1>2, <1>3, <1>4 DEF ForeignCommand

(* Every step.                                                             *)
LEMMA AllTypedNext == AllTyped /\ [Next]_vars => AllTyped'
<1> SUFFICES ASSUME AllTyped, [Next]_vars PROVE AllTyped'
  OBVIOUS
<1>1. OneProject /\ BrowserOK /\ SharedOK /\ OneProject'
  BY OneProjectNext DEF AllTyped, Kept
<1>2. CASE Mutate
  BY <1>2, OwnTyped DEF Mutate
<1>3. CASE Follow
  BY <1>3, ForeignTyped DEF Follow
<1>4. CASE RebuildHandle
  <2>1. BrowserOK' /\ SharedOK'
    BY <1>1, <1>4 DEF RebuildHandle, BrowserOK, SharedOK, Loaded, Builds, AssignedTo
  <2> QED BY <1>1, <2>1 DEF AllTyped
<1>5. CASE Reload
  <2> PICK u, v : u = EngineOf(db) /\ v = ProjectOf(db)  OBVIOUS
  <2>1. worker' = u /\ view' = v /\ behind' = FALSE /\ db' = db /\ taken' = taken /\ others' = others
    BY <1>5 DEF Reload
  <2>2. Loaded(u) /\ Builds(u) /\ u.rev = db.rev
    BY <1>1, AgreeLoaded DEF OneProject
  <2>3. v \in Views /\ v.rev = db.rev /\ db.rev \in 1..MaxRevision
    BY <1>1, ProjectType DEF OneProject, Agree, RowsOK
  <2>4. BrowserOK' /\ SharedOK'
    BY <1>1, <2>1, <2>2, <2>3 DEF BrowserOK, SharedOK, Loaded, Builds, AssignedTo
  <2> QED BY <1>1, <2>4 DEF AllTyped
<1>6. CASE OtherProject
  <2>1. db \in Rows
    BY <1>1 DEF OneProject, Agree, RowsOK
  <2>2. db'.rev = db.rev /\ db'.seq = db.seq + 1 /\ db.seq \in Nat
    BY <1>6, <2>1 DEF OtherProject, Rows
  <2>3. BrowserOK'
    BY <1>1, <1>6, <2>2 DEF OtherProject, BrowserOK, Loaded, Builds, AssignedTo
  <2>4. taken' \subseteq 1..(db.seq + 1)
    BY <1>1, <1>6, <2>2 DEF OtherProject, SharedOK
  <2>5. others' \in 0..MaxOthers
    BY <1>1, <1>6, InventoryAssumption DEF OtherProject, SharedOK
  <2> QED BY <1>1, <2>2, <2>3, <2>4, <2>5 DEF AllTyped, SharedOK
<1>7. CASE UNCHANGED vars
  <2>1. BrowserOK' /\ SharedOK'
    BY <1>1, <1>7 DEF vars, BrowserOK, SharedOK, Loaded, Builds, AssignedTo
  <2> QED BY <1>1, <2>1 DEF AllTyped
<1> QED BY <1>2, <1>3, <1>4, <1>5, <1>6, <1>7 DEF Next

(* The first state.                                                        *)
LEMMA AllTypedInit == Init => AllTyped
<1> SUFFICES ASSUME Init PROVE AllTyped
  OBVIOUS
<1>1. OneProject
  BY OneProjectInit
<1>2. worker = EngineOf(db) /\ view = ProjectOf(db) /\ behind = FALSE /\ taken = {} /\ others = 0
  BY DEF Init
<1>3. Loaded(worker) /\ Builds(worker) /\ worker.rev = db.rev
  BY <1>1, <1>2, AgreeLoaded DEF OneProject
<1>4. view \in Views /\ view.rev = db.rev /\ db.rev \in 1..MaxRevision
  BY <1>1, <1>2, ProjectType DEF OneProject, Agree, RowsOK
<1>5. 0 \in 0..MaxOthers
  BY InventoryAssumption
<1> QED BY <1>1, <1>2, <1>3, <1>4, <1>5 DEF AllTyped, BrowserOK, SharedOK

(* TypeOK, for every inventory: what any command, replayed or patched,     *)
(* leaves in the four representations has the types of a project.          *)
THEOREM TypeCorrect == Spec => []TypeOK
<1>1. AllTyped => TypeOK
  <2> SUFFICES ASSUME AllTyped PROVE TypeOK
    OBVIOUS
  <2>1. OneProject /\ BrowserOK /\ SharedOK
    BY DEF AllTyped
  <2>2. /\ engine \in Engines /\ worker \in Engines /\ db \in Rows /\ view \in Views
        /\ SidesStored(db.conns)
        /\ engine.rev \in 1..MaxRevision /\ db.rev \in 1..MaxRevision
        /\ worker.rev \in 1..MaxRevision /\ view.rev \in 1..MaxRevision
    BY <2>1 DEF OneProject, BrowserOK, Agree, RowsOK, Loaded
  <2>3. ASSUME NEW e \in {engine, worker}
        PROVE  /\ e.rev \in 1..MaxRevision /\ e.next \in Nat \ {0} /\ e.name \in Labels \cup {0}
               /\ e.conns \subseteq Cable /\ e.assigned \subseteq Assignments
               /\ e.placed \subseteq Items
    BY <2>2 DEF Engines
  <2>4. ASSUME NEW p \in {db, view}
        PROVE  /\ p.rev \in 1..MaxRevision /\ p.name \in Labels \cup {0}
               /\ p.conns \subseteq Cable /\ p.assigned \subseteq Assignments
               /\ p.places \in [Items -> Positions \cup {0}]
    BY <2>2 DEF Rows, Views
  <2>5. db.seq \in Nat /\ \A c \in db.conns : {c.route.src, c.route.tgt} \subseteq Sides
    BY <2>2 DEF Rows, SidesStored
  <2>6. behind \in BOOLEAN /\ others \in 0..MaxOthers /\ taken \subseteq 1..db.seq /\ issued \subseteq 1..db.seq
    BY <2>1 DEF OneProject, BrowserOK, SharedOK
  <2> QED BY <2>3, <2>4, <2>5, <2>6 DEF TypeOK
<1> QED BY <1>1, AllTypedInit, AllTypedNext, PTL DEF Spec

-----------------------------------------------------------------------------
(* Copies of the cables *)

(* Two copies of a cable, field by field, the sides of the route apart.    *)
SameButRoute(c, r) ==
  /\ c.id = r.id /\ c.type = r.type /\ c.speed = r.speed /\ c.label = r.label
  /\ c.from = r.from /\ c.to = r.to

SameRoute(c, r) == c.route.bends = r.route.bends /\ c.route.avoid = r.route.avoid

(* The cables conns are the rows; only those with an id in D need have the *)
(* route of their row.                                                     *)
Traces(conns, rows, D) ==
  /\ UniqueIds(conns) /\ UniqueIds(rows)
  /\ \A c \in conns : \E r \in rows : r.id = c.id
  /\ \A r \in rows : \E c \in conns : c.id = r.id
  /\ \A c \in conns, r \in rows : c.id = r.id => SameButRoute(c, r)
  /\ \A c \in conns, r \in rows : c.id = r.id /\ c.id \in D => SameRoute(c, r)

IdsOf(rows) == {r.id : r \in rows}

Mirrors(conns, rows) == Traces(conns, rows, IdsOf(rows))

(* A set of cables mirrors itself.                                         *)
LEMMA MirrorsItself ==
  ASSUME NEW rows, UniqueIds(rows), NEW D
  PROVE  Traces(rows, rows, D)
  BY DEF Traces, UniqueIds, SameButRoute, SameRoute

(* What matches the rows mirrors them.                                     *)
LEMMA MatchesMirrors ==
  ASSUME NEW conns, NEW rows, Matches(conns, rows)
  PROVE  Mirrors(conns, rows)
  BY DEF Matches, Copies, Mirrors, IdsOf, Traces, SameButRoute, SameRoute

(* Copies go both ways.                                                    *)
LEMMA MirrorsTurned ==
  ASSUME NEW conns, NEW rows, Mirrors(conns, rows)
  PROVE  Mirrors(rows, conns)
<1>1. \A r \in rows, c \in conns : r.id = c.id => SameButRoute(c, r) /\ SameRoute(c, r)
  BY DEF Mirrors, Traces, IdsOf
<1> QED BY <1>1 DEF Mirrors, Traces, IdsOf, SameButRoute, SameRoute

(* Copies of copies are copies.                                            *)
LEMMA MirrorsMirrored ==
  ASSUME NEW a, NEW b, NEW c, Mirrors(a, b), Mirrors(b, c)
  PROVE  Mirrors(a, c)
<1>1. \A x \in a, y \in b : x.id = y.id => SameButRoute(x, y) /\ SameRoute(x, y)
  BY DEF Mirrors, Traces, IdsOf
<1>2. \A y \in b, z \in c : y.id = z.id => SameButRoute(y, z) /\ SameRoute(y, z)
  BY DEF Mirrors, Traces, IdsOf
<1>3. \A x \in a : \E y \in b : y.id = x.id
  BY DEF Mirrors, Traces, IdsOf
<1>4. \A x \in a, z \in c : x.id = z.id => SameButRoute(x, z) /\ SameRoute(x, z)
  BY <1>1, <1>2, <1>3 DEF SameButRoute, SameRoute
<1> QED BY <1>4 DEF Mirrors, Traces, IdsOf

(* As many cables as rows.                                                 *)
LEMMA MirrorCardinality ==
  ASSUME NEW conns, NEW rows, Mirrors(conns, rows), IsFiniteSet(rows)
  PROVE  Cardinality(conns) = Cardinality(rows)
<1> DEFINE h == [r \in rows |-> CHOOSE c \in conns : c.id = r.id]
<1>0. /\ UniqueIds(conns) /\ UniqueIds(rows)
      /\ \A c \in conns : \E r \in rows : r.id = c.id
      /\ \A r \in rows : \E c \in conns : c.id = r.id
  BY DEF Mirrors, Traces, IdsOf
<1>1. \A r \in rows : h[r] \in conns /\ h[r].id = r.id
  <2> TAKE r \in rows
  <2>1. \E c \in conns : c.id = r.id
    BY <1>0
  <2>2. (CHOOSE c \in conns : c.id = r.id) \in conns /\ (CHOOSE c \in conns : c.id = r.id).id = r.id
    BY <2>1, Zenon
  <2> QED BY <2>2
<1>2. h \in [rows -> conns]
  BY <1>1
<1> HIDE DEF h
<1>3. \A a, b \in rows : h[a] = h[b] => a = b
  BY <1>0, <1>1 DEF UniqueIds
<1>4. \A c \in conns : \E r \in rows : h[r] = c
  BY <1>0, <1>1 DEF UniqueIds
<1>5. h \in Bijection(rows, conns)
  BY <1>2, <1>3, <1>4 DEF Bijection, Injection, IsInjective, Surjection
<1> QED BY <1>5, FS_Bijection DEF ExistsBijection

(* Rows are finitely many.                                                 *)
LEMMA RowsFinite ==
  ASSUME NEW d, RowsOK(d)
  PROVE  IsFiniteSet(d.conns)
<1>1. d.seq \in Nat /\ UniqueIds(d.conns) /\ \A c \in d.conns : c.id \in Nat \ {0} /\ c.id <= d.seq
  BY DEF RowsOK, Rows, Cable
<1> PICK b \in Nat : b = d.seq
  BY <1>1
<1>2. \A c \in d.conns : c.id \in 1..b
  BY <1>1
<1> QED BY <1>1, <1>2, InIdOrderFacts

(* Mirrored rows are the same cables, the sides of routes apart.           *)
LEMMA MirrorsAreSame ==
  ASSUME NEW conns \in SUBSET Cable, NEW d, RowsOK(d), Mirrors(conns, d.conns)
  PROVE  SameCables(conns, d.conns)
<1>1. Cardinality(conns) = Cardinality(d.conns)
  BY RowsFinite, MirrorCardinality
<1>2. ASSUME NEW c \in conns PROVE \E r \in d.conns : SameCable(c, r)
  <2>1. PICK r \in d.conns : r.id = c.id
    BY DEF Mirrors, Traces, IdsOf
  <2>2. c \in Cable /\ r \in Cable /\ SameButRoute(c, r) /\ SameRoute(c, r)
    BY <2>1 DEF Mirrors, Traces, IdsOf, RowsOK, Rows
  <2> PICK w : w = NoRoute  OBVIOUS
  <2>3. [c EXCEPT !.route = w] = [r EXCEPT !.route = w]
    BY <2>2 DEF Cable, SameButRoute
  <2>4. <<c.route.bends, c.route.avoid>> = <<r.route.bends, r.route.avoid>>
    BY <2>2 DEF SameRoute
  <2> QED BY <2>3, <2>4 DEF SameCable
<1> QED BY <1>1, <1>2 DEF SameCables

-----------------------------------------------------------------------------
(* The parts of a patch on the screen *)

(* A patch of one part.                                                    *)
LEMMA ShowOne ==
  ASSUME NEW v, NEW p
  PROVE  Show(v, <<p>>) = ViewPatch(v, p)
<1> PICK s : s = <<p>>  OBVIOUS
<1>1. DOMAIN s = 1..1 /\ s[1] = p
  OBVIOUS
<1>2. PICK run : IsShow(run, v, s, 1) /\ Show(v, s) = run[1]
  <2> PICK n \in Nat : n = 1  OBVIOUS
  <2>1. DOMAIN s = 1..n
    BY <1>1
  <2>2. \E run : IsShow(run, v, s, n) /\ Show(v, s) = run[n]
    BY <2>1, ShowSteps
  <2> QED BY <2>2
<1>3. run[0] = v /\ run[1] = ViewPatch(run[0], s[1])
  BY <1>2 DEF IsShow
<1> QED BY <1>1, <1>2, <1>3

(* A patch of two parts.                                                   *)
LEMMA ShowTwo ==
  ASSUME NEW v, NEW p, NEW q
  PROVE  Show(v, <<p, q>>) = ViewPatch(ViewPatch(v, p), q)
<1>0. PICK s : s = <<p, q>>  OBVIOUS
<1>1. DOMAIN s = 1..2 /\ s[1] = p /\ s[2] = q
  BY <1>0
<1>2. PICK run : IsShow(run, v, s, 2) /\ Show(v, s) = run[2]
  <2> PICK n \in Nat : n = 2  OBVIOUS
  <2>1. DOMAIN s = 1..n
    BY <1>1
  <2>2. \E run : IsShow(run, v, s, n) /\ Show(v, s) = run[n]
    BY <2>1, ShowSteps
  <2> QED BY <2>2
<1>3. run[0] = v /\ run[1] = ViewPatch(run[0], s[1])
  BY <1>2 DEF IsShow
<1>4. run[2] = ViewPatch(run[1], s[2])
  BY <1>2 DEF IsShow
<1> QED BY <1>0, <1>1, <1>2, <1>3, <1>4

(* A cable after a part of a patch that changes cables.                    *)
Changed(p, c) ==
  CASE p.kind = "label" -> IF c.id = p.id THEN [c EXCEPT !.label = p.label] ELSE c
    [] p.kind = "route" -> IF c.id = p.id THEN [c EXCEPT !.route = RuntimeRoute(p.route)] ELSE c
    [] p.kind = "derived" -> IF \E st \in p.states : st.id = c.id
                               THEN LET st == CHOOSE x \in p.states : x.id = c.id
                                    IN [c EXCEPT !.type = st.type, !.speed = st.speed]
                               ELSE c

ChangedAll(p, cs) == {Changed(p, c) : c \in cs}

(* The project v with the cables cs.                                       *)
WithCables(v, cs) == [v EXCEPT !.conns = cs]

(* The fields of such a project.                                           *)
LEMMA WithCablesFields ==
  ASSUME NEW v \in Views, NEW cs
  PROVE  /\ WithCables(v, cs).conns = cs /\ WithCables(v, cs).name = v.name
         /\ WithCables(v, cs).assigned = v.assigned /\ WithCables(v, cs).places = v.places
  BY DEF WithCables, Views

(* It changes each cable on the screen.                                    *)
LEMMA ViewChanges ==
  ASSUME NEW v \in Views, NEW p, p.kind \in {"label", "route", "derived"}
  PROVE  ViewPatch(v, p) = WithCables(v, ChangedAll(p, v.conns))
<1>1. CASE p.kind = "label"
  <2>1. ViewPatch(v, p) = [v EXCEPT !.conns = {IF c.id = p.id THEN [c EXCEPT !.label = p.label] ELSE c : c \in v.conns}]
    BY <1>1 DEF ViewPatch
  <2>2. \A c : Changed(p, c) = IF c.id = p.id THEN [c EXCEPT !.label = p.label] ELSE c
    BY <1>1 DEF Changed
  <2>3. {IF c.id = p.id THEN [c EXCEPT !.label = p.label] ELSE c : c \in v.conns} = {Changed(p, c) : c \in v.conns}
    BY <2>2
  <2> QED BY <2>1, <2>3 DEF WithCables, ChangedAll
<1>2. CASE p.kind = "route"
  <2> PICK w : w = RuntimeRoute(p.route)  OBVIOUS
  <2>1. ViewPatch(v, p) = [v EXCEPT !.conns = {IF c.id = p.id THEN [c EXCEPT !.route = w] ELSE c : c \in v.conns}]
    BY <1>2 DEF ViewPatch
  <2>2. \A c : Changed(p, c) = IF c.id = p.id THEN [c EXCEPT !.route = w] ELSE c
    BY <1>2 DEF Changed
  <2>3. {IF c.id = p.id THEN [c EXCEPT !.route = w] ELSE c : c \in v.conns} = {Changed(p, c) : c \in v.conns}
    BY <2>2
  <2> QED BY <2>1, <2>3 DEF WithCables, ChangedAll
<1>3. CASE p.kind = "derived"
  <2>1. ViewPatch(v, p) = [v EXCEPT !.conns = PatchDerived(v.conns, p)]
    BY <1>3 DEF ViewPatch
  <2> DEFINE k(c) == IF \E st \in p.states : st.id = c.id
                       THEN LET st == CHOOSE x \in p.states : x.id = c.id
                            IN [c EXCEPT !.type = st.type, !.speed = st.speed]
                       ELSE c
  <2>2. \A c : Changed(p, c) = k(c)
    BY <1>3 DEF Changed
  <2>3. PatchDerived(v.conns, p) = {k(c) : c \in v.conns}
    BY DEF PatchDerived
  <2> HIDE DEF k
  <2>4. {k(c) : c \in v.conns} = {Changed(p, c) : c \in v.conns}
    BY <2>2
  <2> QED BY <2>1, <2>3, <2>4 DEF WithCables, ChangedAll
<1> QED BY <1>1, <1>2, <1>3

(* A changed route: the row that the patch names may have another route.   *)
LEMMA RouteChanged ==
  ASSUME NEW cs \in SUBSET Cable, NEW rows \in SUBSET Cable, NEW D, Traces(cs, rows, D),
         NEW p, p.kind = "route", p.route \in RouteValues
  PROVE  /\ Traces(ChangedAll(p, cs), rows, D \ {p.id})
         /\ (\E r \in rows : r.id = p.id /\ r.route.bends = p.route.bends /\ r.route.avoid = p.route.avoid)
              => Traces(ChangedAll(p, cs), rows, D \cup {p.id})
<1> PICK w \in RouteValues : w = RuntimeRoute(p.route) /\ w.bends = p.route.bends /\ w.avoid = p.route.avoid
  BY RuntimeRouteType
<1>1. \A c : Changed(p, c) = IF c.id = p.id THEN [c EXCEPT !.route = w] ELSE c
  BY DEF Changed
<1>2. ASSUME NEW c \in cs
      PROVE  /\ SameButRoute(Changed(p, c), c)
             /\ c.id # p.id => Changed(p, c) = c
             /\ c.id = p.id => Changed(p, c).route = w
  <2>1. c \in Cable
    OBVIOUS
  <2> QED BY <1>1, <2>1 DEF Cable, SameButRoute
<1> DEFINE new == ChangedAll(p, cs)
<1>3. \A x \in new : \E c \in cs : x = Changed(p, c) /\ SameButRoute(x, c)
  BY <1>2 DEF ChangedAll
<1>4. \A c \in cs : Changed(p, c) \in new
  BY DEF ChangedAll
<1> HIDE DEF new
<1>5. UniqueIds(new)
  BY <1>3 DEF UniqueIds, Traces, SameButRoute
<1>6. /\ \A c \in new : \E r \in rows : r.id = c.id
      /\ \A r \in rows : \E c \in new : c.id = r.id
  BY <1>2, <1>3, <1>4 DEF Traces, SameButRoute
<1>7. \A c \in new, r \in rows : c.id = r.id => SameButRoute(c, r)
  BY <1>3 DEF Traces, SameButRoute
<1>8. \A x \in new, r \in rows : x.id = r.id /\ x.id \in D \ {p.id} => SameRoute(x, r)
  <2> SUFFICES ASSUME NEW x \in new, NEW r \in rows, x.id = r.id, x.id \in D, x.id # p.id PROVE SameRoute(x, r)
    OBVIOUS
  <2>1. PICK c \in cs : x = Changed(p, c) /\ SameButRoute(x, c)
    BY <1>3
  <2>2. x = c
    BY <1>2, <2>1 DEF SameButRoute
  <2> QED BY <2>2 DEF Traces
<1>9. ASSUME NEW o \in rows, o.id = p.id, o.route.bends = p.route.bends, o.route.avoid = p.route.avoid
      PROVE  \A x \in new, r \in rows : x.id = r.id /\ x.id \in D \cup {p.id} => SameRoute(x, r)
  <2> SUFFICES ASSUME NEW x \in new, NEW r \in rows, x.id = r.id, x.id = p.id PROVE SameRoute(x, r)
    BY <1>8
  <2>1. PICK c \in cs : x = Changed(p, c) /\ SameButRoute(x, c)
    BY <1>3
  <2>2. x.route = w
    BY <1>2, <2>1 DEF SameButRoute
  <2>3. r = o
    <3>1. UniqueIds(rows) /\ r.id = o.id
      BY <1>9 DEF Traces
    <3> QED BY <3>1 DEF UniqueIds
  <2> QED BY <1>9, <2>2, <2>3 DEF SameRoute
<1>10. UniqueIds(rows)
  BY DEF Traces
<1> QED BY <1>5, <1>6, <1>7, <1>8, <1>9, <1>10 DEF Traces, new

(* The inverse sets the route of the row.                                  *)
LEMMA RouteSet ==
  ASSUME NEW cs \in SUBSET Cable, NEW rows \in SUBSET Cable, NEW D, Traces(cs, rows, D),
         NEW p, p.kind = "route", p.route \in RouteValues,
         \E r \in rows : r.id = p.id /\ r.route.bends = p.route.bends /\ r.route.avoid = p.route.avoid
  PROVE  Traces(ChangedAll(p, cs), rows, D \cup {p.id})
  BY RouteChanged

(* The patch leaves every other route.                                     *)
LEMMA RouteLeft ==
  ASSUME NEW cs \in SUBSET Cable, NEW rows \in SUBSET Cable, NEW D, Traces(cs, rows, D),
         NEW p, p.kind = "route", p.route \in RouteValues
  PROVE  Traces(ChangedAll(p, cs), rows, D \ {p.id})
  BY RouteChanged

-----------------------------------------------------------------------------
(* Inverse patches *)

(* The engine e and the project v on a screen are one project.             *)
Facing(e, v) ==
  /\ Loaded(e) /\ Builds(e) /\ v \in Views
  /\ Mirrors(e.conns, v.conns)
  /\ e.name = v.name /\ e.assigned = v.assigned /\ e.placed = Placed(v.places)

(* The project back is v, the sides of routes apart.                       *)
IsBack(back, v) ==
  /\ back.name = v.name /\ back.assigned = v.assigned /\ back.places = v.places
  /\ back \in Views /\ Mirrors(back.conns, v.conns)

Undone(v, fw, inv) == IsBack(Show(Show(v, fw), inv), v)

(* A patch of one part and its inverse.                                    *)
LEMMA UndoneOne ==
  ASSUME NEW v, NEW p, NEW q, IsBack(ViewPatch(ViewPatch(v, p), q), v)
  PROVE  Undone(v, <<p>>, <<q>>)
<1>1. Show(v, <<p>>) = ViewPatch(v, p)
  BY ShowOne
<1> PICK w : w = ViewPatch(v, p)  OBVIOUS
<1>2. Show(w, <<q>>) = ViewPatch(w, q)
  BY ShowOne
<1> QED BY <1>1, <1>2 DEF Undone

(* UpdateProjectMetadata.                                                  *)
LEMMA NameUndone ==
  ASSUME NEW e, NEW v, Facing(e, v), NEW op, op.name \in Labels \cup {0},
         NEW reply \in UpdateProjectMetadata(e, op)
  PROVE  Undone(v, reply.forward, reply.inverse)
<1> PICK p, q : p = [kind |-> "name", name |-> op.name] /\ q = [kind |-> "name", name |-> e.name]  OBVIOUS
<1>1. reply.forward = <<p>> /\ reply.inverse = <<q>>
  BY DEF UpdateProjectMetadata, CommitTopology
<1>2. v \in Views /\ e.name = v.name /\ UniqueIds(v.conns)
  BY DEF Facing, Mirrors, Traces
<1> PICK w : w = ViewPatch(v, p)  OBVIOUS
<1>3. w = [v EXCEPT !.name = op.name]
  BY DEF ViewPatch
<1>4. ViewPatch(w, q) = [w EXCEPT !.name = v.name]
  BY <1>2 DEF ViewPatch
<1> PICK b : b = ViewPatch(w, q)  OBVIOUS
<1>5. /\ b.name = v.name /\ b.assigned = v.assigned /\ b.places = v.places /\ b.conns = v.conns
      /\ b \in Views
  BY <1>2, <1>3, <1>4 DEF Views
<1>6. Mirrors(v.conns, v.conns)
  BY <1>2, MirrorsItself DEF Mirrors
<1>7. IsBack(b, v)
  BY <1>5, <1>6 DEF IsBack
<1> QED BY <1>1, <1>7, UndoneOne

(* Two changes of the cables, one after the other.                         *)
LEMMA ChangedTwice ==
  ASSUME NEW v \in Views, NEW p, NEW q, PartOK(p), PartOK(q),
         p.kind \in {"label", "route", "derived"}, q.kind \in {"label", "route", "derived"},
         NEW cs, cs = ChangedAll(p, v.conns),
         NEW back, back = ChangedAll(q, cs), Mirrors(back, v.conns)
  PROVE  IsBack(ViewPatch(ViewPatch(v, p), q), v)
<1> PICK w : w = ViewPatch(v, p)  OBVIOUS
<1>1. w = WithCables(v, cs) /\ w \in Views
  BY ViewChanges, ViewPatchType
<1>2. w.conns = cs /\ w.name = v.name /\ w.assigned = v.assigned /\ w.places = v.places
  BY <1>1, WithCablesFields
<1> PICK b : b = ViewPatch(w, q)  OBVIOUS
<1>3. b = WithCables(w, back) /\ b \in Views
  BY <1>1, <1>2, ViewChanges, ViewPatchType
<1>4. b.conns = back /\ b.name = w.name /\ b.assigned = w.assigned /\ b.places = w.places
  BY <1>1, <1>3, WithCablesFields
<1> QED BY <1>2, <1>3, <1>4 DEF IsBack

(* update_connection_label.                                                *)
LEMMA LabelUndone ==
  ASSUME NEW e, NEW v, Facing(e, v), NEW op, op.label \in Labels \cup {0},
         NEW reply \in UpdateConnectionLabel(e, op)
  PROVE  Undone(v, reply.forward, reply.inverse)
<1>0. v \in Views /\ e \in Engines /\ Mirrors(e.conns, v.conns) /\ UniqueIds(v.conns)
  BY DEF Facing, Loaded, Mirrors, Traces
<1>1. PICK c \in e.conns :
         /\ c.id = op.id
         /\ reply \in CommitTopology(e, WithConnection(e, op.id, [c EXCEPT !.label = op.label]),
                        <<[kind |-> "label", id |-> op.id, label |-> op.label]>>,
                        <<[kind |-> "label", id |-> op.id, label |-> c.label]>>)
  BY DEF UpdateConnectionLabel
<1> PICK p, q : /\ p = [kind |-> "label", id |-> op.id, label |-> op.label]
                /\ q = [kind |-> "label", id |-> op.id, label |-> c.label]
  OBVIOUS
<1>2. reply.forward = <<p>> /\ reply.inverse = <<q>>
  BY <1>1 DEF CommitTopology
<1>3. p.kind = "label" /\ q.kind = "label" /\ p.id = op.id /\ q.id = op.id /\ p.label = op.label /\ q.label = c.label
  OBVIOUS
<1>4. PartOK(p) /\ PartOK(q)
  <2>1. c.label \in Labels \cup {0}
    BY <1>0 DEF Engines, Cable
  <2> QED BY <1>3, <2>1 DEF PartOK, Parts
<1>5. ASSUME NEW r \in v.conns PROVE Changed(q, Changed(p, r)) = r
  <2>1. \A x : /\ Changed(p, x) = IF x.id = op.id THEN [x EXCEPT !.label = op.label] ELSE x
               /\ Changed(q, x) = IF x.id = op.id THEN [x EXCEPT !.label = c.label] ELSE x
    BY <1>3 DEF Changed
  <2>2. CASE r.id = op.id
    <3>1. r.label = c.label /\ r \in Cable
      BY <1>0, <1>1, <2>2 DEF Mirrors, Traces, SameButRoute, Views
    <3> PICK x : x = [r EXCEPT !.label = op.label]  OBVIOUS
    <3>2. Changed(p, r) = x /\ x.id = op.id
      BY <2>1, <2>2, <3>1 DEF Cable
    <3>3. Changed(q, x) = [x EXCEPT !.label = c.label]
      BY <2>1, <3>2
    <3>4. [x EXCEPT !.label = c.label] = r
      BY <3>1 DEF Cable
    <3> QED BY <3>2, <3>3, <3>4
  <2>3. CASE r.id # op.id
    BY <2>1, <2>3
  <2> QED BY <2>2, <2>3
<1> PICK cs : cs = ChangedAll(p, v.conns)  OBVIOUS
<1> PICK back : back = ChangedAll(q, cs)  OBVIOUS
<1>6. back = v.conns
  BY <1>5 DEF ChangedAll
<1>7. Mirrors(back, v.conns)
  BY <1>0, <1>6, MirrorsItself DEF Mirrors
<1>8. IsBack(ViewPatch(ViewPatch(v, p), q), v)
  BY <1>0, <1>3, <1>4, <1>7, ChangedTwice
<1> QED BY <1>2, <1>8, UndoneOne

(* update_connection_route.                                                *)
LEMMA RouteUndone ==
  ASSUME NEW e, NEW v, Facing(e, v), NEW op, op.route \in RouteValues,
         NEW reply \in UpdateConnectionRoute(e, op)
  PROVE  Undone(v, reply.forward, reply.inverse)
<1>0. /\ v \in Views /\ e \in Engines /\ Mirrors(e.conns, v.conns) /\ UniqueIds(v.conns)
      /\ v.conns \in SUBSET Cable
  BY DEF Facing, Loaded, Mirrors, Traces, Views
<1>1. PICK c \in e.conns :
         /\ c.id = op.id
         /\ reply \in CommitTopology(e, WithConnection(e, op.id, [c EXCEPT !.route = op.route]),
                        <<RoutePatch(op.id, op.route)>>, <<RoutePatch(op.id, c.route)>>)
  BY DEF UpdateConnectionRoute
<1> PICK p, q : p = RoutePatch(op.id, op.route) /\ q = RoutePatch(op.id, c.route)
  OBVIOUS
<1>2. reply.forward = <<p>> /\ reply.inverse = <<q>>
  BY <1>1 DEF CommitTopology
<1>3. p.kind = "route" /\ q.kind = "route" /\ p.id = op.id /\ q.id = op.id /\ p.route = op.route /\ q.route = c.route
  BY DEF RoutePatch
<1>4. PartOK(p) /\ PartOK(q) /\ p.route \in RouteValues /\ q.route \in RouteValues
  <2>1. c.route \in RouteValues
    BY <1>0 DEF Engines, Cable
  <2> QED BY <1>3, <2>1 DEF PartOK, Parts
<1> PICK rows : rows = v.conns  OBVIOUS
<1> PICK D : D = IdsOf(rows)  OBVIOUS
<1> PICK cs : cs = ChangedAll(p, rows)  OBVIOUS
<1> PICK back : back = ChangedAll(q, cs)  OBVIOUS
<1>5. Traces(cs, rows, D \ {op.id})
  <2>1. Traces(rows, rows, D)
    BY <1>0, MirrorsItself
  <2>2. rows \in SUBSET Cable
    BY <1>0
  <2> QED BY <1>3, <1>4, <2>1, <2>2, RouteLeft
<1>6. cs \in SUBSET Cable
  <2> PICK w : w = ViewPatch(v, p)  OBVIOUS
  <2>1. w = WithCables(v, cs) /\ w \in Views
    BY <1>0, <1>3, <1>4, ViewChanges, ViewPatchType
  <2>2. w.conns = cs
    BY <1>0, <2>1, WithCablesFields
  <2> QED BY <2>1, <2>2 DEF Views
<1>7. PICK o \in rows : o.id = op.id /\ o.route.bends = q.route.bends /\ o.route.avoid = q.route.avoid
  <2>1. PICK o \in rows : o.id = c.id
    BY <1>0 DEF Mirrors, Traces
  <2>2. c.id \in IdsOf(v.conns)
    BY <2>1 DEF IdsOf
  <2>3. SameRoute(c, o)
    BY <1>0, <2>1, <2>2 DEF Mirrors, Traces
  <2> QED BY <1>1, <1>3, <2>1, <2>3 DEF SameRoute
<1> PICK E : E = D \ {op.id}  OBVIOUS
<1>8. Traces(back, rows, E \cup {op.id})
  <2>1. Traces(cs, rows, E) /\ rows \in SUBSET Cable
    BY <1>0, <1>5
  <2>2. \E r \in rows : r.id = q.id /\ r.route.bends = q.route.bends /\ r.route.avoid = q.route.avoid
    BY <1>3, <1>7
  <2> QED BY <1>3, <1>4, <1>6, <2>1, <2>2, RouteSet
<1>9. Mirrors(back, rows)
  BY <1>8 DEF Mirrors, Traces, IdsOf
<1>10. IsBack(ViewPatch(ViewPatch(v, p), q), v)
  BY <1>0, <1>3, <1>4, <1>9, ChangedTwice
<1> QED BY <1>2, <1>10, UndoneOne

(* The ids that the parts of a patch name.                                 *)
Named(s, n) == {s[k].id : k \in 1..n}

SameRest(b, v) == b.name = v.name /\ b.assigned = v.assigned /\ b.places = v.places

(* The part p of a patch sets the route of its row.                        *)
SetsRoute(p, rows) ==
  \E r \in rows : r.id = p.id /\ r.route.bends = p.route.bends /\ r.route.avoid = p.route.avoid

(* One route on the screen.                                                *)
LEMMA RouteShown ==
  ASSUME NEW v \in Views, NEW p, PartOK(p), p.kind = "route"
  PROVE  /\ ViewPatch(v, p) \in Views /\ SameRest(ViewPatch(v, p), v)
         /\ ViewPatch(v, p).conns = ChangedAll(p, v.conns)
<1> PICK w : w = ViewPatch(v, p)  OBVIOUS
<1> PICK cs : cs = ChangedAll(p, v.conns)  OBVIOUS
<1>1. w = WithCables(v, cs) /\ w \in Views
  BY ViewChanges, ViewPatchType
<1>2. w.conns = cs /\ w.name = v.name /\ w.assigned = v.assigned /\ w.places = v.places
  BY <1>1, WithCablesFields
<1> QED BY <1>1, <1>2 DEF SameRest

(* A batch of routes on the screen leaves all other routes.                *)
LEMMA RoutesShown ==
  ASSUME NEW v \in Views, NEW rows \in SUBSET Cable, NEW D, Traces(v.conns, rows, D),
         NEW s, NEW n \in Nat, PatchOK(s, n), \A k \in 1..n : s[k].kind = "route"
  PROVE  /\ Show(v, s) \in Views /\ SameRest(Show(v, s), v)
         /\ Traces(Show(v, s).conns, rows, D \ Named(s, n))
         /\ (\A k \in 1..n : SetsRoute(s[k], rows)) => Traces(Show(v, s).conns, rows, D \cup Named(s, n))
<1>1. DOMAIN s = 1..n
  BY DEF PatchOK
<1>2. PICK run : IsShow(run, v, s, n) /\ Show(v, s) = run[n]
  BY <1>1, ShowSteps
<1> DEFINE P(k) == /\ run[k] \in Views /\ SameRest(run[k], v)
                   /\ Traces(run[k].conns, rows, D \ Named(s, k))
                   /\ (\A j \in 1..n : SetsRoute(s[j], rows)) => Traces(run[k].conns, rows, D \cup Named(s, k))
           N == {k \in Nat : k <= n => P(k)}
<1>3. 0 \in N
  <2>1. Named(s, 0) = {} /\ run[0] = v
    BY <1>2 DEF IsShow, Named
  <2>2. D \ Named(s, 0) = D /\ D \cup Named(s, 0) = D
    BY <2>1
  <2> QED BY <2>1, <2>2 DEF SameRest
<1>4. ASSUME NEW k \in N PROVE k + 1 \in N
  <2> SUFFICES ASSUME k + 1 <= n PROVE P(k + 1)
    OBVIOUS
  <2>1. k \in Nat /\ k + 1 \in 1..n /\ (k + 1) - 1 = k /\ P(k)
    OBVIOUS
  <2> PICK w, y, p : w = run[k] /\ y = run[k + 1] /\ p = s[k + 1]  OBVIOUS
  <2>2. y = ViewPatch(w, p)
    BY <1>2, <2>1 DEF IsShow
  <2>3. PartOK(p) /\ p.kind = "route" /\ p.route \in RouteValues
    BY <2>1 DEF PatchOK, PartOK
  <2> PICK A, B : A = Named(s, k) /\ B = Named(s, k + 1)  OBVIOUS
  <2>4. B = A \cup {p.id}
    <3>1. 1..(k + 1) = (1..k) \cup {k + 1}
      BY <2>1
    <3> QED BY <3>1 DEF Named
  <2>5. w \in Views /\ SameRest(w, v) /\ Traces(w.conns, rows, D \ A)
    BY <2>1
  <2>6. (\A j \in 1..n : SetsRoute(s[j], rows)) => Traces(w.conns, rows, D \cup A)
    BY <2>1
  <2>7. /\ y \in Views /\ SameRest(y, w) /\ y.conns = ChangedAll(p, w.conns)
    BY <2>2, <2>3, <2>5, RouteShown
  <2>8. w.conns \in SUBSET Cable
    BY <2>5 DEF Views
  <2> PICK cs : cs = w.conns  OBVIOUS
  <2> PICK E, F : E = D \ A /\ F = D \cup A  OBVIOUS
  <2>9. Traces(ChangedAll(p, cs), rows, E \ {p.id})
    BY <2>3, <2>5, <2>8, RouteLeft
  <2>10. ASSUME \A j \in 1..n : SetsRoute(s[j], rows)
         PROVE  Traces(ChangedAll(p, cs), rows, F \cup {p.id})
    <3>1. \E r \in rows : r.id = p.id /\ r.route.bends = p.route.bends /\ r.route.avoid = p.route.avoid
      BY <2>1, <2>10 DEF SetsRoute
    <3>2. Traces(cs, rows, F)
      BY <2>6, <2>10
    <3> QED BY <2>3, <2>8, <3>1, <3>2, RouteSet
  <2>11. E \ {p.id} = D \ B /\ F \cup {p.id} = D \cup B
    BY <2>4
  <2>12. SameRest(y, v)
    BY <2>5, <2>7 DEF SameRest
  <2> QED BY <2>7, <2>9, <2>10, <2>11, <2>12
<1>5. N \in SUBSET Nat
  OBVIOUS
<1>6. N = Nat
  <2> HIDE DEF N
  <2> QED BY <1>3, <1>4, <1>5, Induction
<1>7. P(n)
  <2> HIDE DEF P
  <2> QED BY <1>6
<1> QED BY <1>2, <1>7

(* Two patches with the same parts, up to their order.                     *)
SameParts(s, r, n) ==
  /\ \A k \in 1..n : \E j \in 1..n : s[k] = r[j]
  /\ \A j \in 1..n : \E k \in 1..n : s[k] = r[j]

(* The inverse of a batch of routes has the same parts in reverse.         *)
LEMMA ReversedParts ==
  ASSUME NEW s, NEW n \in Nat, PatchOK(s, n)
  PROVE  /\ PatchOK(Reverse(s), n)
         /\ SameParts(Reverse(s), s, n)
<1>1. Len(s) = n
  BY PatchLength
<1> PICK r : r = Reverse(s)  OBVIOUS
<1>2. r = [i \in 1..n |-> s[(n - i) + 1]]
  BY <1>1 DEF Reverse
<1>3. ASSUME NEW k \in 1..n PROVE r[k] = s[(n - k) + 1] /\ (n - k) + 1 \in 1..n
  BY <1>2
<1>4. \A k \in 1..n : \E j \in 1..n : r[k] = s[j]
  BY <1>3
<1>5. ASSUME NEW j \in 1..n PROVE \E k \in 1..n : r[k] = s[j]
  <2>1. (n - j) + 1 \in 1..n /\ (n - ((n - j) + 1)) + 1 = j
    OBVIOUS
  <2> PICK k \in 1..n : k = (n - j) + 1
    BY <2>1
  <2>2. r[k] = s[(n - k) + 1] /\ (n - k) + 1 = j
    BY <1>3, <2>1
  <2> QED BY <2>2
<1>6. r = [k \in 1..n |-> r[k]]
  BY <1>2
<1>7. PatchOK(r, n)
  BY <1>4, <1>6 DEF PatchOK
<1> QED BY <1>4, <1>5, <1>7 DEF SameParts

(* Patches with the same parts, up to their order, name the same ids.      *)
LEMMA SameNames ==
  ASSUME NEW n, NEW inv, NEW bw, NEW fw, \A j \in 1..n : bw[j].id = fw[j].id,
         SameParts(inv, bw, n)
  PROVE  Named(inv, n) = Named(fw, n)
<1>1. \A k \in 1..n : \E j \in 1..n : inv[k].id = fw[j].id
  <2> TAKE k \in 1..n
  <2>1. PICK j \in 1..n : inv[k] = bw[j]
    BY DEF SameParts
  <2> WITNESS j \in 1..n
  <2> QED BY <2>1
<1>2. \A j \in 1..n : \E k \in 1..n : inv[k].id = fw[j].id
  <2> TAKE j \in 1..n
  <2>1. PICK k \in 1..n : inv[k] = bw[j]
    BY DEF SameParts
  <2> WITNESS k \in 1..n
  <2> QED BY <2>1
<1>3. ASSUME NEW x PROVE x \in Named(inv, n) <=> x \in Named(fw, n)
  <2> PICK K : K = 1..n  OBVIOUS
  <2>1. (\A k \in K : \E j \in K : inv[k].id = fw[j].id) /\ (\A j \in K : \E k \in K : inv[k].id = fw[j].id)
    BY <1>1, <1>2
  <2>2. ASSUME NEW k \in K, x = inv[k].id PROVE \E j \in K : x = fw[j].id
    BY <2>1, <2>2
  <2>3. ASSUME NEW j \in K, x = fw[j].id PROVE \E k \in K : x = inv[k].id
    <3>1. PICK k \in K : inv[k].id = fw[j].id
      BY <2>1
    <3> QED BY <2>3, <3>1
  <2> QED BY <2>2, <2>3 DEF Named
<1> QED BY <1>3 DEF Named

(* The commands on several routes.                                         *)
LEMMA BatchUndone ==
  ASSUME NEW e, NEW v, Facing(e, v), NEW new, \A c \in e.conns : new[c] \in RouteValues,
         NEW reply \in RouteBatch(e, new)
  PROVE  Undone(v, reply.forward, reply.inverse)
<1> DEFINE S == {c \in e.conns : new[c] # c.route}
           order == InIdOrder(S)
           fw == [i \in DOMAIN order |-> RoutePatch(order[i].id, new[order[i]])]
           bw == [i \in DOMAIN order |-> RoutePatch(order[i].id, order[i].route)]
           R(c) == [c EXCEPT !.route = new[c]]
<1>1. reply.forward = fw /\ reply.inverse = Reverse(bw)
  <2>1. reply \in CommitTopology(e, [e EXCEPT !.conns = {R(c) : c \in e.conns}], fw, Reverse(bw))
    BY DEF RouteBatch
  <2> HIDE DEF R, fw, bw
  <2> QED BY <2>1 DEF CommitTopology
<1>2. S \subseteq e.conns
  OBVIOUS
<1>3. /\ fw = [i \in DOMAIN order |-> RoutePatch(order[i].id, new[order[i]])]
      /\ bw = [i \in DOMAIN order |-> RoutePatch(order[i].id, order[i].route)]
  OBVIOUS
<1> HIDE DEF R, S, order, fw, bw
<1>4. /\ Loaded(e) /\ Builds(e) /\ v \in Views /\ Mirrors(e.conns, v.conns)
      /\ UniqueIds(v.conns) /\ v.conns \in SUBSET Cable /\ e.conns \in SUBSET Cable
  BY DEF Facing, Mirrors, Traces, Views, Loaded, Engines
<1>5. UniqueIds(S) /\ e.next \in Nat /\ \A c \in S : c.id \in 1..e.next
  <2>1. e.next \in Nat
    BY <1>4 DEF Loaded, Engines
  <2>2. \A c \in e.conns : c.id \in Nat \ {0} /\ c.id < e.next
    BY <1>4 DEF Loaded, Engines, Cable
  <2>3. \A c \in S : c.id \in 1..e.next
    BY <1>2, <2>1, <2>2
  <2>4. UniqueIds(S)
    BY <1>2, <1>4 DEF UniqueIds, Builds
  <2> QED BY <2>1, <2>3, <2>4
<1> PICK n : n = Cardinality(S)  OBVIOUS
<1>6. n \in Nat /\ order \in [1..n -> S]
  BY <1>5, InIdOrderFacts DEF order
<1>7. /\ fw = [k \in 1..n |-> fw[k]] /\ \A i \in 1..n : fw[i] = RoutePatch(order[i].id, new[order[i]])
      /\ bw = [k \in 1..n |-> bw[k]] /\ \A i \in 1..n : bw[i] = RoutePatch(order[i].id, order[i].route)
  BY <1>3, <1>6
<1>8. ASSUME NEW i \in 1..n
      PROVE  /\ fw[i].kind = "route" /\ fw[i].id = order[i].id /\ PartOK(fw[i])
             /\ bw[i].kind = "route" /\ bw[i].id = order[i].id /\ bw[i].route = order[i].route /\ PartOK(bw[i])
             /\ order[i] \in e.conns
  <2>1. order[i] \in e.conns /\ new[order[i]] \in RouteValues /\ order[i].route \in RouteValues
    BY <1>2, <1>4, <1>6 DEF Cable
  <2> PICK p, q : p = fw[i] /\ q = bw[i]  OBVIOUS
  <2>2. p.kind = "route" /\ p.route \in RouteValues /\ p.id = order[i].id
    BY <1>7, <2>1 DEF RoutePatch
  <2>3. q.kind = "route" /\ q.route = order[i].route /\ q.id = order[i].id
    BY <1>7, <2>1 DEF RoutePatch
  <2>4. PartOK(p) /\ PartOK(q)
    BY <2>1, <2>2, <2>3 DEF PartOK, Parts
  <2> QED BY <2>1, <2>2, <2>3, <2>4
<1>9. PatchOK(fw, n) /\ PatchOK(bw, n)
  BY <1>7, <1>8 DEF PatchOK
<1> PICK inv : inv = Reverse(bw)  OBVIOUS
<1>10. PatchOK(inv, n) /\ SameParts(inv, bw, n)
  BY <1>6, <1>9, ReversedParts
<1>11. Named(inv, n) = Named(fw, n)
  <2>1. \A j \in 1..n : bw[j].id = fw[j].id
    BY <1>8
  <2> QED BY <1>10, <2>1, SameNames
<1> PICK rows, D, m : rows = v.conns /\ D = IdsOf(rows) /\ m = Named(fw, n)  OBVIOUS
<1> PICK w : w = Show(v, fw)  OBVIOUS
<1>12. w \in Views /\ SameRest(w, v) /\ Traces(w.conns, rows, D \ m)
  <2>1. Traces(v.conns, rows, D)
    BY <1>4, MirrorsItself
  <2>2. \A k \in 1..n : fw[k].kind = "route"
    BY <1>8
  <2> QED BY <1>4, <1>6, <1>9, <2>1, <2>2, RoutesShown
<1>13. ASSUME NEW k \in 1..n PROVE inv[k].kind = "route" /\ SetsRoute(inv[k], rows)
  <2>1. PICK j \in 1..n : inv[k] = bw[j]
    BY <1>10 DEF SameParts
  <2> PICK c : c = order[j]  OBVIOUS
  <2>2. bw[j].kind = "route" /\ bw[j].id = c.id /\ bw[j].route = c.route /\ c \in e.conns
    BY <1>8
  <2>3. PICK r \in rows : r.id = c.id
    BY <1>4, <2>2 DEF Mirrors, Traces
  <2>4. c.id \in IdsOf(v.conns)
    BY <2>3 DEF IdsOf
  <2>5. SameRoute(c, r)
    BY <1>4, <2>2, <2>3, <2>4 DEF Mirrors, Traces
  <2> QED BY <2>1, <2>2, <2>3, <2>5 DEF SameRoute, SetsRoute
<1> PICK b : b = Show(w, inv)  OBVIOUS
<1> PICK E : E = D \ m  OBVIOUS
<1>14. b \in Views /\ SameRest(b, w) /\ Traces(b.conns, rows, E \cup Named(inv, n))
  <2>1. Traces(w.conns, rows, E) /\ w \in Views /\ rows \in SUBSET Cable
    BY <1>4, <1>12
  <2> QED BY <1>6, <1>10, <1>13, <2>1, RoutesShown
<1>15. Mirrors(b.conns, rows)
  BY <1>11, <1>14 DEF Mirrors, Traces
<1>16. IsBack(b, v)
  BY <1>12, <1>14, <1>15 DEF IsBack, SameRest, Views
<1> QED BY <1>1, <1>16 DEF Undone

(* The ids a patch of assignments removes or sets.                         *)
Touched(p) == p.remove \cup {u.id : u \in p.upsert}

(* They are the ids of all the assignments before and after.               *)
LEMMA TouchedIds ==
  ASSUME NEW old, NEW new, \A a \in old \cup new : a = NoAssignment \/ a.id # 0
  PROVE  /\ Touched(AssignmentPatch(old, new)) = (IdsOf(old) \cup IdsOf(new)) \ {0}
         /\ AssignmentPatch(old, new).kind = "assignments"
         /\ AssignmentPatch(old, new).upsert = new \ {NoAssignment}
<1>1. NoAssignment.id = 0
  BY DEF NoAssignment
<1> PICK p : p = AssignmentPatch(old, new)  OBVIOUS
<1>2. /\ p.kind = "assignments" /\ p.upsert = new \ {NoAssignment}
      /\ p.remove = {a.id : a \in old} \ {a.id : a \in new \cup {NoAssignment}}
  BY DEF AssignmentPatch
<1>3. ASSUME NEW x PROVE x \in Touched(p) <=> x \in (IdsOf(old) \cup IdsOf(new)) \ {0}
  <2>1. ASSUME x \in Touched(p) PROVE x \in (IdsOf(old) \cup IdsOf(new)) \ {0}
    <3>1. CASE x \in p.remove
      BY <1>1, <1>2, <3>1 DEF IdsOf
    <3>2. CASE \E u \in p.upsert : x = u.id
      BY <1>1, <1>2, <3>2 DEF IdsOf
    <3> QED BY <2>1, <3>1, <3>2 DEF Touched
  <2>2. ASSUME x \in IdsOf(new), x # 0 PROVE x \in Touched(p)
    <3>1. PICK a \in new : a.id = x
      BY <2>2 DEF IdsOf
    <3>2. a \in p.upsert
      BY <1>1, <1>2, <2>2, <3>1
    <3> QED BY <3>1, <3>2 DEF Touched
  <2>3. ASSUME x \in IdsOf(old), x # 0, x \notin IdsOf(new) PROVE x \in Touched(p)
    <3>1. x \in {a.id : a \in old}
      BY <2>3 DEF IdsOf
    <3>2. x \notin {a.id : a \in new \cup {NoAssignment}}
      BY <1>1, <2>3 DEF IdsOf
    <3> QED BY <1>2, <3>1, <3>2 DEF Touched
  <2> QED BY <2>1, <2>2, <2>3
<1> QED BY <1>2, <1>3

(* The assignments on a screen after a patch.                              *)
Reassigned(A, p) == {a \in A : a.id \notin Touched(p)} \cup p.upsert

(* A patch of assignments on the screen.                                   *)
LEMMA AssignedShown ==
  ASSUME NEW v \in Views, NEW p, p.kind = "assignments"
  PROVE  /\ ViewPatch(v, p).assigned = Reassigned(v.assigned, p)
         /\ ViewPatch(v, p).name = v.name /\ ViewPatch(v, p).places = v.places
         /\ ViewPatch(v, p).conns = v.conns
<1> PICK S : S = Reassigned(v.assigned, p)  OBVIOUS
<1>1. S = {a \in v.assigned : a.id \notin p.remove \cup {u.id : u \in p.upsert}} \cup p.upsert
  BY DEF Reassigned, Touched
<1>2. ViewPatch(v, p) = [v EXCEPT !.assigned = S]
  BY <1>1 DEF ViewPatch
<1> QED BY <1>2 DEF Views

(* The members of A with an id in K.                                       *)
Among(A, K) == {a \in A : a.id \in K}

(* The assignments before and after the changes C, and their ids.          *)
Before(C) == {ch.prev : ch \in C}
After(C) == {ch.next : ch \in C}
AllIds(C) == (IdsOf(Before(C)) \cup IdsOf(After(C))) \ {0}

(* A change of assignments and its inverse.                                *)
LEMMA ReassignedTwice ==
  ASSUME NEW A, NEW old, NEW new, NEW p, NEW q, NEW K, Touched(p) = K, Touched(q) = K,
         p.upsert = new, q.upsert = old, \A a \in new : a.id \in K, old = Among(A, K)
  PROVE  Reassigned(Reassigned(A, p), q) = A
<1> PICK B : B = Reassigned(A, p)  OBVIOUS
<1>1. B = {a \in A : a.id \notin K} \cup new
  BY DEF Reassigned
<1>2. Reassigned(B, q) = {a \in B : a.id \notin K} \cup old
  BY DEF Reassigned
<1>3. {a \in B : a.id \notin K} = {a \in A : a.id \notin K}
  BY <1>1
<1> QED BY <1>2, <1>3 DEF Among

(* The changes of a command name the assignments that the engine has.      *)
LEMMA ReplacedAssignments ==
  ASSUME NEW A \in SUBSET Assignments, UniqueIds(A), NEW e, e.assigned = A,
         NEW C, ChangesOK(C), \A ch \in C : ch.prev # ch.next,
         \A ch \in C : CurrentAssignment(e, AssignmentId(ch)) = ch.prev,
         NEW old, NEW new, old = Before(C), new = After(C), NEW K, K = AllIds(C)
  PROVE  /\ \A a \in old \cup new : a = NoAssignment \/ a.id # 0
         /\ \A a \in new \ {NoAssignment} : a.id \in K
         /\ old \ {NoAssignment} = Among(A, K)
<1>0. old = {ch.prev : ch \in C} /\ new = {ch.next : ch \in C} /\ K = (IdsOf(old) \cup IdsOf(new)) \ {0}
  BY DEF Before, After, AllIds
<1>1. NoAssignment.id = 0 /\ \A a \in A : a.id # 0 /\ a # NoAssignment
  BY AssignedIds DEF NoAssignment
<1>2. ASSUME NEW id PROVE /\ CurrentAssignment(e, id) \in A \cup {NoAssignment}
                          /\ \A a \in A : a.id = id => CurrentAssignment(e, id) = a
  <2>1. CASE \E a \in e.assigned : a.id = id
    <3> PICK b : b = CHOOSE a \in e.assigned : a.id = id  OBVIOUS
    <3>1. b \in e.assigned /\ b.id = id
      BY <2>1, Zenon
    <3>2. CurrentAssignment(e, id) = b
      BY <2>1 DEF CurrentAssignment
    <3> QED BY <3>1, <3>2 DEF UniqueIds
  <2>2. CASE ~\E a \in e.assigned : a.id = id
    BY <2>2 DEF CurrentAssignment
  <2> QED BY <2>1, <2>2
<1>3. ASSUME NEW ch \in C
      PROVE  /\ ch.next \in Assignments \cup {NoAssignment} /\ ch.prev \in A \cup {NoAssignment}
             /\ ch.next # NoAssignment => AssignmentId(ch) = ch.next.id /\ ch.next.id # 0
             /\ \A a \in A : a.id = AssignmentId(ch) => ch.prev = a
  <2>1. ch.next \in Assignments \cup {NoAssignment}
    BY DEF ChangesOK
  <2>2. CurrentAssignment(e, AssignmentId(ch)) = ch.prev
    OBVIOUS
  <2>3. ch.next # NoAssignment => AssignmentId(ch) = ch.next.id
    BY DEF ChangesOK, AssignmentId
  <2>4. ch.next # NoAssignment => ch.next.id # 0
    BY <2>1, AssignedIds
  <2> QED BY <1>2, <2>1, <2>2, <2>3, <2>4
<1>4. ASSUME NEW a \in old \cup new PROVE a = NoAssignment \/ a.id # 0
  BY <1>0, <1>1, <1>3
<1>5. ASSUME NEW a \in new \ {NoAssignment} PROVE a.id \in K
  BY <1>0, <1>4 DEF IdsOf
<1>6. ASSUME NEW a \in A, a.id \in K PROVE a \in old
  <2>1. PICK ch \in C : a.id = ch.prev.id \/ a.id = ch.next.id
    BY <1>0, <1>6 DEF IdsOf
  <2>2. CASE a.id = ch.prev.id
    <3>1. ch.prev \in A
      BY <1>1, <1>3, <2>2
    <3> QED BY <1>0, <2>2, <3>1 DEF UniqueIds
  <2>3. CASE a.id = ch.next.id
    <3>1. ch.next # NoAssignment
      BY <1>1, <2>3
    <3> QED BY <1>0, <1>3, <2>3, <3>1
  <2> QED BY <2>1, <2>2, <2>3
<1>7. ASSUME NEW a \in old \ {NoAssignment} PROVE a \in A /\ a.id \in K
  <2>1. a \in A
    BY <1>0, <1>3
  <2> QED BY <1>0, <1>1, <2>1 DEF IdsOf
<1>8. old \ {NoAssignment} = Among(A, K)
  BY <1>1, <1>6, <1>7 DEF Among
<1> QED BY <1>4, <1>5, <1>8

(* update_assignments.                                                     *)
LEMMA AssignUndone ==
  ASSUME NEW e, NEW v, Facing(e, v), NEW op, ChangesOK(op.changes),
         NEW reply \in UpdateAssignments(e, op)
  PROVE  Undone(v, reply.forward, reply.inverse)
<1>0. PICK C : C = {ch \in op.changes : ch.prev # ch.next}
  OBVIOUS
<1> PICK old, new, K : old = Before(C) /\ new = After(C) /\ K = AllIds(C)  OBVIOUS
<1> PICK p, q : p = AssignmentPatch(old, new) /\ q = AssignmentPatch(new, old)  OBVIOUS
<1>1. /\ \A ch \in op.changes : CurrentAssignment(e, AssignmentId(ch)) = ch.prev
      /\ \E t : reply \in CommitTopology(e, t, <<p>>, <<q>>)
  BY <1>0 DEF UpdateAssignments, Before, After
<1>2. reply.forward = <<p>> /\ reply.inverse = <<q>>
  BY <1>1 DEF CommitTopology
<1> PICK A : A = e.assigned  OBVIOUS
<1>3. /\ v \in Views /\ v.assigned = A /\ A \in SUBSET Assignments /\ UniqueIds(A)
      /\ UniqueIds(v.conns) /\ v.conns \in SUBSET Cable
  BY DEF Facing, Loaded, Engines, Builds, UniqueIds, Mirrors, Traces, Views
<1>4. ChangesOK(C) /\ \A ch \in C : ch.prev # ch.next /\ CurrentAssignment(e, AssignmentId(ch)) = ch.prev
  <2>1. C \subseteq op.changes /\ \A ch \in C : ch.prev # ch.next
    BY <1>0
  <2>2. ChangesOK(C)
    BY <2>1 DEF ChangesOK
  <2> QED BY <1>1, <2>1, <2>2
<1>5. /\ \A a \in old \cup new : a = NoAssignment \/ a.id # 0
      /\ \A a \in new \ {NoAssignment} : a.id \in K
      /\ old \ {NoAssignment} = Among(A, K)
  BY <1>3, <1>4, ReplacedAssignments
<1>6. Touched(p) = K /\ p.kind = "assignments" /\ p.upsert = new \ {NoAssignment}
  BY <1>5, TouchedIds DEF AllIds
<1>7. Touched(q) = K /\ q.kind = "assignments" /\ q.upsert = old \ {NoAssignment}
  <2>1. \A a \in new \cup old : a = NoAssignment \/ a.id # 0
    BY <1>5
  <2>2. Touched(q) = (IdsOf(new) \cup IdsOf(old)) \ {0} /\ q.kind = "assignments" /\ q.upsert = old \ {NoAssignment}
    BY <2>1, TouchedIds
  <2> QED BY <2>2 DEF AllIds
<1>7a. PICK oldies, news : oldies = old \ {NoAssignment} /\ news = new \ {NoAssignment}
  OBVIOUS
<1>8. Reassigned(Reassigned(A, p), q) = A
  <2>1. p.upsert = news /\ q.upsert = oldies /\ Touched(p) = K /\ Touched(q) = K
    BY <1>6, <1>7, <1>7a
  <2>2. (\A a \in news : a.id \in K) /\ oldies = Among(A, K)
    BY <1>5, <1>7a
  <2> QED BY <2>1, <2>2, ReassignedTwice
<1> PICK w : w = ViewPatch(v, p)  OBVIOUS
<1>9. w.assigned = Reassigned(A, p) /\ w.name = v.name /\ w.places = v.places /\ w.conns = v.conns
  BY <1>3, <1>6, AssignedShown
<1>10. w \in Views
  <2>1. PartOK(p)
    <3>1. new \ {NoAssignment} \subseteq Assignments
      BY <1>4 DEF ChangesOK, After
    <3> QED BY <1>6, <3>1 DEF PartOK, Parts
  <2> QED BY <1>3, <2>1, ViewPatchType
<1> PICK b : b = ViewPatch(w, q)  OBVIOUS
<1>11. b.assigned = Reassigned(w.assigned, q) /\ b.name = w.name /\ b.places = w.places /\ b.conns = w.conns
  BY <1>7, <1>10, AssignedShown
<1>12. IsBack(b, v)
  <2>1. Mirrors(v.conns, v.conns)
    BY <1>3, MirrorsItself DEF Mirrors
  <2>2. PartOK(q)
    <3>1. old \ {NoAssignment} \subseteq Assignments
      BY <1>3, <1>5 DEF Among
    <3> QED BY <1>7, <3>1 DEF PartOK, Parts
  <2>3. b \in Views
    BY <1>10, <2>2, ViewPatchType
  <2> QED BY <1>3, <1>8, <1>9, <1>11, <2>1, <2>3 DEF IsBack
<1> QED BY <1>2, <1>12, UndoneOne

-----------------------------------------------------------------------------
(* Placements *)

(* The changes of a command say where the items are.                       *)
PlacesKnown(changes, places) ==
  /\ \A ch \in changes : /\ ch.item \in Items /\ ch.next \in Positions \cup {0}
                         /\ ch.prev = places[ch.item]
  /\ \A a, b \in changes : a.item = b.item => a = b

(* The parts of a patch that sets places.                                  *)
LEMMA PlacementFacts ==
  ASSUME NEW C, NEW p, p = PlacementPatch(C)
  PROVE  /\ p.kind = "placements"
         /\ \A i : i \in p.remove <=> \E ch \in C : ch.item = i /\ ch.next = 0
         /\ \A u \in p.upsert : \E ch \in C : ch.next # 0 /\ u.item = ch.item /\ u.x = ch.next
         /\ \A ch \in C : ch.next # 0 => \E u \in p.upsert : u.item = ch.item /\ u.x = ch.next
<1>1. p = [kind |-> "placements",
           upsert |-> {[item |-> ch.item, x |-> ch.next] : ch \in {c \in C : c.next # 0}},
           remove |-> {ch.item : ch \in {c \in C : c.next = 0}}]
  BY DEF PlacementPatch
<1>2. p.kind = "placements" /\ p.remove = {ch.item : ch \in {c \in C : c.next = 0}}
  BY <1>1
<1>3. p.upsert = {[item |-> ch.item, x |-> ch.next] : ch \in {c \in C : c.next # 0}}
  BY <1>1
<1>4. \A i : i \in p.remove <=> \E ch \in C : ch.item = i /\ ch.next = 0
  BY <1>2
<1>5. ASSUME NEW u \in p.upsert PROVE \E ch \in C : ch.next # 0 /\ u.item = ch.item /\ u.x = ch.next
  BY <1>3
<1>6. ASSUME NEW ch \in C, ch.next # 0 PROVE \E u \in p.upsert : u.item = ch.item /\ u.x = ch.next
  <2> PICK u : u = [item |-> ch.item, x |-> ch.next]  OBVIOUS
  <2>1. u \in p.upsert
    BY <1>3, <1>6
  <2> QED BY <2>1
<1> QED BY <1>2, <1>4, <1>5, <1>6

(* Where such a patch puts an item.                                        *)
LEMMA PlacedThere ==
  ASSUME NEW C, \A a, b \in C : a.item = b.item => a = b,
         NEW p, p = PlacementPatch(C), NEW f, NEW i \in Items
  PROVE  /\ \A ch \in C : ch.item = i => PatchPlacements(f, p)[i] = ch.next
         /\ (\A ch \in C : ch.item # i) => PatchPlacements(f, p)[i] = f[i]
<1>1. /\ \A k : k \in p.remove <=> \E ch \in C : ch.item = k /\ ch.next = 0
      /\ \A u \in p.upsert : \E ch \in C : ch.next # 0 /\ u.item = ch.item /\ u.x = ch.next
      /\ \A ch \in C : ch.next # 0 => \E u \in p.upsert : u.item = ch.item /\ u.x = ch.next
  BY PlacementFacts
<1>2. PatchPlacements(f, p)[i] = IF i \in p.remove THEN 0
                   ELSE IF \E u \in p.upsert : u.item = i
                     THEN (CHOOSE u \in p.upsert : u.item = i).x
                   ELSE f[i]
  BY DEF PatchPlacements
<1>3. ASSUME NEW ch \in C, ch.item = i PROVE PatchPlacements(f, p)[i] = ch.next
  <2>1. CASE ch.next = 0
    <3>1. i \in p.remove
      BY <1>1, <1>3, <2>1
    <3> QED BY <1>2, <2>1, <3>1
  <2>2. CASE ch.next # 0
    <3>1. i \notin p.remove
      BY <1>1, <1>3, <2>2
    <3>2. \E u \in p.upsert : u.item = i
      BY <1>1, <1>3, <2>2
    <3> PICK u : u = CHOOSE y \in p.upsert : y.item = i  OBVIOUS
    <3>3. u \in p.upsert /\ u.item = i
      BY <3>2, Zenon
    <3>4. PICK c \in C : c.next # 0 /\ u.item = c.item /\ u.x = c.next
      BY <1>1, <3>3
    <3>5. c = ch
      BY <1>3, <3>3, <3>4
    <3>6. PatchPlacements(f, p)[i] = u.x
      BY <1>2, <3>1, <3>2
    <3> QED BY <3>4, <3>5, <3>6
  <2> QED BY <2>1, <2>2
<1>4. ASSUME \A ch \in C : ch.item # i PROVE PatchPlacements(f, p)[i] = f[i]
  <2>1. i \notin p.remove
    BY <1>1, <1>4
  <2>2. ~\E u \in p.upsert : u.item = i
    BY <1>1, <1>4
  <2> QED BY <1>2, <2>1, <2>2
<1> QED BY <1>3, <1>4

(* update_placements.                                                      *)
LEMMA PlaceUndone ==
  ASSUME NEW e, NEW v, Facing(e, v), NEW op, PlacesKnown(op.changes, v.places),
         NEW reply \in UpdatePlacements(e, op)
  PROVE  Undone(v, reply.forward, reply.inverse)
<1> PICK C : C = {ch \in op.changes : ch.prev # ch.next}  OBVIOUS
<1> PICK B : B = {[item |-> ch.item, prev |-> ch.next, next |-> ch.prev] : ch \in C}  OBVIOUS
<1> PICK p, q : p = PlacementPatch(C) /\ q = PlacementPatch(B)  OBVIOUS
<1>1. \E t : reply \in CommitTopology(e, t, <<p>>, <<q>>)
  BY DEF UpdatePlacements
<1>2. reply.forward = <<p>> /\ reply.inverse = <<q>>
  BY <1>1 DEF CommitTopology
<1>3. v \in Views /\ UniqueIds(v.conns) /\ v.conns \in SUBSET Cable /\ v.places \in [Items -> Positions \cup {0}]
  BY DEF Facing, Mirrors, Traces, Views
<1>4. /\ \A a, b \in C : a.item = b.item => a = b
      /\ \A ch \in C : ch.item \in Items /\ ch.prev = v.places[ch.item]
  BY DEF PlacesKnown
<1>5. /\ \A b \in B : \E ch \in C : b.item = ch.item /\ b.next = ch.prev
      /\ \A ch \in C : \E b \in B : b.item = ch.item /\ b.next = ch.prev
  <2>1. ASSUME NEW b \in B PROVE \E ch \in C : b.item = ch.item /\ b.next = ch.prev
    OBVIOUS
  <2>2. ASSUME NEW ch \in C PROVE \E b \in B : b.item = ch.item /\ b.next = ch.prev
    <3> PICK b : b = [item |-> ch.item, prev |-> ch.next, next |-> ch.prev]  OBVIOUS
    <3>1. b \in B
      OBVIOUS
    <3> QED BY <3>1
  <2> QED BY <2>1, <2>2
<1>6. \A a, b \in B : a.item = b.item => a = b
  <2> SUFFICES ASSUME NEW a \in C, NEW b \in C, a.item = b.item PROVE a = b
    OBVIOUS
  <2> QED BY <1>4
<1> PICK f, g, h : f = v.places /\ g = PatchPlacements(f, p) /\ h = PatchPlacements(g, q)  OBVIOUS
<1>7. ASSUME NEW i \in Items PROVE h[i] = f[i]
  <2>1. CASE \E ch \in C : ch.item = i
    <3>1. PICK ch \in C : ch.item = i
      BY <2>1
    <3>2. PICK b \in B : b.item = i /\ b.next = ch.prev
      BY <1>5, <3>1
    <3>3. h[i] = b.next
      BY <1>6, <3>2, PlacedThere
    <3> QED BY <1>4, <3>1, <3>2, <3>3
  <2>2. CASE \A ch \in C : ch.item # i
    <3>1. g[i] = f[i]
      BY <1>4, <2>2, PlacedThere
    <3>2. \A b \in B : b.item # i
      BY <1>5, <2>2
    <3>3. h[i] = g[i]
      BY <1>6, <3>2, PlacedThere
    <3> QED BY <3>1, <3>3
  <2> QED BY <2>1, <2>2
<1>8. h = f
  <2>1. h = [i \in Items |-> h[i]] /\ f = [i \in Items |-> f[i]]
    BY <1>3 DEF PatchPlacements
  <2> QED BY <1>7, <2>1
<1>9. p.kind = "placements" /\ q.kind = "placements"
  BY PlacementFacts
<1> PICK w : w = ViewPatch(v, p)  OBVIOUS
<1>10. w = [v EXCEPT !.places = g]
  BY <1>9 DEF ViewPatch
<1>11. w.places = g /\ w.name = v.name /\ w.assigned = v.assigned /\ w.conns = v.conns
  BY <1>3, <1>10 DEF Views
<1> PICK b : b = ViewPatch(w, q)  OBVIOUS
<1>12. b = [w EXCEPT !.places = h]
  BY <1>9, <1>11 DEF ViewPatch
<1>13. b.places = h /\ b.name = w.name /\ b.assigned = w.assigned /\ b.conns = w.conns
  BY <1>3, <1>10, <1>12 DEF Views
<1>14. IsBack(b, v)
  <2>1. Mirrors(v.conns, v.conns)
    BY <1>3, MirrorsItself DEF Mirrors
  <2>2. b \in Views
    BY <1>3, <1>8, <1>10, <1>12 DEF Views
  <2> QED BY <1>3, <1>8, <1>11, <1>13, <2>1, <2>2 DEF IsBack
<1> QED BY <1>2, <1>14, UndoneOne

-----------------------------------------------------------------------------
(* Derived states *)

(* The cables of a whose derived state is another one in b.                *)
Differing(b, a) ==
  {c \in a.conns : \E d \in b.conns : d.id = c.id /\ <<d.type, d.speed>> # <<c.type, c.speed>>}

StatesOf(cs) == {[id |-> c.id, type |-> c.type, speed |-> c.speed] : c \in cs}

(* connection_derived_changes as a part of a patch, be there any or none.  *)
DerivedPart(b, a) == [kind |-> "derived", states |-> StatesOf(Differing(b, a))]

(* The cable r with the derived state of c.                                *)
LikeState(r, c) == [r EXCEPT !.type = c.type, !.speed = c.speed]

(* A state set and set back.                                               *)
LEMMA StateBack ==
  ASSUME NEW r \in Cable, NEW c, NEW d, c.type = r.type, c.speed = r.speed
  PROVE  LikeState(LikeState(r, d), c) = r
<1> PICK F : F = DOMAIN r  OBVIOUS
<1>1. r = [k \in F |-> r[k]]
  BY DEF Cable
<1> PICK x : x = LikeState(r, d)  OBVIOUS
<1>2. x = [k \in F |-> IF k = "speed" THEN d.speed ELSE IF k = "type" THEN d.type ELSE r[k]]
  BY <1>1 DEF LikeState
<1>3. "speed" \in F /\ "type" \in F /\ r["speed"] = r.speed /\ r["type"] = r.type
  BY DEF Cable
<1>4. LikeState(x, c) = [k \in F |-> IF k = "speed" THEN c.speed ELSE IF k = "type" THEN c.type ELSE x[k]]
  BY <1>2 DEF LikeState
<1>5. \A k \in F : LikeState(x, c)[k] = r[k]
  BY <1>2, <1>3, <1>4
<1> QED BY <1>1, <1>4, <1>5

(* What such a part does to one cable.                                     *)
LEMMA DerivedPartFacts ==
  ASSUME NEW b, NEW a, UniqueIds(a.conns), NEW p, p = DerivedPart(b, a), NEW r
  PROVE  /\ p.kind = "derived"
         /\ \A c \in Differing(b, a) : c.id = r.id => Changed(p, r) = LikeState(r, c)
         /\ (\A c \in Differing(b, a) : c.id # r.id) => Changed(p, r) = r
<1> PICK cs : cs = Differing(b, a)  OBVIOUS
<1>1. p.kind = "derived" /\ p.states = StatesOf(cs) /\ UniqueIds(cs)
  BY DEF DerivedPart, Differing, UniqueIds
<1>2. \A st \in p.states : \E c \in cs : st.id = c.id /\ st.type = c.type /\ st.speed = c.speed
  BY <1>1 DEF StatesOf
<1>3. ASSUME NEW c \in cs PROVE \E st \in p.states : st.id = c.id
  <2> PICK st : st = [id |-> c.id, type |-> c.type, speed |-> c.speed]  OBVIOUS
  <2>1. st \in p.states
    BY <1>1 DEF StatesOf
  <2> QED BY <2>1
<1> PICK st : st = CHOOSE x \in p.states : x.id = r.id  OBVIOUS
<1>4. Changed(p, r) = IF \E x \in p.states : x.id = r.id
                        THEN [r EXCEPT !.type = st.type, !.speed = st.speed] ELSE r
  BY <1>1 DEF Changed
<1>5. ASSUME NEW c \in cs, c.id = r.id PROVE Changed(p, r) = LikeState(r, c)
  <2>1. \E x \in p.states : x.id = r.id
    BY <1>3, <1>5
  <2>2. st \in p.states /\ st.id = r.id
    BY <2>1, Zenon
  <2>3. PICK d \in cs : st.id = d.id /\ st.type = d.type /\ st.speed = d.speed
    BY <1>2, <2>2
  <2>4. d = c
    BY <1>1, <1>5, <2>2, <2>3 DEF UniqueIds
  <2>5. Changed(p, r) = [r EXCEPT !.type = st.type, !.speed = st.speed]
    BY <1>4, <2>1
  <2> QED BY <2>3, <2>4, <2>5 DEF LikeState
<1>6. ASSUME \A c \in cs : c.id # r.id PROVE Changed(p, r) = r
  <2>1. ~\E x \in p.states : x.id = r.id
    BY <1>2, <1>6
  <2> QED BY <1>4, <2>1
<1> QED BY <1>1, <1>5, <1>6

(* The part of a patch keeps ids.                                          *)
LEMMA DerivedKeepsId ==
  ASSUME NEW b, NEW a, UniqueIds(a.conns), NEW r \in Cable
  PROVE  Changed(DerivedPart(b, a), r).id = r.id
<1> PICK p : p = DerivedPart(b, a)  OBVIOUS
<1>1. CASE \E c \in Differing(b, a) : c.id = r.id
  <2> PICK c \in Differing(b, a) : c.id = r.id
    BY <1>1
  <2>1. Changed(p, r) = LikeState(r, c)
    BY DerivedPartFacts
  <2>2. LikeState(r, c).id = r.id
    BY DEF LikeState, Cable
  <2> QED BY <2>1, <2>2
<1>2. CASE \A c \in Differing(b, a) : c.id # r.id
  <2>1. Changed(p, r) = r
    BY <1>2, DerivedPartFacts
  <2> QED BY <2>1
<1> QED BY <1>1, <1>2

(* From b to a and back: a cable with the state it has in b keeps it.      *)
LEMMA DerivedBack ==
  ASSUME NEW b, NEW a, UniqueIds(a.conns), UniqueIds(b.conns), NEW r \in Cable,
         NEW c \in b.conns, c.id = r.id, c.type = r.type, c.speed = r.speed
  PROVE  Changed(DerivedPart(a, b), Changed(DerivedPart(b, a), r)) = r
<1> PICK p, q : p = DerivedPart(b, a) /\ q = DerivedPart(a, b)  OBVIOUS
<1>1. CASE \E d \in a.conns : d.id = r.id /\ <<d.type, d.speed>> # <<c.type, c.speed>>
  <2>1. PICK d \in a.conns : d.id = r.id /\ <<d.type, d.speed>> # <<c.type, c.speed>>
    BY <1>1
  <2>2. d \in Differing(b, a) /\ c \in Differing(a, b)
    BY <2>1 DEF Differing
  <2> PICK x : x = LikeState(r, d)  OBVIOUS
  <2>3. Changed(p, r) = x
    BY <2>1, <2>2, DerivedPartFacts
  <2>4. x.id = r.id
    BY DEF LikeState, Cable
  <2>5. Changed(q, x) = LikeState(x, c)
    BY <2>2, <2>4, DerivedPartFacts
  <2>6. LikeState(x, c) = r
    BY StateBack
  <2> QED BY <2>3, <2>5, <2>6
<1>2. CASE \A d \in a.conns : d.id = r.id => <<d.type, d.speed>> = <<c.type, c.speed>>
  <2>1. \A d \in Differing(b, a) : d.id # r.id
    BY <1>2 DEF Differing, UniqueIds
  <2>2. \A d \in Differing(a, b) : d.id # r.id
    <3> SUFFICES ASSUME NEW d \in Differing(a, b), d.id = r.id PROVE FALSE
      OBVIOUS
    <3>1. d = c
      BY DEF Differing, UniqueIds
    <3> QED BY <1>2, <3>1 DEF Differing
  <2>3. Changed(p, r) = r
    BY <2>1, DerivedPartFacts
  <2>4. Changed(q, r) = r
    BY <2>2, DerivedPartFacts
  <2> QED BY <2>3, <2>4
<1> QED BY <1>1, <1>2

(* The derived patch is this part, or nothing when it changes nothing.     *)
LEMMA DerivedPatchIs ==
  ASSUME NEW b, NEW a, UniqueIds(a.conns)
  PROVE  \/ DerivedPatch(b, a) = <<DerivedPart(b, a)>>
         \/ DerivedPatch(b, a) = <<>> /\ \A r : Changed(DerivedPart(b, a), r) = r
<1> PICK cs : cs = Differing(b, a)  OBVIOUS
<1>1. DerivedPatch(b, a) = IF cs = {} THEN <<>> ELSE <<[kind |-> "derived", states |-> StatesOf(cs)]>>
  BY DEF DerivedPatch, Differing, StatesOf
<1>2. CASE cs = {}
  <2>1. \A r : \A c \in Differing(b, a) : c.id # r.id
    BY <1>2
  <2>2. \A r : Changed(DerivedPart(b, a), r) = r
    BY <2>1, DerivedPartFacts
  <2> QED BY <1>1, <1>2, <2>2
<1>3. CASE cs # {}
  BY <1>1, <1>3 DEF DerivedPart
<1> QED BY <1>2, <1>3

(* The part has the types of a part.                                       *)
LEMMA DerivedPartOK ==
  ASSUME NEW b, NEW a \in Engines
  PROVE  PartOK(DerivedPart(b, a)) /\ DerivedPart(b, a).kind = "derived"
<1> PICK p, cs : p = DerivedPart(b, a) /\ cs = Differing(b, a)  OBVIOUS
<1>1. p.kind = "derived" /\ p.states = StatesOf(cs)
  BY DEF DerivedPart
<1>2. cs \subseteq Cable
  BY DEF Differing, Engines
<1>3. \A st \in p.states : \E c \in cs : st.type = c.type /\ st.speed = c.speed
  BY <1>1 DEF StatesOf
<1>4. \A st \in p.states : st.type \in Types /\ st.speed \in Nat
  BY <1>2, <1>3 DEF Cable, Types
<1> QED BY <1>1, <1>4 DEF PartOK, Parts

(* The project v with the cables of v as the derived states of a are.      *)
Restated(v, b, a) == WithCables(v, ChangedAll(DerivedPart(b, a), v.conns))

(* It is a project.                                                        *)
LEMMA RestatedFacts ==
  ASSUME NEW v \in Views, NEW b, NEW a \in Engines
  PROVE  /\ Restated(v, b, a) \in Views /\ SameRest(Restated(v, b, a), v)
         /\ Restated(v, b, a).conns = ChangedAll(DerivedPart(b, a), v.conns)
         /\ ViewPatch(v, DerivedPart(b, a)) = Restated(v, b, a)
<1> PICK p, cs : p = DerivedPart(b, a) /\ cs = ChangedAll(p, v.conns)  OBVIOUS
<1>1. PartOK(p) /\ p.kind = "derived"
  BY DerivedPartOK
<1> PICK w : w = ViewPatch(v, p)  OBVIOUS
<1>2. w = WithCables(v, cs) /\ w \in Views
  BY <1>1, ViewChanges, ViewPatchType
<1>3. w.conns = cs /\ w.name = v.name /\ w.assigned = v.assigned /\ w.places = v.places
  BY <1>2, WithCablesFields
<1>4. w = Restated(v, b, a)
  BY <1>2 DEF Restated
<1> QED BY <1>2, <1>3, <1>4 DEF SameRest

(* Cables that no part changes.                                            *)
LEMMA RestatedNot ==
  ASSUME NEW v \in Views, NEW b, NEW a, \A r : Changed(DerivedPart(b, a), r) = r
  PROVE  Restated(v, b, a) = v
<1> PICK p, cs : p = DerivedPart(b, a) /\ cs = v.conns  OBVIOUS
<1>1. ChangedAll(p, cs) = cs
  BY DEF ChangedAll
<1>2. Restated(v, b, a) = WithCables(v, cs)
  BY <1>1 DEF Restated
<1> QED BY <1>2 DEF WithCables, Views

Batched(x, b, a) == <<x>> \o DerivedPatch(b, a)
Unbatched(x, a, b) == DerivedPatch(a, b) \o <<x>>

(* A batch on the screen.                                                  *)
LEMMA BatchedShown ==
  ASSUME NEW v \in Views, NEW x, PartOK(x), NEW b, NEW a \in Engines, UniqueIds(a.conns)
  PROVE  Show(v, Batched(x, b, a)) = Restated(ViewPatch(v, x), b, a)
<1> PICK w, p : w = ViewPatch(v, x) /\ p = DerivedPart(b, a)  OBVIOUS
<1>1. w \in Views
  BY ViewPatchType
<1>2. CASE DerivedPatch(b, a) = <<p>>
  <2>1. Batched(x, b, a) = <<x, p>>
    BY <1>2, TwoParts DEF Batched
  <2>2. Show(v, <<x, p>>) = ViewPatch(w, p)
    BY ShowTwo
  <2>3. ViewPatch(w, p) = Restated(w, b, a)
    BY <1>1, RestatedFacts
  <2> QED BY <2>1, <2>2, <2>3
<1>3. CASE DerivedPatch(b, a) = <<>> /\ \A r : Changed(p, r) = r
  <2>1. Batched(x, b, a) = <<x>>
    <3>1. <<x>> \o <<>> = <<x>>
      OBVIOUS
    <3> QED BY <1>3, <3>1 DEF Batched
  <2>2. Show(v, <<x>>) = w
    BY ShowOne
  <2>3. Restated(w, b, a) = w
    BY <1>1, <1>3, RestatedNot
  <2> QED BY <2>1, <2>2, <2>3
<1> QED BY <1>2, <1>3, DerivedPatchIs

(* Its inverse on the screen.                                              *)
LEMMA UnbatchedShown ==
  ASSUME NEW v \in Views, NEW x, NEW b, NEW a \in Engines, UniqueIds(a.conns)
  PROVE  Show(v, Unbatched(x, b, a)) = ViewPatch(Restated(v, b, a), x)
<1> PICK w, p : w = Restated(v, b, a) /\ p = DerivedPart(b, a)  OBVIOUS
<1>2. CASE DerivedPatch(b, a) = <<p>>
  <2>1. Unbatched(x, b, a) = <<p, x>>
    BY <1>2, TwoParts DEF Unbatched
  <2>2. Show(v, <<p, x>>) = ViewPatch(ViewPatch(v, p), x)
    BY ShowTwo
  <2>3. ViewPatch(v, p) = w
    BY RestatedFacts
  <2> QED BY <2>1, <2>2, <2>3
<1>3. CASE DerivedPatch(b, a) = <<>> /\ \A r : Changed(p, r) = r
  <2>1. Unbatched(x, b, a) = <<x>>
    <3>1. <<>> \o <<x>> = <<x>>
      OBVIOUS
    <3> QED BY <1>3, <3>1 DEF Unbatched
  <2>2. w = v
    BY <1>3, RestatedNot
  <2>3. Show(v, <<x>>) = ViewPatch(v, x)
    BY ShowOne
  <2> QED BY <2>1, <2>2, <2>3
<1> QED BY <1>2, <1>3, DerivedPatchIs

-----------------------------------------------------------------------------
(* Connections made and removed *)

(* The cables rows have the derived states they have in b.                 *)
StatesKnown(rows, b) ==
  \A r \in rows : \E c \in b.conns : c.id = r.id /\ c.type = r.type /\ c.speed = r.speed

Without(cs, id) == {c \in cs : c.id # id}

(* Every cable of cs is in rows or has the id of one of the others.        *)
KeptOrOther(cs, rows, all) == \A c \in cs : c \in rows \/ \E r \in all \ rows : c.id = r.id

(* A project with its derived states set and set back.                     *)
LEMMA RestatedTwice ==
  ASSUME NEW v \in Views, NEW a \in Engines, NEW b \in Engines,
         UniqueIds(a.conns), UniqueIds(b.conns), NEW rows, rows \subseteq v.conns,
         StatesKnown(rows, b),
         NEW w, w = Restated(Restated(v, b, a), a, b)
  PROVE  /\ w \in Views /\ SameRest(w, v)
         /\ rows \subseteq w.conns
         /\ KeptOrOther(w.conns, rows, v.conns)
<1> PICK p, q : p = DerivedPart(b, a) /\ q = DerivedPart(a, b)  OBVIOUS
<1> PICK u : u = Restated(v, b, a)  OBVIOUS
<1>1. u \in Views /\ SameRest(u, v) /\ u.conns = ChangedAll(p, v.conns)
  BY RestatedFacts
<1>2. w \in Views /\ SameRest(w, u) /\ w.conns = ChangedAll(q, u.conns)
  BY <1>1, RestatedFacts
<1>3. v.conns \subseteq Cable /\ u.conns \subseteq Cable
  BY <1>1 DEF Views
<1>4. ASSUME NEW r \in rows PROVE Changed(q, Changed(p, r)) = r
  <2>1. PICK c \in b.conns : c.id = r.id /\ c.type = r.type /\ c.speed = r.speed
    BY DEF StatesKnown
  <2>2. r \in Cable
    BY <1>3
  <2> QED BY <2>1, <2>2, DerivedBack
<1>5. ASSUME NEW r \in rows PROVE r \in w.conns
  <2>1. Changed(p, r) \in u.conns
    BY <1>1 DEF ChangedAll
  <2>2. Changed(q, Changed(p, r)) \in w.conns
    BY <1>2, <2>1 DEF ChangedAll
  <2> QED BY <1>4, <2>2
<1>6. ASSUME NEW c \in w.conns PROVE c \in rows \/ \E r \in v.conns \ rows : c.id = r.id
  <2>1. PICK y \in u.conns : c = Changed(q, y)
    BY <1>2 DEF ChangedAll
  <2>2. PICK r \in v.conns : y = Changed(p, r)
    BY <1>1 DEF ChangedAll
  <2>3. CASE r \in rows
    BY <1>4, <2>1, <2>2, <2>3
  <2>4. CASE r \notin rows
    <3>1. y.id = r.id
      BY <1>3, <2>2, DerivedKeepsId
    <3>2. c.id = y.id
      BY <1>3, <2>1, DerivedKeepsId
    <3> QED BY <2>4, <3>1, <3>2
  <2> QED BY <2>3, <2>4
<1>7. SameRest(w, v)
  BY <1>1, <1>2 DEF SameRest
<1> QED BY <1>2, <1>5, <1>6, <1>7 DEF KeptOrOther

AddPart(n) == [kind |-> "add", conn |-> n]
RemovePart(n) == [kind |-> "remove", conn |-> n]

(* The screen with a connection more.                                      *)
LEMMA AddShown ==
  ASSUME NEW v \in Views, NEW n \in Cable
  PROVE  /\ ViewPatch(v, AddPart(n)) \in Views /\ SameRest(ViewPatch(v, AddPart(n)), v)
         /\ PartOK(AddPart(n))
         /\ \E m \in Cable : /\ ViewPatch(v, AddPart(n)).conns = v.conns \cup {m}
                             /\ SameButRoute(m, n) /\ SameRoute(m, n)
<1> PICK p : p = AddPart(n)  OBVIOUS
<1>1. p.kind = "add" /\ p.conn = n
  BY DEF AddPart
<1>2. PartOK(p)
  BY <1>1 DEF PartOK, Parts
<1>3. n.route \in RouteValues
  BY DEF Cable
<1>4. PICK w \in RouteValues : w = RuntimeRoute(n.route) /\ w.bends = n.route.bends /\ w.avoid = n.route.avoid
  BY <1>3, RuntimeRouteType
<1> PICK m : m = [n EXCEPT !.route = w]  OBVIOUS
<1>5. m \in Cable /\ m.id = n.id /\ m.type = n.type /\ m.speed = n.speed /\ m.label = n.label
      /\ m.from = n.from /\ m.to = n.to /\ m.route = w
  BY DEF Cable
<1> PICK cs : cs = v.conns \cup {m}  OBVIOUS
<1>6. ViewPatch(v, p) = WithCables(v, cs)
  BY <1>1, <1>4 DEF ViewPatch, WithCables
<1>7. ViewPatch(v, p) \in Views
  BY <1>2, ViewPatchType
<1>8. ViewPatch(v, p).conns = cs /\ SameRest(ViewPatch(v, p), v)
  BY <1>6, WithCablesFields DEF SameRest
<1>9. SameButRoute(m, n) /\ SameRoute(m, n)
  BY <1>4, <1>5 DEF SameButRoute, SameRoute
<1> QED BY <1>2, <1>5, <1>7, <1>8, <1>9

(* The screen with a connection less.                                      *)
LEMMA RemoveShown ==
  ASSUME NEW v \in Views, NEW n
  PROVE  /\ ViewPatch(v, RemovePart(n)) \in Views /\ SameRest(ViewPatch(v, RemovePart(n)), v)
         /\ PartOK(RemovePart(n))
         /\ ViewPatch(v, RemovePart(n)).conns = Without(v.conns, n.id)
<1> PICK p : p = RemovePart(n)  OBVIOUS
<1>1. p.kind = "remove" /\ p.conn = n
  BY DEF RemovePart
<1>2. PartOK(p)
  BY <1>1 DEF PartOK, Parts
<1> PICK cs : cs = Without(v.conns, n.id)  OBVIOUS
<1>3. ViewPatch(v, p) = WithCables(v, cs)
  BY <1>1 DEF ViewPatch, WithCables, Without
<1>4. ViewPatch(v, p) \in Views
  BY <1>2, ViewPatchType
<1>5. ViewPatch(v, p).conns = cs /\ SameRest(ViewPatch(v, p), v)
  BY <1>3, WithCablesFields DEF SameRest
<1> QED BY <1>2, <1>4, <1>5

(* The patches of create_connection.                                       *)
LEMMA CreatePatches ==
  ASSUME NEW e, Loaded(e), UniqueIds(e.conns), NEW op, op.from \in Refs, op.to \in Refs,
         NEW reply \in CreateConnection(e, op)
  PROVE  \E t \in Engines, n \in Cable :
           /\ n.id = e.next /\ UniqueIds(t.conns)
           /\ n.from = NewConnection(e, op).from /\ n.to = NewConnection(e, op).to
           /\ reply.forward = Batched(AddPart(n), e, t)
           /\ reply.inverse = Unbatched(RemovePart(n), t, e)
<1> DEFINE c == NewConnection(e, op)
           u == [e EXCEPT !.conns = e.conns \cup {c}, !.next = c.id + 1]
           t == NormalizeDerived(u)
           n == Only(t, t.next - 1)
<1>1. reply \in CommitTopology(e, t, Batched(AddPart(n), e, t), Unbatched(RemovePart(n), t, e))
  <2>1. ValidateConnection(e, op.from, op.to)
    BY DEF CreateConnection
  <2> QED BY <2>1 DEF CreateConnection, Batched, Unbatched, AddPart, RemovePart
<1>2. e \in Engines /\ e.conns \in SUBSET Cable /\ \A b \in e.conns : b.id < e.next
  BY DEF Loaded, Engines
<1>3. e.next \in Nat \ {0} /\ \A b \in e.conns : b.id \in Nat
  BY <1>2 DEF Engines, Cable
<1>4. c.id = e.next
  BY <1>2, NextId DEF NewConnection
<1>5. c \in Cable
  <2>1. NoRoute \in RouteValues
    BY DEF NoRoute, RouteValues
  <2>2. ConnectionId(e) \in Nat \ {0}
    BY <1>2, <1>3, NextId
  <2> PICK w \in RouteValues, i \in Nat \ {0} : w = NoRoute /\ i = ConnectionId(e)
    BY <2>1, <2>2
  <2> QED BY DEF NewConnection, Cable
<1> HIDE DEF c
<1>6. u \in Engines /\ u.conns = e.conns \cup {c} /\ u.next = e.next + 1
  <2> PICK cs, k : cs = e.conns \cup {c} /\ k = c.id + 1  OBVIOUS
  <2>1. cs \in SUBSET Cable /\ k \in Nat \ {0} /\ k = e.next + 1
    BY <1>2, <1>3, <1>4, <1>5
  <2>2. u = [e EXCEPT !.conns = cs, !.next = k]
    OBVIOUS
  <2> HIDE DEF u
  <2> QED BY <1>2, <2>1, <2>2 DEF Engines
<1>7. t = NormalizeDerived(u) /\ n = Only(t, t.next - 1)
  OBVIOUS
<1> HIDE DEF u, t, n
<1>8. t \in Engines /\ t.next = u.next /\ \E f : Redraws(f, u.conns, t)
  BY <1>6, <1>7, Redrawn
<1> PICK conns : conns = e.conns \cup {c}  OBVIOUS
<1> PICK f : Redraws(f, conns, t)
  BY <1>6, <1>8
<1>9. UniqueIds(conns)
  BY <1>2, <1>3, <1>4 DEF UniqueIds
<1>10. UniqueIds(t.conns)
  BY <1>9 DEF Redraws, Mapped, UniqueIds
<1>11. n \in Cable /\ n.id = e.next /\ n.from = c.from /\ n.to = c.to
  <2>1. f[c] \in t.conns /\ f[c].id = e.next /\ f[c].from = c.from /\ f[c].to = c.to
    BY <1>4 DEF Redraws, Mapped
  <2>2. t.next - 1 = e.next
    BY <1>3, <1>6, <1>8
  <2>3. Only(t, e.next) \in t.conns /\ Only(t, e.next).id = e.next
    BY <2>1, Zenon DEF Only
  <2>4. n \in t.conns /\ n.id = e.next
    BY <1>7, <2>2, <2>3
  <2>5. n = f[c]
    BY <1>10, <2>1, <2>4 DEF UniqueIds
  <2>6. n \in Cable
    BY <1>8, <2>4 DEF Engines
  <2> QED BY <2>1, <2>4, <2>5, <2>6
<1>12. reply.forward = Batched(AddPart(n), e, t) /\ reply.inverse = Unbatched(RemovePart(n), t, e)
  BY <1>1 DEF CommitTopology
<1>13. c = NewConnection(e, op)
  BY DEF c
<1> QED BY <1>8, <1>10, <1>11, <1>12, <1>13

(* The patches of remove_connection.                                       *)
LEMMA RemovePatches ==
  ASSUME NEW e, Loaded(e), UniqueIds(e.conns), NEW op, NEW reply \in RemoveConnection(e, op)
  PROVE  \E t \in Engines, n \in e.conns :
           /\ n.id = op.id /\ UniqueIds(t.conns)
           /\ reply.forward = Batched(RemovePart(n), e, t)
           /\ reply.inverse = Unbatched(AddPart(n), t, e)
<1> DEFINE U(c) == [e EXCEPT !.conns = e.conns \ {c}]
           T(c) == NormalizeDerived(U(c))
           n == Only(e, op.id)
<1>1. PICK c \in e.conns :
        /\ c.id = op.id
        /\ reply \in CommitTopology(e, T(c), Batched(RemovePart(n), e, T(c)), Unbatched(AddPart(n), T(c), e))
  BY DEF RemoveConnection, Batched, Unbatched, AddPart, RemovePart
<1>2. n \in e.conns /\ n.id = op.id
  BY <1>1, Zenon DEF Only
<1> DEFINE u == U(c)
           t == T(c)
<1>3. reply \in CommitTopology(e, t, Batched(RemovePart(n), e, t), Unbatched(AddPart(n), t, e))
  BY <1>1
<1>4. e \in Engines
  BY DEF Loaded
<1> PICK conns : conns = e.conns \ {c}  OBVIOUS
<1>5. u \in Engines /\ u.conns = conns
  <2>1. conns \in SUBSET Cable /\ u = [e EXCEPT !.conns = conns]
    BY <1>4 DEF Engines
  <2> HIDE DEF u
  <2> QED BY <1>4, <2>1 DEF Engines
<1>6. t = NormalizeDerived(u)
  OBVIOUS
<1> HIDE DEF u, t, n, U, T
<1>7. t \in Engines /\ \E f : Redraws(f, u.conns, t)
  BY <1>5, <1>6, Redrawn
<1> PICK f : Redraws(f, conns, t)
  BY <1>5, <1>7
<1>8. UniqueIds(t.conns)
  <2>1. UniqueIds(conns)
    BY DEF UniqueIds
  <2> QED BY <2>1 DEF Redraws, Mapped, UniqueIds
<1>9. reply.forward = Batched(RemovePart(n), e, t) /\ reply.inverse = Unbatched(AddPart(n), t, e)
  BY <1>3 DEF CommitTopology
<1> QED BY <1>2, <1>7, <1>8, <1>9

(* create_connection.                                                      *)
LEMMA CreateUndone ==
  ASSUME NEW e, NEW v, Facing(e, v), NEW op, op.from \in Refs, op.to \in Refs,
         NEW reply \in CreateConnection(e, op)
  PROVE  Undone(v, reply.forward, reply.inverse)
<1>0. /\ Loaded(e) /\ e \in Engines /\ UniqueIds(e.conns) /\ v \in Views /\ UniqueIds(v.conns)
      /\ v.conns \in SUBSET Cable /\ Mirrors(e.conns, v.conns)
  BY DEF Facing, Loaded, Mirrors, Traces, Views
<1>1. PICK t \in Engines, n \in Cable :
        /\ n.id = e.next /\ UniqueIds(t.conns)
        /\ reply.forward = Batched(AddPart(n), e, t)
        /\ reply.inverse = Unbatched(RemovePart(n), t, e)
  BY <1>0, CreatePatches
<1> PICK rows : rows = v.conns  OBVIOUS
<1>2. StatesKnown(rows, e)
  BY <1>0 DEF Mirrors, Traces, SameButRoute, StatesKnown
<1>3. \A r \in rows : r.id # n.id
  <2> SUFFICES ASSUME NEW r \in rows PROVE r.id # n.id
    OBVIOUS
  <2>1. PICK c \in e.conns : c.id = r.id
    BY <1>2 DEF StatesKnown
  <2>2. c.id < e.next /\ c.id \in Nat /\ e.next \in Nat
    BY <1>0 DEF Loaded, Engines, Cable
  <2> QED BY <1>1, <2>1, <2>2
<1> PICK w1 : w1 = ViewPatch(v, AddPart(n))  OBVIOUS
<1>4. w1 \in Views /\ SameRest(w1, v) /\ PartOK(AddPart(n))
  BY <1>0, AddShown
<1>5. PICK m \in Cable : w1.conns = v.conns \cup {m} /\ SameButRoute(m, n)
  BY <1>0, AddShown
<1> PICK w2 : w2 = Show(v, reply.forward)  OBVIOUS
<1>6. w2 = Restated(w1, e, t) /\ w2 \in Views
  <2>1. w2 = Restated(w1, e, t)
    BY <1>0, <1>1, <1>4, BatchedShown
  <2> QED BY <1>4, <2>1, RestatedFacts
<1> PICK w3 : w3 = Restated(w2, t, e)  OBVIOUS
<1>7. /\ w3 \in Views /\ SameRest(w3, w1) /\ rows \subseteq w3.conns
      /\ KeptOrOther(w3.conns, rows, w1.conns)
  <2>1. rows \subseteq w1.conns
    BY <1>5
  <2> QED BY <1>0, <1>1, <1>2, <1>4, <1>6, <2>1, RestatedTwice
<1> PICK b : b = Show(w2, reply.inverse)  OBVIOUS
<1>8. b = ViewPatch(w3, RemovePart(n))
  BY <1>0, <1>1, <1>6, UnbatchedShown
<1>9. b \in Views /\ SameRest(b, w3) /\ b.conns = Without(w3.conns, n.id)
  BY <1>7, <1>8, RemoveShown
<1>10. b.conns = rows
  <2>1. ASSUME NEW c \in w3.conns, c.id # n.id PROVE c \in rows
    <3>1. \A r \in w1.conns \ rows : r.id = n.id
      BY <1>5 DEF SameButRoute
    <3> QED BY <1>7, <2>1, <3>1 DEF KeptOrOther
  <2>2. ASSUME NEW r \in rows PROVE r \in w3.conns /\ r.id # n.id
    BY <1>3, <1>7
  <2> QED BY <1>9, <2>1, <2>2 DEF Without
<1>11. IsBack(b, v)
  <2>1. Mirrors(v.conns, v.conns)
    BY <1>0, MirrorsItself DEF Mirrors
  <2> QED BY <1>0, <1>4, <1>7, <1>9, <1>10, <2>1 DEF IsBack, SameRest
<1> QED BY <1>11 DEF Undone

(* remove_connection.                                                      *)
LEMMA RemoveUndone ==
  ASSUME NEW e, NEW v, Facing(e, v), NEW op, NEW reply \in RemoveConnection(e, op)
  PROVE  Undone(v, reply.forward, reply.inverse)
<1>0. /\ Loaded(e) /\ e \in Engines /\ UniqueIds(e.conns) /\ v \in Views /\ UniqueIds(v.conns)
      /\ v.conns \in SUBSET Cable /\ Mirrors(e.conns, v.conns)
  BY DEF Facing, Loaded, Mirrors, Traces, Views
<1>1. PICK t \in Engines, n \in e.conns :
        /\ UniqueIds(t.conns)
        /\ reply.forward = Batched(RemovePart(n), e, t)
        /\ reply.inverse = Unbatched(AddPart(n), t, e)
  BY <1>0, RemovePatches
<1>2. n \in Cable
  BY <1>0 DEF Engines
<1> PICK w1 : w1 = ViewPatch(v, RemovePart(n))  OBVIOUS
<1>3. w1 \in Views /\ SameRest(w1, v) /\ PartOK(RemovePart(n)) /\ w1.conns = Without(v.conns, n.id)
  BY <1>0, RemoveShown
<1> PICK rows : rows = w1.conns  OBVIOUS
<1>4. StatesKnown(rows, e)
  <2>1. \A r \in rows : r \in v.conns
    BY <1>3 DEF Without
  <2> QED BY <1>0, <2>1 DEF Mirrors, Traces, SameButRoute, StatesKnown
<1> PICK w2 : w2 = Show(v, reply.forward)  OBVIOUS
<1>5. w2 = Restated(w1, e, t) /\ w2 \in Views
  <2>1. w2 = Restated(w1, e, t)
    BY <1>0, <1>1, <1>3, BatchedShown
  <2> QED BY <1>3, <2>1, RestatedFacts
<1> PICK w3 : w3 = Restated(w2, t, e)  OBVIOUS
<1>6. w3 \in Views /\ SameRest(w3, w1) /\ w3.conns = rows
  <2>1. rows \subseteq w1.conns /\ w1.conns \ rows = {}
    OBVIOUS
  <2>2. /\ w3 \in Views /\ SameRest(w3, w1) /\ rows \subseteq w3.conns
        /\ KeptOrOther(w3.conns, rows, w1.conns)
    BY <1>0, <1>1, <1>3, <1>4, <1>5, <2>1, RestatedTwice
  <2> QED BY <2>1, <2>2 DEF KeptOrOther
<1> PICK b : b = Show(w2, reply.inverse)  OBVIOUS
<1>7. b = ViewPatch(w3, AddPart(n))
  BY <1>0, <1>1, <1>5, UnbatchedShown
<1>8. SameRest(b, w3) /\ b \in Views
  BY <1>2, <1>6, <1>7, AddShown
<1>9. PICK m \in Cable : b.conns = rows \cup {m} /\ SameButRoute(m, n) /\ SameRoute(m, n)
  BY <1>2, <1>6, <1>7, AddShown
<1>10. Mirrors(b.conns, v.conns)
  <2>1. PICK r0 \in v.conns : r0.id = n.id
    BY <1>0 DEF Mirrors, Traces
  <2>2. SameButRoute(m, r0) /\ SameRoute(m, r0)
    <3>1. n.id \in IdsOf(v.conns)
      BY <2>1 DEF IdsOf
    <3>2. SameButRoute(n, r0) /\ SameRoute(n, r0)
      BY <1>0, <2>1, <3>1 DEF Mirrors, Traces
    <3> QED BY <1>9, <3>2 DEF SameButRoute, SameRoute
  <2>3. \A c \in b.conns : (c \in v.conns /\ c.id # n.id) \/ c = m
    BY <1>3, <1>9 DEF Without
  <2>4. m.id = n.id /\ m \in b.conns
    BY <1>9 DEF SameButRoute
  <2>5. \A c \in v.conns : c.id # n.id => c \in b.conns
    BY <1>3, <1>9 DEF Without
  <2>6. UniqueIds(b.conns)
    BY <1>0, <2>3, <2>4 DEF UniqueIds
  <2>7. \A c \in b.conns : \E r \in v.conns : r.id = c.id
    BY <2>1, <2>3, <2>4
  <2>8. \A r \in v.conns : \E c \in b.conns : c.id = r.id
    BY <2>4, <2>5
  <2>9. ASSUME NEW c \in b.conns, NEW r \in v.conns, c.id = r.id PROVE SameButRoute(c, r) /\ SameRoute(c, r)
    <3>1. CASE c \in v.conns
      <4>1. c = r
        BY <1>0, <2>9, <3>1 DEF UniqueIds
      <4> QED BY <4>1 DEF SameButRoute, SameRoute
    <3>2. CASE c = m
      <4>1. r = r0
        BY <1>0, <2>1, <2>4, <2>9, <3>2 DEF UniqueIds
      <4> QED BY <2>2, <3>2, <4>1
    <3> QED BY <2>3, <3>1, <3>2
  <2> QED BY <1>0, <2>6, <2>7, <2>8, <2>9 DEF Mirrors, Traces
<1>11. IsBack(b, v)
  BY <1>3, <1>6, <1>8, <1>10 DEF IsBack, SameRest, Views
<1> QED BY <1>11 DEF Undone

-----------------------------------------------------------------------------
(* Every command *)

(* A command that moves items says where they are on the screen v.         *)
MovesFrom(op, v) ==
  /\ op.kind = "place" => PlacesKnown(op.changes, v.places)
  /\ op.kind = "snap" => op.nodes = v.places

(* snap_placements_to_grid.                                                *)
LEMMA SnapUndone ==
  ASSUME NEW e, NEW v, Facing(e, v), NEW op, op.planned \in Positions, op.nodes = v.places,
         NEW reply \in SnapPlacementsToGrid(e, op)
  PROVE  Undone(v, reply.forward, reply.inverse)
<1> DEFINE nodes == {i \in Items : op.nodes[i] # 0}
           all == [changes |-> {[item |-> i, prev |-> op.nodes[i], next |-> op.planned] : i \in nodes}]
<1>1. reply \in UpdatePlacements(e, all)
  BY DEF SnapPlacementsToGrid
<1>2. PlacesKnown(all.changes, v.places)
  BY DEF PlacesKnown
<1> HIDE DEF all
<1> QED BY <1>1, <1>2, PlaceUndone

(* Engine::dispatch: the inverse of the patch of any command takes the     *)
(* project on a screen back.                                               *)
LEMMA DispatchUndone ==
  ASSUME NEW e, NEW v, Facing(e, v), NEW op, OperationOK(op), MovesFrom(op, v),
         NEW reply \in Dispatch(e, op)
  PROVE  Undone(v, reply.forward, reply.inverse)
<1>1. e.rev # MaxRevision /\ e \in Engines
  BY DEF Dispatch, Facing, Loaded
<1>2. CASE op.kind = "create"
  <2>1. reply \in CreateConnection(e, op)
    BY <1>1, <1>2 DEF Dispatch
  <2> QED BY <1>2, <2>1, CreateUndone DEF OperationOK
<1>3. CASE op.kind = "remove"
  <2>1. reply \in RemoveConnection(e, op)
    BY <1>1, <1>3 DEF Dispatch
  <2> QED BY <2>1, RemoveUndone
<1>4. CASE op.kind = "label"
  <2>1. reply \in UpdateConnectionLabel(e, op)
    BY <1>1, <1>4 DEF Dispatch
  <2> QED BY <1>4, <2>1, LabelUndone DEF OperationOK
<1>5. CASE op.kind = "route"
  <2>1. reply \in UpdateConnectionRoute(e, op)
    BY <1>1, <1>5 DEF Dispatch
  <2> QED BY <1>5, <2>1, RouteUndone DEF OperationOK
<1>6. CASE op.kind = "sides"
  <2>1. reply \in ResolveConnectionRouteSides(e, op)
    BY <1>1, <1>6 DEF Dispatch
  <2>2. RouteReply(e, reply)
    BY <1>1, <1>6, <2>1, SidesRoutes DEF OperationOK
  <2> QED BY <2>2, BatchUndone DEF RouteReply
<1>7. CASE op.kind = "canonical"
  <2>1. reply \in CanonicalizeConnectionRoutes(e, op)
    BY <1>1, <1>7 DEF Dispatch
  <2>2. RouteReply(e, reply)
    BY <1>1, <1>7, <2>1, CanonicalRoutes DEF OperationOK
  <2> QED BY <2>2, BatchUndone DEF RouteReply
<1>8. CASE op.kind = "reset"
  <2>1. reply \in ResetAllConnectionBends(e, op)
    BY <1>1, <1>8 DEF Dispatch
  <2>2. RouteReply(e, reply)
    BY <1>1, <2>1, ResetRoutes
  <2> QED BY <2>2, BatchUndone DEF RouteReply
<1>9. CASE op.kind = "automatic"
  <2>1. reply \in RestoreAutomaticConnectionRoutes(e, op)
    BY <1>1, <1>9 DEF Dispatch
  <2>2. RouteReply(e, reply)
    BY <1>1, <2>1, AutomaticRoutes
  <2> QED BY <2>2, BatchUndone DEF RouteReply
<1>10. CASE op.kind = "name"
  <2>1. reply \in UpdateProjectMetadata(e, op)
    BY <1>1, <1>10 DEF Dispatch
  <2> QED BY <1>10, <2>1, NameUndone DEF OperationOK
<1>11. CASE op.kind = "assign"
  <2>1. reply \in UpdateAssignments(e, op)
    BY <1>1, <1>11 DEF Dispatch
  <2> QED BY <1>11, <2>1, AssignUndone DEF OperationOK
<1>12. CASE op.kind = "place"
  <2>1. reply \in UpdatePlacements(e, op)
    BY <1>1, <1>12 DEF Dispatch
  <2> QED BY <1>12, <2>1, PlaceUndone DEF MovesFrom
<1>13. CASE op.kind = "snap"
  <2>1. reply \in SnapPlacementsToGrid(e, op)
    BY <1>1, <1>13 DEF Dispatch
  <2> QED BY <1>13, <2>1, SnapUndone DEF OperationOK, MovesFrom
<1> QED BY <1>2, <1>3, <1>4, <1>5, <1>6, <1>7, <1>8, <1>9, <1>10, <1>11, <1>12, <1>13
           DEF OperationOK, Kinds

-----------------------------------------------------------------------------
(* Places *)

(* A record of a project with positions.                                   *)
HasPlaces(d) == "places" \in DOMAIN d /\ d = [k \in DOMAIN d |-> d[k]]

(* The parts of a patch on connections and the name leave the positions.   *)
LEMMA PartKeepsPlaces ==
  ASSUME NEW d, HasPlaces(d), NEW p, p.kind \in Parts \ {"placements", "assignments"},
         NEW y \in StorePatch(d, p)
  PROVE  HasPlaces(y) /\ y.places = d.places
<1>1. CASE p.kind = "add"
  <2>1. y \in InsertConnection(d, p.conn)
    BY <1>1 DEF StorePatch
  <2>2. PICK cs, n : y = [d EXCEPT !.conns = cs, !.seq = n]
    BY <2>1 DEF InsertConnection
  <2> QED BY <2>2 DEF HasPlaces
<1>2. CASE p.kind = "remove"
  <2>1. PICK cs : y = [d EXCEPT !.conns = cs]
    BY <1>2 DEF StorePatch
  <2> QED BY <2>1 DEF HasPlaces
<1>3. CASE p.kind \in {"label", "route"}
  <2>1. y = PatchRow(d, p)
    BY <1>3 DEF StorePatch
  <2>2. PICK cs : y = [d EXCEPT !.conns = cs]
    BY <2>1 DEF PatchRow, WithConnection
  <2> QED BY <2>2 DEF HasPlaces
<1>4. CASE p.kind = "derived"
  <2>1. PICK cs : y = [d EXCEPT !.conns = cs]
    BY <1>4 DEF StorePatch
  <2> QED BY <2>1 DEF HasPlaces
<1>5. CASE p.kind = "name"
  <2>1. y = [d EXCEPT !.name = p.name]
    BY <1>5 DEF StorePatch
  <2> QED BY <2>1 DEF HasPlaces
<1> QED BY <1>1, <1>2, <1>3, <1>4, <1>5 DEF Parts

(* So does a patch of such parts.                                          *)
LEMMA StoreKeepsPlaces ==
  ASSUME NEW d, HasPlaces(d), NEW s, NEW n \in Nat, PatchOK(s, n),
         \A k \in 1..n : s[k].kind \notin {"placements", "assignments"},
         NEW x \in Store(d, s)
  PROVE  x.places = d.places
<1>1. DOMAIN s = 1..n
  BY DEF PatchOK
<1>2. PICK run : IsRun(run, d, s, n) /\ Store(d, s) = run[n]
  BY <1>1, StoreSteps
<1> DEFINE P(k) == \A y \in run[k] : HasPlaces(y) /\ y.places = d.places
           N == {k \in Nat : k <= n => P(k)}
<1>3. 0 \in N
  BY <1>2 DEF IsRun
<1>4. ASSUME NEW k \in N PROVE k + 1 \in N
  <2> SUFFICES ASSUME k + 1 <= n, NEW y \in run[k + 1] PROVE HasPlaces(y) /\ y.places = d.places
    OBVIOUS
  <2>1. k \in Nat /\ k + 1 \in 1..n /\ P(k)
    OBVIOUS
  <2>2. PICK z \in run[k] : y \in StorePatch(z, s[k + 1])
    BY <1>2, <2>1, RunStep
  <2> PICK p : p = s[k + 1]  OBVIOUS
  <2>3. p.kind \in Parts \ {"placements", "assignments"}
    BY <2>1 DEF PatchOK, PartOK
  <2>4. HasPlaces(z) /\ z.places = d.places
    BY <2>1, <2>2
  <2> QED BY <2>2, <2>3, <2>4, PartKeepsPlaces
<1>5. N = Nat
  <2>1. N \in SUBSET Nat
    OBVIOUS
  <2> HIDE DEF N
  <2> QED BY <1>3, <1>4, <2>1, Induction
<1>6. P(n)
  <2> HIDE DEF P
  <2> QED BY <1>5
<1> QED BY <1>2, <1>6

(* A part of a patch on the screen leaves the positions.                   *)
LEMMA ViewKeepsPlaces ==
  ASSUME NEW v \in Views, NEW p, p.kind \in Parts \ {"placements"}
  PROVE  ViewPatch(v, p).places = v.places
<1>1. CASE p.kind \in {"add", "remove", "label", "route", "derived"}
  <2>1. \E cs : ViewPatch(v, p) = [v EXCEPT !.conns = cs]
    BY <1>1 DEF ViewPatch
  <2> QED BY <2>1 DEF Views
<1>2. CASE p.kind = "assignments"
  BY <1>2, AssignedShown
<1>3. CASE p.kind = "name"
  <2>1. ViewPatch(v, p) = [v EXCEPT !.name = p.name]
    BY <1>3 DEF ViewPatch
  <2> QED BY <2>1 DEF Views
<1> QED BY <1>1, <1>2, <1>3 DEF Parts

(* So does a patch of such parts.                                          *)
LEMMA ShowKeepsPlaces ==
  ASSUME NEW v \in Views, NEW s, NEW n \in Nat, PatchOK(s, n),
         \A k \in 1..n : s[k].kind # "placements"
  PROVE  Show(v, s).places = v.places
<1>1. DOMAIN s = 1..n
  BY DEF PatchOK
<1>2. PICK run : IsShow(run, v, s, n) /\ Show(v, s) = run[n]
  BY <1>1, ShowSteps
<1> DEFINE P(k) == run[k] \in Views /\ run[k].places = v.places
           N == {k \in Nat : k <= n => P(k)}
<1>3. 0 \in N
  BY <1>2 DEF IsShow
<1>4. ASSUME NEW k \in N PROVE k + 1 \in N
  <2> SUFFICES ASSUME k + 1 <= n PROVE P(k + 1)
    OBVIOUS
  <2>1. k \in Nat /\ k + 1 \in 1..n /\ (k + 1) - 1 = k /\ P(k)
    OBVIOUS
  <2> PICK w, y, p : w = run[k] /\ y = run[k + 1] /\ p = s[k + 1]  OBVIOUS
  <2>2. y = ViewPatch(w, p)
    BY <1>2, <2>1 DEF IsShow
  <2>3. PartOK(p) /\ p.kind \in Parts \ {"placements"}
    BY <2>1 DEF PatchOK, PartOK
  <2>4. w \in Views /\ w.places = v.places
    BY <2>1
  <2>5. y \in Views /\ y.places = w.places
    BY <2>2, <2>3, <2>4, ViewPatchType, ViewKeepsPlaces
  <2> QED BY <2>4, <2>5
<1>5. N = Nat
  <2>1. N \in SUBSET Nat
    OBVIOUS
  <2> HIDE DEF N
  <2> QED BY <1>3, <1>4, <2>1, Induction
<1>6. P(n)
  <2> HIDE DEF P
  <2> QED BY <1>5
<1> QED BY <1>2, <1>6

(* The parts of the patch s have kinds in K.                               *)
KindsIn(s, K) == \A k \in DOMAIN s : s[k].kind \in K

(* The kinds of a patch of one part.                                       *)
LEMMA OneKind ==
  ASSUME NEW p, NEW K, p.kind \in K
  PROVE  KindsIn(<<p>>, K)
  BY DEF KindsIn

(* The kinds of a part with the derived states after it.                   *)
LEMMA BatchedKinds ==
  ASSUME NEW x, NEW b, NEW a, NEW K, x.kind \in K, "derived" \in K
  PROVE  KindsIn(Batched(x, b, a), K)
<1>1. CASE \E p : DerivedPatch(b, a) = <<p>> /\ p.kind = "derived"
  <2>1. PICK p : DerivedPatch(b, a) = <<p>> /\ p.kind = "derived"
    BY <1>1
  <2>2. Batched(x, b, a) = <<x, p>>
    BY <2>1, TwoParts DEF Batched
  <2> QED BY <2>1, <2>2 DEF KindsIn
<1>2. CASE DerivedPatch(b, a) = <<>>
  <2>1. <<x>> \o <<>> = <<x>>
    OBVIOUS
  <2>2. Batched(x, b, a) = <<x>>
    BY <1>2, <2>1 DEF Batched
  <2> QED BY <2>2, OneKind
<1>3. \/ DerivedPatch(b, a) = <<>>
      \/ \E p : DerivedPatch(b, a) = <<p>> /\ p.kind = "derived"
  <2> DEFINE changed == {c \in a.conns : \E d \in b.conns : d.id = c.id /\ <<d.type, d.speed>> # <<c.type, c.speed>>}
             p == [kind |-> "derived", states |-> {[id |-> c.id, type |-> c.type, speed |-> c.speed] : c \in changed}]
  <2>1. DerivedPatch(b, a) = IF changed = {} THEN <<>> ELSE <<p>>
    BY DEF DerivedPatch
  <2>2. p.kind = "derived"
    OBVIOUS
  <2> HIDE DEF changed, p
  <2> QED BY <2>1, <2>2
<1> QED BY <1>1, <1>2, <1>3

(* A batch of routes has no other parts.                                   *)
LEMMA RouteKinds ==
  ASSUME NEW e, NEW reply, RouteReply(e, reply)
  PROVE  KindsIn(reply.forward, {"route"})
<1>1. PICK new : reply \in RouteBatch(e, new)
  BY DEF RouteReply
<1> DEFINE order == InIdOrder({c \in e.conns : new[c] # c.route})
           fw == [i \in DOMAIN order |-> RoutePatch(order[i].id, new[order[i]])]
           bw == [i \in DOMAIN order |-> RoutePatch(order[i].id, order[i].route)]
           R(c) == [c EXCEPT !.route = new[c]]
<1>2. reply \in CommitTopology(e, [e EXCEPT !.conns = {R(c) : c \in e.conns}], fw, Reverse(bw))
  BY <1>1 DEF RouteBatch
<1>3. KindsIn(fw, {"route"})
  BY DEF KindsIn, RoutePatch
<1> HIDE DEF fw, bw, R
<1>4. reply.forward = fw
  BY <1>2 DEF CommitTopology
<1> QED BY <1>3, <1>4

(* The commands that move no item have no placements in their patches.     *)
LEMMA DispatchKinds ==
  ASSUME NEW e, Loaded(e), Builds(e), NEW op, Typed(op), op.kind \notin {"place", "snap", "assign"},
         NEW reply \in Dispatch(e, op)
  PROVE  KindsIn(reply.forward, Parts \ {"placements", "assignments"})
<1> PICK K : K = Parts \ {"placements", "assignments"}  OBVIOUS
<1>0. {"add", "remove", "label", "route", "derived", "name"} \subseteq K
  BY DEF Parts
<1>1. e.rev # MaxRevision /\ e \in Engines /\ UniqueIds(e.conns)
  BY DEF Dispatch, Loaded, Builds, UniqueIds
<1>2. CASE op.kind = "create"
  <2>1. reply \in CreateConnection(e, op)
    BY <1>1, <1>2 DEF Dispatch
  <2>2. \E t, n : reply.forward = Batched(AddPart(n), e, t)
    BY <1>1, <1>2, <2>1, CreatePatches DEF Typed
  <2>3. \A n : AddPart(n).kind \in K
    BY <1>0 DEF AddPart
  <2> QED BY <1>0, <2>2, <2>3, BatchedKinds
<1>3. CASE op.kind = "remove"
  <2>1. reply \in RemoveConnection(e, op)
    BY <1>1, <1>3 DEF Dispatch
  <2>2. \E t, n : reply.forward = Batched(RemovePart(n), e, t)
    BY <1>1, <2>1, RemovePatches
  <2>3. \A n : RemovePart(n).kind \in K
    BY <1>0 DEF RemovePart
  <2> QED BY <1>0, <2>2, <2>3, BatchedKinds
<1>4. CASE op.kind = "label"
  <2>1. reply \in UpdateConnectionLabel(e, op)
    BY <1>1, <1>4 DEF Dispatch
  <2> PICK p : p = [kind |-> "label", id |-> op.id, label |-> op.label]  OBVIOUS
  <2>2. reply.forward = <<p>> /\ p.kind = "label"
    <3>1. \E t, inv : reply \in CommitTopology(e, t, <<p>>, inv)
      BY <2>1 DEF UpdateConnectionLabel
    <3> QED BY <3>1 DEF CommitTopology
  <2> QED BY <1>0, <2>2, OneKind
<1>5. CASE op.kind = "route"
  <2>1. reply \in UpdateConnectionRoute(e, op)
    BY <1>1, <1>5 DEF Dispatch
  <2> PICK p : p = RoutePatch(op.id, op.route)  OBVIOUS
  <2>2. reply.forward = <<p>> /\ p.kind = "route"
    <3>1. \E t, inv : reply \in CommitTopology(e, t, <<p>>, inv)
      BY <2>1 DEF UpdateConnectionRoute
    <3> QED BY <3>1 DEF CommitTopology, RoutePatch
  <2> QED BY <1>0, <2>2, OneKind
<1>6. CASE op.kind \in {"sides", "canonical", "reset", "automatic"}
  <2>1. RouteReply(e, reply)
    <3>1. CASE op.kind = "sides"
      <4>1. reply \in ResolveConnectionRouteSides(e, op)
        BY <1>1, <3>1 DEF Dispatch
      <4> QED BY <1>1, <3>1, <4>1, SidesRoutes DEF Typed
    <3>2. CASE op.kind = "canonical"
      <4>1. reply \in CanonicalizeConnectionRoutes(e, op)
        BY <1>1, <3>2 DEF Dispatch
      <4> QED BY <1>1, <3>2, <4>1, CanonicalRoutes DEF Typed
    <3>3. CASE op.kind = "reset"
      <4>1. reply \in ResetAllConnectionBends(e, op)
        BY <1>1, <3>3 DEF Dispatch
      <4> QED BY <1>1, <4>1, ResetRoutes
    <3>4. CASE op.kind = "automatic"
      <4>1. reply \in RestoreAutomaticConnectionRoutes(e, op)
        BY <1>1, <3>4 DEF Dispatch
      <4> QED BY <1>1, <4>1, AutomaticRoutes
    <3> QED BY <1>6, <3>1, <3>2, <3>3, <3>4
  <2> QED BY <1>0, <2>1, RouteKinds DEF KindsIn
<1>7. CASE op.kind = "name"
  <2>1. reply \in UpdateProjectMetadata(e, op)
    BY <1>1, <1>7 DEF Dispatch
  <2> PICK p : p = [kind |-> "name", name |-> op.name]  OBVIOUS
  <2>2. reply.forward = <<p>> /\ p.kind = "name"
    BY <2>1 DEF UpdateProjectMetadata, CommitTopology
  <2> QED BY <1>0, <2>2, OneKind
<1> QED BY <1>2, <1>3, <1>4, <1>5, <1>6, <1>7 DEF Typed, Kinds

-----------------------------------------------------------------------------
(* Moved items *)

(* The changes C undone.                                                   *)
Turned(C) == {[item |-> ch.item, prev |-> ch.next, next |-> ch.prev] : ch \in C}

(* Changes that move items, each of them once.                             *)
RealMoves(C) ==
  /\ C # {} /\ \A ch \in C : ch.prev # ch.next
  /\ \A a, b \in C : a.item = b.item => a = b

(* The changes undone are changes.                                         *)
LEMMA TurnedFacts ==
  ASSUME NEW C, \A a, b \in C : a.item = b.item => a = b
  PROVE  /\ \A a, b \in Turned(C) : a.item = b.item => a = b
         /\ \A ch \in C : \E b \in Turned(C) : b.item = ch.item /\ b.next = ch.prev
<1>1. ASSUME NEW ch \in C PROVE \E b \in Turned(C) : b.item = ch.item /\ b.next = ch.prev
  <2> PICK b : b = [item |-> ch.item, prev |-> ch.next, next |-> ch.prev]  OBVIOUS
  <2>1. b \in Turned(C)
    BY DEF Turned
  <2> QED BY <2>1
<1>2. \A a, b \in Turned(C) : a.item = b.item => a = b
  <2> SUFFICES ASSUME NEW a \in C, NEW b \in C, a.item = b.item PROVE a = b
    BY DEF Turned
  <2> QED OBVIOUS
<1> QED BY <1>1, <1>2

(* The patches of update_placements.                                       *)
LEMMA PlacePatches ==
  ASSUME NEW e, NEW op, \A a, b \in op.changes : a.item = b.item => a = b,
         NEW reply \in UpdatePlacements(e, op)
  PROVE  \E C : /\ RealMoves(C) /\ C \subseteq op.changes
                /\ reply.forward = <<PlacementPatch(C)>>
                /\ reply.inverse = <<PlacementPatch(Turned(C))>>
<1> PICK C : C = {ch \in op.changes : ch.prev # ch.next}  OBVIOUS
<1> PICK p, q : p = PlacementPatch(C) /\ q = PlacementPatch(Turned(C))  OBVIOUS
<1>1. C # {} /\ \E t : reply \in CommitTopology(e, t, <<p>>, <<q>>)
  BY DEF UpdatePlacements, Turned
<1>2. reply.forward = <<p>> /\ reply.inverse = <<q>>
  BY <1>1 DEF CommitTopology
<1>3. RealMoves(C) /\ C \subseteq op.changes
  BY <1>1 DEF RealMoves
<1> QED BY <1>2, <1>3

(* Stored and on the screen, an item is at the same position.              *)
LEMMA PlacesStored ==
  ASSUME NEW d, HasPlaces(d), NEW v \in Views, v.places = d.places, NEW p, p.kind = "placements",
         NEW x \in Store(d, <<p>>)
  PROVE  Show(v, <<p>>).places = x.places
<1> PICK f : f = PatchPlacements(d.places, p)  OBVIOUS
<1>1. x \in StorePatch(d, p) /\ Show(v, <<p>>) = ViewPatch(v, p)
  BY StoreOne, ShowOne
<1>2. x = [d EXCEPT !.places = f]
  BY <1>1 DEF StorePatch
<1>3. ViewPatch(v, p) = [v EXCEPT !.places = f]
  BY DEF ViewPatch
<1>4. x.places = f
  BY <1>2 DEF HasPlaces
<1>5. ViewPatch(v, p).places = f
  BY <1>3 DEF Views
<1> QED BY <1>1, <1>4, <1>5

(* The position of an item in the patch, 0 for none.                       *)
PositionIn(all, i) == IF \E u \in all : u.item = i THEN (CHOOSE u \in all : u.item = i).x ELSE 0

(* It is where the change puts the item.                                   *)
LEMMA PositionSet ==
  ASSUME NEW C, \A a, b \in C : a.item = b.item => a = b, NEW ch \in C,
         NEW p, p = PlacementPatch(C)
  PROVE  /\ PositionIn(p.upsert, ch.item) = ch.next
         /\ ch.item \in {u.item : u \in p.upsert} \cup p.remove
<1> PICK i : i = ch.item  OBVIOUS
<1>1. /\ \A k : k \in p.remove <=> \E c \in C : c.item = k /\ c.next = 0
      /\ \A u \in p.upsert : \E c \in C : c.next # 0 /\ u.item = c.item /\ u.x = c.next
      /\ \A c \in C : c.next # 0 => \E u \in p.upsert : u.item = c.item /\ u.x = c.next
  BY PlacementFacts
<1>2. CASE ch.next = 0
  <2>1. ~\E u \in p.upsert : u.item = i
    BY <1>1, <1>2
  <2>2. i \in p.remove
    BY <1>1, <1>2
  <2> QED BY <1>2, <2>1, <2>2 DEF PositionIn
<1>3. CASE ch.next # 0
  <2>1. \E u \in p.upsert : u.item = i
    BY <1>1, <1>3
  <2> PICK u : u = CHOOSE y \in p.upsert : y.item = i  OBVIOUS
  <2>2. u \in p.upsert /\ u.item = i
    BY <2>1, Zenon
  <2>3. PICK c \in C : u.item = c.item /\ u.x = c.next
    BY <1>1, <2>2
  <2>4. c = ch
    BY <2>2, <2>3
  <2>5. PositionIn(p.upsert, i) = u.x
    BY <2>1 DEF PositionIn
  <2> QED BY <2>2, <2>3, <2>4, <2>5
<1> QED BY <1>2, <1>3

(* operationForCommittedPatch of a patch that moves items.                 *)
MovedItems(p, q) == {u.item : u \in p.upsert \cup q.upsert} \cup p.remove \cup q.remove

Moves(p, q) ==
  {[item |-> i, prev |-> PositionIn(q.upsert, i), next |-> PositionIn(p.upsert, i)] : i \in MovedItems(p, q)}

(* It is the command that moves them.                                      *)
LEMMA PlaceOperationOf ==
  ASSUME NEW fw, NEW inv, NEW n \in Nat, Len(fw) = n, ~(n > 1),
         NEW p, NEW q, p = Head(fw), q = Last(inv), p.kind = "placements"
  PROVE  OperationFor(fw, inv) = [kind |-> "place", changes |-> Moves(p, q)]
<1> DEFINE position(all, i) ==
             IF \E u \in all : u.item = i THEN (CHOOSE u \in all : u.item = i).x ELSE 0
           items == {u.item : u \in p.upsert \cup q.upsert} \cup p.remove \cup q.remove
<1> PICK chs : chs = {[item |-> i, prev |-> position(q.upsert, i), next |-> position(p.upsert, i)] : i \in items}
  OBVIOUS
<1>1. OperationFor(fw, inv) = [kind |-> "place", changes |-> chs]
  BY DEF OperationFor
<1>2. chs = Moves(p, q)
  BY DEF Moves, MovedItems, PositionIn
<1> QED BY <1>1, <1>2

(* For a patch of one part.                                                *)
LEMMA PlaceOperation ==
  ASSUME NEW p, NEW q, p.kind = "placements"
  PROVE  OperationFor(<<p>>, <<q>>) = [kind |-> "place", changes |-> Moves(p, q)]
<1> PICK fw, inv : fw = <<p>> /\ inv = <<q>>  OBVIOUS
<1>1. p = Head(fw) /\ q = Last(inv) /\ Len(fw) = 1
  BY DEF Last
<1> PICK n \in Nat : n = 1  OBVIOUS
<1>2. Len(fw) = n /\ ~(n > 1)
  BY <1>1
<1>3. OperationFor(fw, inv) = [kind |-> "place", changes |-> Moves(p, q)]
  BY <1>1, <1>2, PlaceOperationOf
<1> QED BY <1>3

(* Replayed, the patch moves items again.                                  *)
LEMMA MovesReal ==
  ASSUME NEW C, RealMoves(C), NEW p, NEW q, p = PlacementPatch(C), q = PlacementPatch(Turned(C))
  PROVE  {ch \in Moves(p, q) : ch.prev # ch.next} # {}
<1>1. PICK ch \in C : ch.prev # ch.next
  BY DEF RealMoves
<1>2. \A a, b \in C : a.item = b.item => a = b
  BY DEF RealMoves
<1>3. PositionIn(p.upsert, ch.item) = ch.next /\ ch.item \in {u.item : u \in p.upsert} \cup p.remove
  BY <1>2, PositionSet
<1>4. PICK b \in Turned(C) : b.item = ch.item /\ b.next = ch.prev
  BY <1>2, TurnedFacts
<1>5. PositionIn(q.upsert, ch.item) = ch.prev
  <2>1. \A x, y \in Turned(C) : x.item = y.item => x = y
    BY <1>2, TurnedFacts
  <2> QED BY <1>4, <2>1, PositionSet
<1>6. ch.item \in MovedItems(p, q)
  BY <1>3 DEF MovedItems
<1> PICK m : m = [item |-> ch.item, prev |-> PositionIn(q.upsert, ch.item), next |-> PositionIn(p.upsert, ch.item)]
  OBVIOUS
<1>7. m \in Moves(p, q)
  BY <1>6 DEF Moves
<1>8. m.prev # m.next
  BY <1>1, <1>3, <1>5
<1> QED BY <1>7, <1>8

(* An engine that builds accepts every such command.                       *)
LEMMA PlaceAccepted ==
  ASSUME NEW e \in Engines, Builds(e), NEW op, {ch \in op.changes : ch.prev # ch.next} # {}
  PROVE  \E mine \in UpdatePlacements(e, op) : mine.engine.rev = e.rev + 1
<1> PICK C : C = {ch \in op.changes : ch.prev # ch.next}  OBVIOUS
<1> PICK p, q, P : /\ p = PlacementPatch(C) /\ q = PlacementPatch(Turned(C))
                   /\ P = (e.placed \cup {u.item : u \in p.upsert}) \ p.remove
  OBVIOUS
<1> PICK t : t = [e EXCEPT !.placed = P]  OBVIOUS
<1>1. UpdatePlacements(e, op) = CommitTopology(e, t, <<p>>, <<q>>)
  BY DEF UpdatePlacements, Turned
<1>2. t.conns = e.conns /\ t.assigned = e.assigned
  BY DEF Engines
<1>3. Builds(t)
  BY <1>2 DEF Builds, AssignedTo
<1> PICK u : u = [t EXCEPT !.rev = e.rev + 1]  OBVIOUS
<1>4. u.rev = e.rev + 1
  BY DEF Engines
<1> PICK mine : mine = [engine |-> u, forward |-> <<p>>, inverse |-> <<q>>]  OBVIOUS
<1>5. mine \in CommitTopology(e, t, <<p>>, <<q>>) /\ mine.engine = u
  BY <1>3 DEF CommitTopology
<1> QED BY <1>1, <1>4, <1>5

(* A worker at the revision of the server replays the moves of others.     *)
LEMMA MovesReplayed ==
  ASSUME Loaded(worker), Builds(worker), worker.rev # MaxRevision,
         NEW C, RealMoves(C), NEW reply,
         reply.forward = <<PlacementPatch(C)>>, reply.inverse = <<PlacementPatch(Turned(C))>>
  PROVE  \E mine \in ReplayOf(reply) : mine.engine.rev = worker.rev + 1
<1> PICK p, q : p = PlacementPatch(C) /\ q = PlacementPatch(Turned(C))  OBVIOUS
<1>1. p.kind = "placements"
  BY PlacementFacts
<1> PICK op : op = OperationFor(<<p>>, <<q>>)  OBVIOUS
<1>2. op = [kind |-> "place", changes |-> Moves(p, q)]
  BY <1>1, PlaceOperation
<1>3. op.kind = "place" /\ op.changes = Moves(p, q) /\ op # NoOperation
  BY <1>2 DEF NoOperation
<1>4. {ch \in op.changes : ch.prev # ch.next} # {}
  BY <1>3, MovesReal
<1>5. PICK mine \in UpdatePlacements(worker, op) : mine.engine.rev = worker.rev + 1
  BY <1>4, PlaceAccepted DEF Loaded
<1>6. mine \in Dispatch(worker, op)
  BY <1>3, <1>5 DEF Dispatch
<1>7. mine \in ReplayOf(reply)
  BY <1>3, <1>6 DEF ReplayOf
<1> QED BY <1>5, <1>7

-----------------------------------------------------------------------------
(* The positions on the screen *)

(* A patch leaves the revision of a project to PatchView.                  *)
LEMMA PartKeepsRev ==
  ASSUME NEW v \in Views, NEW p, p.kind \in Parts
  PROVE  ViewPatch(v, p).rev = v.rev
<1>1. CASE p.kind \in {"add", "remove", "label", "route", "derived"}
  <2>1. \E cs : ViewPatch(v, p) = [v EXCEPT !.conns = cs]
    BY <1>1 DEF ViewPatch
  <2> QED BY <2>1 DEF Views
<1>2. CASE p.kind = "assignments"
  <2>1. \E cs : ViewPatch(v, p) = [v EXCEPT !.assigned = cs]
    BY <1>2 DEF ViewPatch
  <2> QED BY <2>1 DEF Views
<1>3. CASE p.kind = "name"
  <2>1. ViewPatch(v, p) = [v EXCEPT !.name = p.name]
    BY <1>3 DEF ViewPatch
  <2> QED BY <2>1 DEF Views
<1>4. CASE p.kind = "placements"
  <2>1. \E cs : ViewPatch(v, p) = [v EXCEPT !.places = cs]
    BY <1>4 DEF ViewPatch
  <2> QED BY <2>1 DEF Views
<1> QED BY <1>1, <1>2, <1>3, <1>4 DEF Parts

(* So does the whole patch.                                                *)
LEMMA ShowKeepsRev ==
  ASSUME NEW v \in Views, NEW s, NEW n \in Nat, PatchOK(s, n)
  PROVE  Show(v, s).rev = v.rev
<1>1. DOMAIN s = 1..n
  BY DEF PatchOK
<1>2. PICK run : IsShow(run, v, s, n) /\ Show(v, s) = run[n]
  BY <1>1, ShowSteps
<1> DEFINE P(k) == run[k] \in Views /\ run[k].rev = v.rev
           N == {k \in Nat : k <= n => P(k)}
<1>3. 0 \in N
  BY <1>2 DEF IsShow
<1>4. ASSUME NEW k \in N PROVE k + 1 \in N
  <2> SUFFICES ASSUME k + 1 <= n PROVE P(k + 1)
    OBVIOUS
  <2>1. k \in Nat /\ k + 1 \in 1..n /\ (k + 1) - 1 = k /\ P(k)
    OBVIOUS
  <2> PICK w, y, p : w = run[k] /\ y = run[k + 1] /\ p = s[k + 1]  OBVIOUS
  <2>2. y = ViewPatch(w, p)
    BY <1>2, <2>1 DEF IsShow
  <2>3. PartOK(p) /\ p.kind \in Parts
    BY <2>1 DEF PatchOK, PartOK
  <2>4. w \in Views /\ w.rev = v.rev
    BY <2>1
  <2>5. y \in Views /\ y.rev = w.rev
    BY <2>2, <2>3, <2>4, ViewPatchType, PartKeepsRev
  <2> QED BY <2>4, <2>5
<1>5. N = Nat
  <2>1. N \in SUBSET Nat
    OBVIOUS
  <2> HIDE DEF N
  <2> QED BY <1>3, <1>4, <2>1, Induction
<1>6. P(n)
  <2> HIDE DEF P
  <2> QED BY <1>5
<1> QED BY <1>2, <1>6

(* Every item is shown where it is, even by a view behind a rebuild: the   *)
(* moves of other browsers are always replayed.                            *)
PlacesShown == view.places = db.places

(* Where the commands of a browser move items from.                        *)
LEMMA OperationsMove ==
  ASSUME Agree(engine, db), PlacesShown, NEW op \in Operations, NEW v, v.places = db.places
  PROVE  MovesFrom(op, v)
<1>1. CASE op \in ConnectionOperations
  BY <1>1 DEF ConnectionOperations, MovesFrom
<1>2. CASE op \in RouteOperations
  <2>1. op.kind \in {"route", "sides", "canonical", "reset", "automatic"}
    BY <1>2 DEF RouteOperations
  <2> QED BY <2>1 DEF MovesFrom
<1>3. CASE op \in AssignmentOperations
  <2>1. op.kind = "assign"
    BY <1>3, AssignmentOperationsOK
  <2> QED BY <2>1 DEF MovesFrom
<1>4. CASE op \in CanvasOperations
  <2>1. ASSUME NEW i \in Movable, NEW x \in Positions \cup {0},
               op = [kind |-> "place", changes |-> {[item |-> i, prev |-> db.places[i], next |-> x]}]
        PROVE  MovesFrom(op, v)
    <3> PICK ch : ch = [item |-> i, prev |-> db.places[i], next |-> x]  OBVIOUS
    <3>1. op.kind = "place" /\ op.changes = {ch}
      BY <2>1
    <3>2. ch.item = i /\ ch.next = x /\ ch.prev = db.places[i] /\ i \in Items
      BY InventoryAssumption
    <3>3. PlacesKnown({ch}, v.places)
      BY <3>2 DEF PlacesKnown
    <3> QED BY <3>1, <3>3 DEF MovesFrom
  <2>2. CASE op \in [kind : {"snap"}, nodes : {view.places}, planned : Positions]
    BY <2>2 DEF MovesFrom, PlacesShown
  <2>3. CASE op \in [kind : {"name"}, name : Labels]
    BY <2>3 DEF MovesFrom
  <2> QED BY <1>4, <2>1, <2>2, <2>3 DEF CanvasOperations
<1> QED BY <1>1, <1>2, <1>3, <1>4 DEF Operations

(* The patches of the commands that move items.                            *)
LEMMA MovePatches ==
  ASSUME NEW e, NEW op, op.kind \in {"place", "snap"}, NEW v, MovesFrom(op, v), NEW reply \in Dispatch(e, op)
  PROVE  \E C : /\ RealMoves(C)
                /\ reply.forward = <<PlacementPatch(C)>>
                /\ reply.inverse = <<PlacementPatch(Turned(C))>>
<1>1. e.rev # MaxRevision
  BY DEF Dispatch
<1>2. CASE op.kind = "place"
  <2>1. reply \in UpdatePlacements(e, op)
    BY <1>1, <1>2 DEF Dispatch
  <2>2. \A a, b \in op.changes : a.item = b.item => a = b
    BY <1>2 DEF MovesFrom, PlacesKnown
  <2> QED BY <2>1, <2>2, PlacePatches
<1>3. CASE op.kind = "snap"
  <2>1. reply \in SnapPlacementsToGrid(e, op)
    BY <1>1, <1>3 DEF Dispatch
  <2> DEFINE nodes == {i \in Items : op.nodes[i] # 0}
             all == [changes |-> {[item |-> i, prev |-> op.nodes[i], next |-> op.planned] : i \in nodes}]
  <2>2. reply \in UpdatePlacements(e, all)
    BY <2>1 DEF SnapPlacementsToGrid
  <2>3. \A a, b \in all.changes : a.item = b.item => a = b
    OBVIOUS
  <2> HIDE DEF all
  <2> QED BY <2>2, <2>3, PlacePatches
<1> QED BY <1>2, <1>3

(* A committed command: the store and the screen put every item to the     *)
(* same place, and a command that is not replayed moves none.              *)
LEMMA CommitPlaces ==
  ASSUME AllTyped, PlacesShown, NEW op \in Operations, NEW reply \in Dispatch(engine, op),
         NEW saved \in ApplyEnginePatch(db, reply)
  PROVE  /\ PatchView(view, reply.forward, saved.rev).places = saved.places
         /\ (\A mine \in ReplayOf(reply) : mine.engine.rev # saved.rev) => saved.places = db.places
<1>1. /\ Agree(engine, db) /\ OperationOK(op) /\ Typed(op) /\ Loaded(engine) /\ Builds(engine)
      /\ engine.rev = db.rev
      /\ Loaded(worker) /\ Builds(worker) /\ worker.rev = db.rev /\ view \in Views
  BY OperationsOK, OperationsTyped, AgreeLoaded DEF AllTyped, OneProject, BrowserOK
<1>2. PICK x \in Store(db, reply.forward) : saved = [x EXCEPT !.rev = reply.engine.rev]
  BY DEF ApplyEnginePatch, Store
<1> PICK e, d, fw : e = engine /\ d = db /\ fw = reply.forward  OBVIOUS
<1>3. Stores(e, d, reply, x) /\ e.rev # MaxRevision
  BY <1>1, <1>2, DispatchStores
<1>4. x \in Rows /\ d \in Rows
  BY <1>1, <1>3 DEF Stores, Agree, RowsOK
<1>5. saved.places = x.places /\ saved.rev = e.rev + 1
  BY <1>2, <1>3, <1>4 DEF Rows, Stores
<1>6. HasPlaces(d)
  BY <1>4 DEF Rows, HasPlaces
<1>7. PICK n \in Nat \ {0} : PatchOK(fw, n)
  <2>1. ReplyOK(e, reply)
    BY <1>1, DispatchType
  <2> QED BY <2>1 DEF ReplyOK
<1> PICK w : w = Show(view, fw)  OBVIOUS
<1>8. w \in Views
  BY <1>1, <1>7, ShowType
<1>9. PatchView(view, fw, saved.rev).places = w.places
  <2> PICK k : k = saved.rev  OBVIOUS
  <2>1. PatchView(view, fw, k) = [w EXCEPT !.rev = k]
    BY DEF PatchView, Show
  <2>2. [w EXCEPT !.rev = k].places = w.places
    BY <1>8 DEF Views
  <2> QED BY <2>1, <2>2
<1>10. CASE op.kind \in {"place", "snap"}
  <2>1. MovesFrom(op, view)
    BY <1>1, OperationsMove DEF PlacesShown
  <2>2. PICK C : RealMoves(C) /\ fw = <<PlacementPatch(C)>> /\ reply.inverse = <<PlacementPatch(Turned(C))>>
    BY <1>10, <2>1, MovePatches
  <2> PICK p : p = PlacementPatch(C)  OBVIOUS
  <2>3. p.kind = "placements"
    BY PlacementFacts
  <2>4. w.places = x.places
    <3>1. x \in Store(d, <<p>>) /\ w = Show(view, <<p>>) /\ view.places = d.places
      BY <1>2, <2>2 DEF PlacesShown
    <3> QED BY <1>1, <1>6, <2>3, <3>1, PlacesStored
  <2>5. \E mine \in ReplayOf(reply) : mine.engine.rev = worker.rev + 1
    BY <1>1, <1>3, <2>2, MovesReplayed
  <2>6. worker.rev + 1 = saved.rev
    BY <1>1, <1>5
  <2> QED BY <1>5, <1>9, <2>4, <2>5, <2>6
<1>11. CASE op.kind \notin {"place", "snap"}
  <2>1. x.places = d.places /\ \A k \in 1..n : fw[k].kind # "placements"
    <3>0. DOMAIN fw = 1..n
      BY <1>7 DEF PatchOK
    <3>1. CASE op.kind = "assign"
      <4>1. reply \in UpdateAssignments(e, op)
        BY <1>3, <3>1 DEF Dispatch
      <4>2. x.places = d.places
        BY <1>1, <1>2, <3>1, <4>1, AssignStores DEF OperationOK
      <4>3. PICK p : fw = <<p>> /\ p.kind = "assignments"
        <5> DEFINE C == {ch \in op.changes : ch.prev # ch.next}
                   p == AssignmentPatch({ch.prev : ch \in C}, {ch.next : ch \in C})
        <5>1. \E t, inv : reply \in CommitTopology(e, t, <<p>>, inv)
          BY <4>1 DEF UpdateAssignments
        <5>2. p.kind = "assignments"
          BY DEF AssignmentPatch
        <5> HIDE DEF p
        <5> QED BY <5>1, <5>2 DEF CommitTopology
      <4>4. \A k \in 1..n : fw[k].kind = "assignments"
        <5>1. KindsIn(<<p>>, {"assignments"})
          BY <4>3, OneKind
        <5> QED BY <3>0, <4>3, <5>1 DEF KindsIn
      <4> QED BY <4>2, <4>4
    <3>2. CASE op.kind # "assign"
      <4>1. KindsIn(fw, Parts \ {"placements", "assignments"})
        BY <1>1, <1>11, <3>2, DispatchKinds
      <4>2. \A k \in 1..n : fw[k].kind \notin {"placements", "assignments"}
        BY <3>0, <4>1 DEF KindsIn
      <4>3. x.places = d.places
        BY <1>2, <1>6, <1>7, <4>2, StoreKeepsPlaces
      <4> QED BY <4>2, <4>3
    <3> QED BY <3>1, <3>2
  <2>2. w.places = view.places
    BY <1>1, <1>7, <2>1, ShowKeepsPlaces
  <2> QED BY <1>5, <1>9, <2>1, <2>2 DEF PlacesShown
<1> QED BY <1>10, <1>11

(* Every step keeps the items where they are shown.                        *)
LEMMA PlacesShownNext == AllTyped /\ PlacesShown /\ [Next]_vars => PlacesShown'
<1> SUFFICES ASSUME AllTyped, PlacesShown, [Next]_vars PROVE PlacesShown'
  OBVIOUS
<1>1. db \in Rows
  BY DEF AllTyped, OneProject, Agree, RowsOK
<1>2. ASSUME NEW op \in Operations, OwnCommand(op) PROVE PlacesShown'
  <2>1. ASSUME NEW reply \in Dispatch(engine, op), NEW saved \in ApplyEnginePatch(db, reply),
               Commits(reply, saved), view' = PatchView(view, reply.forward, saved.rev)
        PROVE  PlacesShown'
    <3>1. PatchView(view, reply.forward, saved.rev).places = saved.places
      BY CommitPlaces
    <3>2. db' = saved
      BY <2>1 DEF Commits
    <3> QED BY <2>1, <3>1, <3>2 DEF PlacesShown
  <2>2. CASE (Refuses(op) \/ CannotSave(op)) /\ view' = view
    BY <2>2 DEF Refuses, CannotSave, PlacesShown
  <2> QED BY <1>2, <2>1, <2>2 DEF OwnCommand
<1>3. ASSUME NEW op \in Operations, ForeignCommand(op) PROVE PlacesShown'
  <2>1. ASSUME NEW reply \in Dispatch(engine, op), NEW saved \in ApplyEnginePatch(db, reply),
               Commits(reply, saved), view' = PatchView(view, reply.forward, saved.rev)
        PROVE  PlacesShown'
    <3>1. PatchView(view, reply.forward, saved.rev).places = saved.places
      BY CommitPlaces
    <3>2. db' = saved
      BY <2>1 DEF Commits
    <3> QED BY <2>1, <3>1, <3>2 DEF PlacesShown
  <2>2. ASSUME NEW reply \in Dispatch(engine, op), NEW saved \in ApplyEnginePatch(db, reply),
               Commits(reply, saved), \A mine \in ReplayOf(reply) : mine.engine.rev # saved.rev, view' = view
        PROVE  PlacesShown'
    <3>1. saved.places = db.places
      BY <2>2, CommitPlaces
    <3>2. db' = saved
      BY <2>2 DEF Commits
    <3> QED BY <2>2, <3>1, <3>2 DEF PlacesShown
  <2>3. CASE CannotSave(op) /\ view' = view
    BY <2>3 DEF CannotSave, PlacesShown
  <2> QED BY <1>3, <2>1, <2>2, <2>3 DEF ForeignCommand
<1>4. CASE Reload
  BY <1>4 DEF Reload, PlacesShown, ProjectOf
<1>5. CASE RebuildHandle \/ UNCHANGED vars
  BY <1>5 DEF RebuildHandle, vars, PlacesShown
<1>6. CASE OtherProject
  BY <1>1, <1>6 DEF OtherProject, PlacesShown, Rows
<1> QED BY <1>2, <1>3, <1>4, <1>5, <1>6 DEF Next, Mutate, Follow

(* A command of the server now, and its inverse.                           *)
LEMMA RestoresNow ==
  ASSUME AllTyped, PlacesShown, NEW op \in Operations, NEW reply \in Dispatch(engine, op),
         NEW there, there = PatchView(ProjectOf(db), reply.forward, db.rev),
         NEW back, back = PatchView(there, reply.inverse, db.rev)
  PROVE  /\ back.name = db.name /\ back.assigned = db.assigned /\ back.places = db.places
         /\ SameCables(back.conns, db.conns)
<1>1. Agree(engine, db) /\ OperationOK(op) /\ Typed(op) /\ Loaded(engine) /\ Builds(engine) /\ RowsOK(db)
  BY OperationsOK, OperationsTyped, AgreeLoaded DEF AllTyped, OneProject, Agree
<1> PICK e, d, v, n0 : e = engine /\ d = db /\ v = ProjectOf(db) /\ n0 = db.rev  OBVIOUS
<1>2. /\ v \in Views /\ v.rev = n0
      /\ v.name = d.name /\ v.conns = d.conns /\ v.assigned = d.assigned /\ v.places = d.places
  BY <1>1, ProjectType DEF ProjectOf, RowsOK
<1>3. Facing(e, v)
  <2>1. Mirrors(e.conns, d.conns)
    BY <1>1, MatchesMirrors DEF Agree
  <2> QED BY <1>1, <1>2, <2>1 DEF Facing, Agree
<1>4. MovesFrom(op, v)
  BY <1>1, <1>2, OperationsMove
<1>5. Undone(v, reply.forward, reply.inverse)
  BY <1>1, <1>3, <1>4, DispatchUndone
<1> PICK w, b : w = Show(v, reply.forward) /\ b = Show(w, reply.inverse)  OBVIOUS
<1>6. IsBack(b, v)
  BY <1>5 DEF Undone
<1>7. w \in Views /\ w.rev = n0
  <2>1. ReplyOK(e, reply)
    BY <1>1, DispatchType
  <2>2. PICK n \in Nat \ {0} : PatchOK(reply.forward, n)
    BY <2>1 DEF ReplyOK
  <2> QED BY <1>2, <2>2, ShowType, ShowKeepsRev
<1>8. there = w
  <2>1. there = [w EXCEPT !.rev = n0]
    BY DEF PatchView, Show
  <2> QED BY <1>7, <2>1 DEF Views
<1>9. back = [b EXCEPT !.rev = n0]
  BY <1>8 DEF PatchView, Show
<1>10. back.name = b.name /\ back.assigned = b.assigned /\ back.places = b.places /\ back.conns = b.conns
  BY <1>6, <1>9 DEF IsBack, Views
<1>11. SameCables(b.conns, d.conns)
  <2>1. b.conns \in SUBSET Cable /\ Mirrors(b.conns, d.conns)
    BY <1>2, <1>6 DEF IsBack, Views
  <2> QED BY <1>1, <2>1, MirrorsAreSame
<1> QED BY <1>2, <1>6, <1>10, <1>11 DEF IsBack

(* InverseRestores, for every inventory: the inverse of each patch the     *)
(* engine can answer with takes the project of the store back.             *)
THEOREM InversesRestore == Spec => []InverseRestores
<1>1. Init => PlacesShown
  BY DEF Init, PlacesShown, ProjectOf
<1>2. AllTyped /\ PlacesShown => InverseRestores
  <2> SUFFICES ASSUME AllTyped, PlacesShown, NEW op \in Operations, NEW reply \in Dispatch(engine, op),
                      NEW there, there = PatchView(ProjectOf(db), reply.forward, db.rev),
                      NEW back, back = PatchView(there, reply.inverse, db.rev)
               PROVE  /\ <<back.name, back.assigned, back.places>> = <<db.name, db.assigned, db.places>>
                      /\ SameCables(back.conns, db.conns)
    BY DEF InverseRestores
  <2> QED BY RestoresNow
<1> QED BY <1>1, <1>2, AllTypedInit, AllTypedNext, PlacesShownNext, PTL DEF Spec

-----------------------------------------------------------------------------
(* Two engines of one project *)

(* The engines w and e are one project, the sides of routes apart.         *)
Follows(w, e) ==
  /\ w.rev = e.rev /\ w.next = e.next /\ w.name = e.name
  /\ w.assigned = e.assigned /\ w.placed = e.placed
  /\ Mirrors(w.conns, e.conns)

(* Two engines at one revision commit topologies that are one project.     *)
LEMMA CommitFollows ==
  ASSUME NEW w \in Engines, NEW e \in Engines, w.rev = e.rev,
         NEW t \in Engines, NEW u \in Engines,
         t.next = u.next, t.name = u.name, t.assigned = u.assigned, t.placed = u.placed,
         Mirrors(t.conns, u.conns),
         NEW fw1, NEW inv1, NEW mine \in CommitTopology(w, t, fw1, inv1),
         NEW fw2, NEW inv2, NEW reply \in CommitTopology(e, u, fw2, inv2)
  PROVE  Follows(mine.engine, reply.engine)
<1> PICK x, y, n : x = mine.engine /\ y = reply.engine /\ n = e.rev + 1  OBVIOUS
<1>1. x = [t EXCEPT !.rev = n] /\ y = [u EXCEPT !.rev = n]
  BY DEF CommitTopology
<1>2. /\ x.rev = n /\ x.next = t.next /\ x.name = t.name /\ x.assigned = t.assigned
      /\ x.placed = t.placed /\ x.conns = t.conns
  BY <1>1 DEF Engines
<1>3. /\ y.rev = n /\ y.next = u.next /\ y.name = u.name /\ y.assigned = u.assigned
      /\ y.placed = u.placed /\ y.conns = u.conns
  BY <1>1 DEF Engines
<1> QED BY <1>2, <1>3 DEF Follows

(* Cables changed on both sides, under their ids.                          *)
LEMMA MirrorsMapped ==
  ASSUME NEW conns, NEW rows, Mirrors(conns, rows), NEW f, NEW g,
         \A c \in conns : f[c].id = c.id, \A r \in rows : g[r].id = r.id,
         \A c \in conns, r \in rows : c.id = r.id => SameButRoute(f[c], g[r]) /\ SameRoute(f[c], g[r])
  PROVE  Mirrors(Mapped(f, conns), Mapped(g, rows))
<1>1. /\ UniqueIds(conns) /\ UniqueIds(rows)
      /\ \A c \in conns : \E r \in rows : r.id = c.id
      /\ \A r \in rows : \E c \in conns : c.id = r.id
  BY DEF Mirrors, Traces
<1> PICK F, G : F = Mapped(f, conns) /\ G = Mapped(g, rows)  OBVIOUS
<1>2. UniqueIds(F) /\ UniqueIds(G)
  BY <1>1 DEF Mapped, UniqueIds
<1>3. /\ \A c \in F : \E r \in G : r.id = c.id
      /\ \A r \in G : \E c \in F : c.id = r.id
  BY <1>1 DEF Mapped
<1>4. \A c \in F, r \in G : c.id = r.id => SameButRoute(c, r) /\ SameRoute(c, r)
  BY <1>1 DEF Mapped
<1> QED BY <1>2, <1>3, <1>4 DEF Mirrors, Traces

(* A cable added on both sides.                                            *)
LEMMA MirrorsAdded ==
  ASSUME NEW conns, NEW rows, Mirrors(conns, rows), NEW c, NEW r, SameButRoute(c, r), SameRoute(c, r),
         \A d \in rows : d.id # r.id
  PROVE  Mirrors(conns \cup {c}, rows \cup {r})
<1>1. \A d \in conns : d.id # c.id
  BY DEF Mirrors, Traces, SameButRoute
<1>2. c.id = r.id
  BY DEF SameButRoute
<1>3. \A a \in conns, b \in rows : a.id = b.id => SameButRoute(a, b) /\ SameRoute(a, b)
  BY DEF Mirrors, Traces, IdsOf
<1>4. /\ UniqueIds(conns) /\ UniqueIds(rows)
      /\ \A a \in conns : \E b \in rows : b.id = a.id
      /\ \A b \in rows : \E a \in conns : a.id = b.id
  BY DEF Mirrors, Traces
<1> PICK F, G : F = conns \cup {c} /\ G = rows \cup {r}  OBVIOUS
<1>5. UniqueIds(F) /\ UniqueIds(G)
  BY <1>1, <1>4 DEF UniqueIds
<1>6. /\ \A a \in F : \E b \in G : b.id = a.id
      /\ \A b \in G : \E a \in F : a.id = b.id
  BY <1>2, <1>4
<1>7. \A a \in F, b \in G : a.id = b.id => SameButRoute(a, b) /\ SameRoute(a, b)
  BY <1>1, <1>2, <1>3
<1> QED BY <1>5, <1>6, <1>7 DEF Mirrors, Traces

(* A cable removed on both sides.                                          *)
LEMMA MirrorsWithout ==
  ASSUME NEW conns, NEW rows, Mirrors(conns, rows), NEW id
  PROVE  Mirrors(Without(conns, id), Without(rows, id))
<1>1. \A a \in conns, b \in rows : a.id = b.id => SameButRoute(a, b) /\ SameRoute(a, b)
  BY DEF Mirrors, Traces, IdsOf
<1> QED BY <1>1 DEF Mirrors, Traces, Without, UniqueIds, IdsOf

(* Taking a cable away is taking its id away.                              *)
LEMMA WithoutOne ==
  ASSUME NEW conns, UniqueIds(conns), NEW c \in conns
  PROVE  conns \ {c} = Without(conns, c.id)
  BY DEF UniqueIds, Without

(* update_project_metadata                                                 *)
LEMMA NameFollows ==
  ASSUME NEW w \in Engines, NEW e \in Engines, Follows(w, e), NEW op,
         NEW mine \in UpdateProjectMetadata(w, op), NEW reply \in UpdateProjectMetadata(e, op)
  PROVE  Follows(mine.engine, reply.engine)
<1> PICK n, v, x, y : n = e.rev + 1 /\ v = op.name /\ x = mine.engine /\ y = reply.engine  OBVIOUS
<1>1. x = [[w EXCEPT !.name = v] EXCEPT !.rev = w.rev + 1] /\ y = [[e EXCEPT !.name = v] EXCEPT !.rev = n]
  BY DEF UpdateProjectMetadata, CommitTopology
<1>2. w.rev + 1 = n
  BY DEF Follows
<1>3. /\ x.rev = n /\ x.next = w.next /\ x.name = v /\ x.assigned = w.assigned
      /\ x.placed = w.placed /\ x.conns = w.conns
  BY <1>1, <1>2 DEF Engines
<1>4. /\ y.rev = n /\ y.next = e.next /\ y.name = v /\ y.assigned = e.assigned
      /\ y.placed = e.placed /\ y.conns = e.conns
  BY <1>1 DEF Engines
<1> QED BY <1>3, <1>4 DEF Follows

(* What a patch of positions places and takes away.                        *)
Ups(p) == {u.item : u \in p.upsert}

(* The moves of a command that are ones.                                   *)
Real(C) == {ch \in C : ch.prev # ch.next}

(* update_placements: the placed items afterwards.                         *)
LEMMA PlacedAfter ==
  ASSUME NEW e \in Engines, NEW op, NEW reply \in UpdatePlacements(e, op),
         NEW p, p = PlacementPatch(Real(op.changes)), NEW y, y = reply.engine
  PROVE  /\ y.rev = e.rev + 1 /\ y.next = e.next /\ y.name = e.name /\ y.assigned = e.assigned
         /\ y.placed = (e.placed \cup Ups(p)) \ p.remove /\ y.conns = e.conns
<1> PICK v, n : v = (e.placed \cup Ups(p)) \ p.remove /\ n = e.rev + 1  OBVIOUS
<1>1. p = PlacementPatch({ch \in op.changes : ch.prev # ch.next}) /\ v = (e.placed \cup {u.item : u \in p.upsert}) \ p.remove
  BY DEF Real, Ups
<1>2. PICK inv : reply \in CommitTopology(e, [e EXCEPT !.placed = v], <<p>>, inv)
  BY <1>1 DEF UpdatePlacements
<1>3. y = [[e EXCEPT !.placed = v] EXCEPT !.rev = n]
  BY <1>2 DEF CommitTopology
<1> QED BY <1>3 DEF Engines

(* Two engines that place and take away the same.                          *)
LEMMA PlaceFollows ==
  ASSUME NEW w \in Engines, NEW e \in Engines, Follows(w, e), NEW op1, NEW op2,
         NEW p1, p1 = PlacementPatch(Real(op1.changes)), NEW p2, p2 = PlacementPatch(Real(op2.changes)),
         Ups(p1) = Ups(p2), p1.remove = p2.remove,
         NEW mine \in UpdatePlacements(w, op1), NEW reply \in UpdatePlacements(e, op2)
  PROVE  Follows(mine.engine, reply.engine)
<1> PICK x, y : x = mine.engine /\ y = reply.engine  OBVIOUS
<1>1. /\ x.rev = w.rev + 1 /\ x.next = w.next /\ x.name = w.name /\ x.assigned = w.assigned
      /\ x.placed = (w.placed \cup Ups(p1)) \ p1.remove /\ x.conns = w.conns
  BY PlacedAfter
<1>2. /\ y.rev = e.rev + 1 /\ y.next = e.next /\ y.name = e.name /\ y.assigned = e.assigned
      /\ y.placed = (e.placed \cup Ups(p2)) \ p2.remove /\ y.conns = e.conns
  BY PlacedAfter
<1> QED BY <1>1, <1>2 DEF Follows

(* snap_placements_to_grid is a move of everything.                        *)
SnapChanges(op) ==
  [changes |-> {[item |-> i, prev |-> op.nodes[i], next |-> op.planned] : i \in {j \in Items : op.nodes[j] # 0}}]

(* The moves of a snap, whatever the engine.                               *)
LEMMA SnapMoves ==
  ASSUME NEW e, NEW op, NEW reply \in SnapPlacementsToGrid(e, op)
  PROVE  reply \in UpdatePlacements(e, SnapChanges(op))
  BY DEF SnapPlacementsToGrid, SnapChanges

(* Assignments replaced.                                                   *)
NewAssigned(A, C) == (A \ {ch.prev : ch \in Real(C)}) \cup ({ch.next : ch \in Real(C)} \ {NoAssignment})

(* update_assignments: the assignments afterwards.                         *)
LEMMA AssignedAfter ==
  ASSUME NEW e \in Engines, NEW op, NEW reply \in UpdateAssignments(e, op), NEW y, y = reply.engine
  PROVE  /\ y.rev = e.rev + 1 /\ y.next = e.next /\ y.name = e.name
         /\ y.assigned = NewAssigned(e.assigned, op.changes)
         /\ y.placed = e.placed /\ y.conns = e.conns
<1> PICK v, n : v = NewAssigned(e.assigned, op.changes) /\ n = e.rev + 1  OBVIOUS
<1> PICK C : C = {ch \in op.changes : ch.prev # ch.next}  OBVIOUS
<1> PICK old, new : old = {ch.prev : ch \in C} /\ new = {ch.next : ch \in C}  OBVIOUS
<1>1. v = (e.assigned \ old) \cup (new \ {NoAssignment})
  BY DEF NewAssigned, Real
<1>2. PICK inv : reply \in CommitTopology(e, [e EXCEPT !.assigned = v], <<AssignmentPatch(old, new)>>, inv)
  BY <1>1 DEF UpdateAssignments
<1>3. y = [[e EXCEPT !.assigned = v] EXCEPT !.rev = n]
  BY <1>2 DEF CommitTopology
<1> QED BY <1>3 DEF Engines

(* Two engines that replace the same.                                      *)
LEMMA AssignFollows ==
  ASSUME NEW w \in Engines, NEW e \in Engines, Follows(w, e), NEW op1, NEW op2,
         NewAssigned(e.assigned, op1.changes) = NewAssigned(e.assigned, op2.changes),
         NEW mine \in UpdateAssignments(w, op1), NEW reply \in UpdateAssignments(e, op2)
  PROVE  Follows(mine.engine, reply.engine)
<1> PICK x, y : x = mine.engine /\ y = reply.engine  OBVIOUS
<1>1. /\ x.rev = w.rev + 1 /\ x.next = w.next /\ x.name = w.name
      /\ x.assigned = NewAssigned(w.assigned, op1.changes)
      /\ x.placed = w.placed /\ x.conns = w.conns
  BY AssignedAfter
<1>2. /\ y.rev = e.rev + 1 /\ y.next = e.next /\ y.name = e.name
      /\ y.assigned = NewAssigned(e.assigned, op2.changes)
      /\ y.placed = e.placed /\ y.conns = e.conns
  BY AssignedAfter
<1> QED BY <1>1, <1>2 DEF Follows

-----------------------------------------------------------------------------
(* Commands on the cables of two engines *)

(* The engine y is e a revision later, with other cables.                  *)
SameButCables(e, y) ==
  /\ y.rev = e.rev + 1 /\ y.next = e.next /\ y.name = e.name
  /\ y.assigned = e.assigned /\ y.placed = e.placed

(* The engine y is e with other routes.                                    *)
Rerouting(e, y) == SameButCables(e, y) /\ Traces(y.conns, e.conns, {})

(* Routes with the same bends on both sides.                               *)
LEMMA RoutesFollow ==
  ASSUME NEW w, NEW e, Follows(w, e), NEW x, NEW y, Rerouting(w, x), Rerouting(e, y),
         \A c \in x.conns, d \in y.conns : c.id = d.id => SameRoute(c, d)
  PROVE  Follows(x, y)
<1> PICK A, B, F, G : A = w.conns /\ B = e.conns /\ F = x.conns /\ G = y.conns  OBVIOUS
<1>1. Mirrors(A, B) /\ Traces(F, A, {}) /\ Traces(G, B, {})
  BY DEF Follows, Rerouting
<1>2. \A a \in A, b \in B : a.id = b.id => SameButRoute(a, b)
  BY <1>1 DEF Mirrors, Traces
<1>3. \A c \in F, a \in A : c.id = a.id => SameButRoute(c, a)
  BY <1>1 DEF Traces
<1>4. \A d \in G, b \in B : d.id = b.id => SameButRoute(d, b)
  BY <1>1 DEF Traces
<1>5. UniqueIds(F) /\ UniqueIds(G)
  BY <1>1 DEF Traces
<1>6. /\ \A c \in F : \E a \in A : a.id = c.id
      /\ \A a \in A : \E b \in B : b.id = a.id
      /\ \A b \in B : \E d \in G : d.id = b.id
      /\ \A d \in G : \E b \in B : b.id = d.id
      /\ \A b \in B : \E a \in A : a.id = b.id
      /\ \A a \in A : \E c \in F : c.id = a.id
  BY <1>1 DEF Mirrors, Traces
<1>7. (\A c \in F : \E d \in G : d.id = c.id) /\ (\A d \in G : \E c \in F : c.id = d.id)
  BY <1>6
<1>8. ASSUME NEW c \in F, NEW d \in G, c.id = d.id PROVE SameButRoute(c, d)
  <2>1. PICK a \in A, b \in B : a.id = c.id /\ b.id = a.id
    BY <1>6
  <2>2. SameButRoute(c, a) /\ SameButRoute(a, b) /\ SameButRoute(d, b)
    BY <1>2, <1>3, <1>4, <1>8, <2>1
  <2> QED BY <2>2 DEF SameButRoute
<1>9. Mirrors(F, G)
  BY <1>5, <1>7, <1>8 DEF Mirrors, Traces
<1> QED BY <1>9 DEF Follows, Rerouting, SameButCables

(* The engine e with its cables mapped by g.                               *)
Remapped(e, g) == [e EXCEPT !.conns = Mapped(g, e.conns)]

(* The cable c of e replaced by n.                                         *)
Replacing(e, c, n) == [b \in e.conns |-> IF b.id = c.id THEN n ELSE b]

(* Cables replaced by others with the same ids.                            *)
LEMMA MappedAfter ==
  ASSUME NEW e \in Engines, UniqueIds(e.conns), NEW g, \A c \in e.conns : g[c] \in Cable /\ g[c].id = c.id,
         NEW fw, NEW inv, NEW reply \in CommitTopology(e, Remapped(e, g), fw, inv), NEW y, y = reply.engine
  PROVE  /\ SameButCables(e, y) /\ y.conns = Mapped(g, e.conns) /\ UniqueIds(y.conns)
         /\ \A a \in e.conns, b \in y.conns : a.id = b.id => b = g[a]
         /\ \A a \in e.conns : \E b \in y.conns : b.id = a.id
         /\ \A b \in y.conns : \E a \in e.conns : b.id = a.id
<1> PICK cs, n : cs = Mapped(g, e.conns) /\ n = e.rev + 1  OBVIOUS
<1>1. y = [[e EXCEPT !.conns = cs] EXCEPT !.rev = n]
  BY DEF CommitTopology, Remapped
<1>2. /\ y.rev = n /\ y.next = e.next /\ y.name = e.name /\ y.assigned = e.assigned
      /\ y.placed = e.placed /\ y.conns = cs
  BY <1>1 DEF Engines
<1>3. /\ UniqueIds(cs)
      /\ \A a \in e.conns, b \in cs : a.id = b.id => b = g[a]
      /\ \A a \in e.conns : \E b \in cs : b.id = a.id
      /\ \A b \in cs : \E a \in e.conns : b.id = a.id
  BY DEF Mapped, UniqueIds
<1> QED BY <1>2, <1>3 DEF SameButCables

(* Mapped cables that keep all but their routes.                           *)
LEMMA ReroutedAfter ==
  ASSUME NEW e \in Engines, UniqueIds(e.conns), NEW rr, Rerouted(rr, e.conns),
         NEW fw, NEW inv, NEW reply \in CommitTopology(e, Remapped(e, rr), fw, inv), NEW y, y = reply.engine
  PROVE  /\ Rerouting(e, y)
         /\ \A a \in e.conns, b \in y.conns : a.id = b.id => b = rr[a]
<1>1. ASSUME NEW c \in e.conns PROVE rr[c] \in Cable /\ SameButRoute(rr[c], c)
  <2>1. c \in Cable /\ rr[c] \in Cable
    BY DEF Engines, Rerouted
  <2> PICK r : r = rr[c].route  OBVIOUS
  <2>2. rr[c] = [c EXCEPT !.route = r]
    BY DEF Rerouted
  <2> QED BY <2>1, <2>2 DEF Cable, SameButRoute
<1>2. \A c \in e.conns : rr[c] \in Cable /\ rr[c].id = c.id
  BY <1>1 DEF SameButRoute
<1>3. /\ SameButCables(e, y) /\ UniqueIds(y.conns)
      /\ \A a \in e.conns, b \in y.conns : a.id = b.id => b = rr[a]
      /\ \A a \in e.conns : \E b \in y.conns : b.id = a.id
      /\ \A b \in y.conns : \E a \in e.conns : b.id = a.id
  BY <1>2, MappedAfter
<1>4. \A b \in y.conns, a \in e.conns : b.id = a.id => SameButRoute(b, a)
  BY <1>1, <1>3
<1>5. Traces(y.conns, e.conns, {})
  BY <1>3, <1>4 DEF Traces
<1> QED BY <1>3, <1>5 DEF Rerouting

(* The end of the commands on several routes.                              *)
LEMMA BatchAfter ==
  ASSUME NEW e \in Engines, UniqueIds(e.conns), NEW new, \A c \in e.conns : new[c] \in RouteValues,
         NEW reply \in RouteBatch(e, new), NEW y, y = reply.engine
  PROVE  /\ Rerouting(e, y)
         /\ \A a \in e.conns, b \in y.conns : a.id = b.id => b.route = new[a]
<1> DEFINE R(c) == [c EXCEPT !.route = new[c]]
           rr == [c \in e.conns |-> R(c)]
<1>1. \A c \in e.conns : rr[c] = R(c)
  OBVIOUS
<1>2. {R(c) : c \in e.conns} = Mapped(rr, e.conns)
  <2> HIDE DEF R, rr
  <2> QED BY <1>1 DEF Mapped
<1>3. PICK fw, inv : reply \in CommitTopology(e, [e EXCEPT !.conns = {R(c) : c \in e.conns}], fw, inv)
  BY DEF RouteBatch
<1>4. ASSUME NEW c \in e.conns PROVE /\ rr[c] \in Cable /\ rr[c].route = new[c]
                                     /\ rr[c] = [c EXCEPT !.route = rr[c].route]
  <2> PICK r \in RouteValues : r = new[c]
    OBVIOUS
  <2>1. c \in Cable /\ rr[c] = [c EXCEPT !.route = r]
    BY DEF Engines
  <2> HIDE DEF rr
  <2>2. rr[c] \in Cable /\ rr[c].route = r
    BY <2>1 DEF Cable
  <2> QED BY <2>1, <2>2
<1> HIDE DEF R, rr
<1>5. Rerouted(rr, e.conns)
  BY <1>4 DEF Rerouted
<1>6. reply \in CommitTopology(e, Remapped(e, rr), fw, inv)
  BY <1>2, <1>3 DEF Remapped
<1>7. Rerouting(e, y) /\ \A a \in e.conns, b \in y.conns : a.id = b.id => b = rr[a]
  BY <1>5, <1>6, ReroutedAfter
<1> QED BY <1>4, <1>7

(* One cable replaced, as a map.                                           *)
LEMMA WithConnectionMaps ==
  ASSUME NEW e, UniqueIds(e.conns), NEW c \in e.conns, NEW n,
         NEW g, g = Replacing(e, c, n)
  PROVE  /\ WithConnection(e, c.id, n) = Remapped(e, g)
         /\ g[c] = n /\ \A b \in e.conns : b.id # c.id => g[b] = b
         /\ \A b \in e.conns : b.id = c.id => b = c
<1> DEFINE k(b) == IF b.id = c.id THEN n ELSE b
<1>1. \A b \in e.conns : g[b] = k(b)
  BY DEF Replacing
<1>2. {k(b) : b \in e.conns} = Mapped(g, e.conns)
  <2> HIDE DEF k
  <2> QED BY <1>1 DEF Mapped
<1>3. WithConnection(e, c.id, n) = [e EXCEPT !.conns = {k(b) : b \in e.conns}]
  BY DEF WithConnection
<1>4. WithConnection(e, c.id, n) = Remapped(e, g)
  <2> HIDE DEF k
  <2> QED BY <1>2, <1>3 DEF Remapped
<1> QED BY <1>1, <1>4 DEF UniqueIds

(* update_connection_route                                                 *)
LEMMA RouteAfter ==
  ASSUME NEW e \in Engines, UniqueIds(e.conns), NEW op, op.route \in RouteValues,
         NEW reply \in UpdateConnectionRoute(e, op), NEW y, y = reply.engine
  PROVE  /\ Rerouting(e, y) /\ reply.forward = <<RoutePatch(op.id, op.route)>>
         /\ \A a \in e.conns, b \in y.conns :
              a.id = b.id => b.route = IF a.id = op.id THEN op.route ELSE a.route
<1> PICK p, r : p = RoutePatch(op.id, op.route) /\ r = op.route  OBVIOUS
<1>1. PICK c \in e.conns :
         /\ c.id = op.id
         /\ \E inv : reply \in CommitTopology(e, WithConnection(e, op.id, [c EXCEPT !.route = op.route]), <<p>>, inv)
  BY DEF UpdateConnectionRoute
<1> PICK inv : reply \in CommitTopology(e, WithConnection(e, op.id, [c EXCEPT !.route = op.route]), <<p>>, inv)
  BY <1>1
<1> PICK n : n = [c EXCEPT !.route = r]  OBVIOUS
<1> PICK g : g = Replacing(e, c, n)  OBVIOUS
<1>2. \A b \in e.conns : b \in Cable
  BY DEF Engines
<1>3. n \in Cable /\ n.route = r
  BY <1>2 DEF Cable
<1>4. /\ WithConnection(e, c.id, n) = Remapped(e, g)
      /\ g[c] = n /\ \A b \in e.conns : b.id # c.id => g[b] = b
      /\ \A b \in e.conns : b.id = c.id => b = c
  BY WithConnectionMaps
<1>5. ASSUME NEW b \in e.conns PROVE g[b] \in Cable /\ g[b] = [b EXCEPT !.route = g[b].route]
  <2>1. CASE b = c
    BY <1>3, <1>4, <2>1
  <2>2. CASE b # c
    <3>1. g[b] = b /\ b \in Cable
      BY <1>2, <1>4, <2>2
    <3> QED BY <3>1 DEF Cable
  <2> QED BY <2>1, <2>2
<1>6. Rerouted(g, e.conns)
  BY <1>5 DEF Rerouted
<1>7. reply \in CommitTopology(e, Remapped(e, g), <<p>>, inv)
  BY <1>1, <1>4
<1>8. Rerouting(e, y) /\ \A a \in e.conns, b \in y.conns : a.id = b.id => b = g[a]
  BY <1>6, <1>7, ReroutedAfter
<1>9. \A a \in e.conns : g[a].route = IF a.id = op.id THEN op.route ELSE a.route
  BY <1>1, <1>3, <1>4
<1>10. reply.forward = <<p>>
  BY <1>7 DEF CommitTopology
<1> QED BY <1>8, <1>9, <1>10

(* A route that is none has no bends and avoids nothing.                   *)
LEMMA OrEmptyFacts ==
  ASSUME NEW r \in RouteValues
  PROVE  /\ OrEmpty(r) \in RouteValues /\ OrEmpty(r).bends = r.bends /\ OrEmpty(r).avoid = r.avoid
<1>1. NoRoute.bends = 0 /\ NoRoute.avoid = FALSE /\ EmptyRoute.bends = 0 /\ EmptyRoute.avoid = FALSE
  BY DEF NoRoute, EmptyRoute
<1>2. EmptyRoute \in RouteValues
  BY DEF EmptyRoute, RouteValues
<1> QED BY <1>1, <1>2 DEF OrEmpty

(* resolve_connection_route_sides leaves the bends.                        *)
LEMMA SidesAfter ==
  ASSUME NEW e \in Engines, UniqueIds(e.conns), NEW op, op.src \in Sides, op.tgt \in Sides,
         NEW reply \in ResolveConnectionRouteSides(e, op), NEW y, y = reply.engine
  PROVE  Rerouting(e, y) /\ \A a \in e.conns, b \in y.conns : a.id = b.id => SameRoute(b, a)
<1> DEFINE new == [c \in e.conns |->
        IF c.id \notin op.ids THEN c.route
        ELSE [OrEmpty(c.route) EXCEPT !.src = IF @ = "none" THEN op.src ELSE @,
                                      !.tgt = IF @ = "none" THEN op.tgt ELSE @]]
<1>1. reply \in RouteBatch(e, new)
  BY DEF ResolveConnectionRouteSides
<1>2. ASSUME NEW c \in e.conns
      PROVE  new[c] \in RouteValues /\ new[c].bends = c.route.bends /\ new[c].avoid = c.route.avoid
  <2>1. c.route \in RouteValues
    BY DEF Engines, Cable
  <2> PICK r \in RouteValues : r = OrEmpty(c.route) /\ r.bends = c.route.bends /\ r.avoid = c.route.avoid
    BY <2>1, OrEmptyFacts
  <2> PICK x : x = [r EXCEPT !.src = IF @ = "none" THEN op.src ELSE @,
                             !.tgt = IF @ = "none" THEN op.tgt ELSE @]
    OBVIOUS
  <2>2. x \in RouteValues /\ x.bends = r.bends /\ x.avoid = r.avoid
    BY DEF RouteValues
  <2>3. new[c] = c.route \/ new[c] = x
    OBVIOUS
  <2> HIDE DEF new
  <2> QED BY <2>1, <2>2, <2>3
<1> HIDE DEF new
<1>3. Rerouting(e, y) /\ \A a \in e.conns, b \in y.conns : a.id = b.id => b.route = new[a]
  BY <1>1, <1>2, BatchAfter
<1> QED BY <1>2, <1>3 DEF SameRoute

(* The bends that changes give to a cable.                                 *)
BendsIn(changes, a) ==
  IF \E ch \in changes : ch.id = a.id THEN (CHOOSE ch \in changes : ch.id = a.id).bends
  ELSE a.route.bends

(* canonicalize_connection_routes changes bends only.                      *)
LEMMA CanonicalAfter ==
  ASSUME NEW e \in Engines, UniqueIds(e.conns), NEW op, \A ch \in op.changes : ch.bends \in Bends \cup {0},
         NEW reply \in CanonicalizeConnectionRoutes(e, op), NEW y, y = reply.engine
  PROVE  /\ Rerouting(e, y)
         /\ \A a \in e.conns, b \in y.conns :
              a.id = b.id => b.route.bends = BendsIn(op.changes, a) /\ b.route.avoid = a.route.avoid
<1> DEFINE new == [c \in e.conns |->
        IF \E ch \in op.changes : ch.id = c.id
          THEN [OrEmpty(c.route) EXCEPT !.bends =
                 (CHOOSE ch \in op.changes : ch.id = c.id).bends]
          ELSE c.route]
<1>1. reply \in RouteBatch(e, new)
  BY DEF CanonicalizeConnectionRoutes
<1>2. ASSUME NEW c \in e.conns
      PROVE  /\ new[c] \in RouteValues
             /\ new[c].bends = BendsIn(op.changes, c) /\ new[c].avoid = c.route.avoid
  <2>1. c.route \in RouteValues
    BY DEF Engines, Cable
  <2> PICK r \in RouteValues : r = OrEmpty(c.route) /\ r.bends = c.route.bends /\ r.avoid = c.route.avoid
    BY <2>1, OrEmptyFacts
  <2> DEFINE ch == CHOOSE ch \in op.changes : ch.id = c.id
  <2>3. CASE \E b \in op.changes : b.id = c.id
    <3>1. ch \in op.changes
      BY <2>3, Zenon
    <3>2. BendsIn(op.changes, c) = ch.bends
      BY <2>3 DEF BendsIn
    <3>3. new[c] = [r EXCEPT !.bends = ch.bends]
      BY <2>3
    <3> HIDE DEF ch, new
    <3> PICK b \in Bends \cup {0} : b = ch.bends
      BY <3>1
    <3>4. new[c] = [r EXCEPT !.bends = b]
      BY <3>3
    <3>5. new[c] \in RouteValues /\ new[c].bends = b /\ new[c].avoid = r.avoid
      BY <3>4 DEF RouteValues
    <3> QED BY <3>2, <3>5
  <2>4. CASE ~\E b \in op.changes : b.id = c.id
    <3>1. new[c] = c.route /\ BendsIn(op.changes, c) = c.route.bends
      BY <2>4 DEF BendsIn
    <3> QED BY <2>1, <3>1
  <2> QED BY <2>3, <2>4
<1> HIDE DEF new
<1>3. Rerouting(e, y) /\ \A a \in e.conns, b \in y.conns : a.id = b.id => b.route = new[a]
  BY <1>1, <1>2, BatchAfter
<1> QED BY <1>2, <1>3

(* reset_all_connection_bends                                              *)
LEMMA ResetAfter ==
  ASSUME NEW e \in Engines, UniqueIds(e.conns), NEW op,
         NEW reply \in ResetAllConnectionBends(e, op), NEW y, y = reply.engine
  PROVE  /\ Rerouting(e, y)
         /\ \A a \in e.conns, b \in y.conns :
              a.id = b.id => b.route.bends = 0 /\ b.route.avoid = a.route.avoid
<1> DEFINE new == [c \in e.conns |->
        IF c.route.bends = 0 THEN c.route
        ELSE IF [c.route EXCEPT !.bends = 0] = EmptyRoute THEN NoRoute
        ELSE [c.route EXCEPT !.bends = 0]]
<1>1. reply \in RouteBatch(e, new)
  BY DEF ResetAllConnectionBends
<1>2. ASSUME NEW c \in e.conns
      PROVE  new[c] \in RouteValues /\ new[c].bends = 0 /\ new[c].avoid = c.route.avoid
  <2> PICK r \in RouteValues : r = c.route
    BY DEF Engines, Cable
  <2> PICK x : x = [r EXCEPT !.bends = 0]  OBVIOUS
  <2>1. x \in RouteValues /\ x.bends = 0 /\ x.avoid = r.avoid
    BY DEF RouteValues
  <2>2. NoRoute \in RouteValues /\ NoRoute.bends = 0 /\ NoRoute.avoid = FALSE /\ EmptyRoute.avoid = FALSE
    BY DEF RouteValues, NoRoute, EmptyRoute
  <2>3. \/ new[c] = r /\ r.bends = 0
        \/ new[c] = NoRoute /\ x = EmptyRoute
        \/ new[c] = x
    OBVIOUS
  <2> HIDE DEF new
  <2> QED BY <2>1, <2>2, <2>3
<1> HIDE DEF new
<1>3. Rerouting(e, y) /\ \A a \in e.conns, b \in y.conns : a.id = b.id => b.route = new[a]
  BY <1>1, <1>2, BatchAfter
<1> QED BY <1>2, <1>3

(* restore_automatic_connection_routes                                     *)
LEMMA AutomaticAfter ==
  ASSUME NEW e \in Engines, UniqueIds(e.conns), NEW op,
         NEW reply \in RestoreAutomaticConnectionRoutes(e, op), NEW y, y = reply.engine
  PROVE  /\ Rerouting(e, y)
         /\ \A a \in e.conns, b \in y.conns :
              a.id = b.id => b.route.bends = 0 /\ b.route.avoid = a.route.avoid
<1> DEFINE new == [c \in e.conns |->
        IF {c.route.src, c.route.tgt} \cap Sides = {} /\ c.route.bends = 0 THEN c.route
        ELSE IF c.route.avoid THEN [EmptyRoute EXCEPT !.avoid = TRUE]
        ELSE NoRoute]
<1>1. reply \in RouteBatch(e, new)
  BY DEF RestoreAutomaticConnectionRoutes
<1>2. ASSUME NEW c \in e.conns
      PROVE  new[c] \in RouteValues /\ new[c].bends = 0 /\ new[c].avoid = c.route.avoid
  <2> PICK r \in RouteValues : r = c.route
    BY DEF Engines, Cable
  <2> PICK x : x = [EmptyRoute EXCEPT !.avoid = TRUE]  OBVIOUS
  <2>1. x \in RouteValues /\ x.bends = 0 /\ x.avoid = TRUE
    BY DEF RouteValues, EmptyRoute
  <2>2. NoRoute \in RouteValues /\ NoRoute.bends = 0 /\ NoRoute.avoid = FALSE
    BY DEF RouteValues, NoRoute
  <2>3. \/ new[c] = r /\ r.bends = 0
        \/ new[c] = x /\ r.avoid
        \/ new[c] = NoRoute /\ ~r.avoid
    OBVIOUS
  <2>4. r.avoid \in BOOLEAN
    BY DEF RouteValues
  <2> HIDE DEF new
  <2> QED BY <2>1, <2>2, <2>3, <2>4
<1> HIDE DEF new
<1>3. Rerouting(e, y) /\ \A a \in e.conns, b \in y.conns : a.id = b.id => b.route = new[a]
  BY <1>1, <1>2, BatchAfter
<1> QED BY <1>2, <1>3

(* Routes set alike where they were alike.                                 *)
LEMMA AlikeRoutesFollow ==
  ASSUME NEW w, NEW e, Follows(w, e), NEW x, NEW y, Rerouting(w, x), Rerouting(e, y),
         \A a \in w.conns, b \in e.conns, c \in x.conns, d \in y.conns :
           a.id = b.id /\ c.id = a.id /\ d.id = a.id /\ SameRoute(a, b) => SameRoute(c, d)
  PROVE  Follows(x, y)
<1> SUFFICES ASSUME NEW c \in x.conns, NEW d \in y.conns, c.id = d.id PROVE SameRoute(c, d)
  BY RoutesFollow
<1>1. PICK a \in w.conns : a.id = c.id
  BY DEF Rerouting, Traces
<1>2. PICK b \in e.conns : b.id = a.id
  BY DEF Follows, Mirrors, Traces
<1>3. SameRoute(a, b)
  BY <1>2 DEF Follows, Mirrors, Traces, IdsOf
<1> QED BY <1>1, <1>2, <1>3

(* Two engines that follow each other and are engines.                     *)
Partners(w, e) ==
  /\ Loaded(w) /\ Builds(w) /\ Loaded(e) /\ Builds(e) /\ Follows(w, e)

(* Their ids are unique.                                                   *)
LEMMA PartnersUnique ==
  ASSUME NEW w, NEW e, Partners(w, e)
  PROVE  /\ w \in Engines /\ e \in Engines /\ UniqueIds(w.conns) /\ UniqueIds(e.conns) /\ Follows(w, e)
         /\ w.conns \in SUBSET Cable /\ e.conns \in SUBSET Cable
  BY DEF Partners, Loaded, Follows, Mirrors, Traces, Engines

(* The commands on several routes, on two engines.                         *)
LEMMA BatchFollows ==
  ASSUME NEW w, NEW e, Partners(w, e), NEW op, Typed(op),
         NEW mine, NEW reply,
         \/ op.kind = "sides" /\ mine \in ResolveConnectionRouteSides(w, op)
                              /\ reply \in ResolveConnectionRouteSides(e, op)
         \/ op.kind = "canonical" /\ mine \in CanonicalizeConnectionRoutes(w, op)
                                  /\ reply \in CanonicalizeConnectionRoutes(e, op)
         \/ mine \in ResetAllConnectionBends(w, op) /\ reply \in ResetAllConnectionBends(e, op)
         \/ mine \in RestoreAutomaticConnectionRoutes(w, op) /\ reply \in RestoreAutomaticConnectionRoutes(e, op)
  PROVE  Follows(mine.engine, reply.engine)
<1> PICK x, y : x = mine.engine /\ y = reply.engine  OBVIOUS
<1>0. w \in Engines /\ e \in Engines /\ UniqueIds(w.conns) /\ UniqueIds(e.conns) /\ Follows(w, e)
  BY PartnersUnique
<1>1. CASE op.kind = "sides" /\ mine \in ResolveConnectionRouteSides(w, op)
                             /\ reply \in ResolveConnectionRouteSides(e, op)
  <2>0. op.src \in Sides /\ op.tgt \in Sides
    BY <1>1 DEF Typed
  <2>1. Rerouting(w, x) /\ \A a \in w.conns, b \in x.conns : a.id = b.id => SameRoute(b, a)
    BY <1>0, <1>1, <2>0, SidesAfter
  <2>2. Rerouting(e, y) /\ \A a \in e.conns, b \in y.conns : a.id = b.id => SameRoute(b, a)
    BY <1>0, <1>1, <2>0, SidesAfter
  <2>3. \A a \in w.conns, b \in e.conns, c \in x.conns, d \in y.conns :
          a.id = b.id /\ c.id = a.id /\ d.id = a.id /\ SameRoute(a, b) => SameRoute(c, d)
    BY <2>1, <2>2 DEF SameRoute
  <2> QED BY <1>0, <2>1, <2>2, <2>3, AlikeRoutesFollow
<1>2. CASE op.kind = "canonical" /\ mine \in CanonicalizeConnectionRoutes(w, op)
                                 /\ reply \in CanonicalizeConnectionRoutes(e, op)
  <2>0. \A ch \in op.changes : ch.bends \in Bends \cup {0}
    BY <1>2 DEF Typed
  <2>1. /\ Rerouting(w, x)
        /\ \A a \in w.conns, b \in x.conns :
             a.id = b.id => b.route.bends = BendsIn(op.changes, a) /\ b.route.avoid = a.route.avoid
    BY <1>0, <1>2, <2>0, CanonicalAfter
  <2>2. /\ Rerouting(e, y)
        /\ \A a \in e.conns, b \in y.conns :
             a.id = b.id => b.route.bends = BendsIn(op.changes, a) /\ b.route.avoid = a.route.avoid
    BY <1>0, <1>2, <2>0, CanonicalAfter
  <2>3. \A a \in w.conns, b \in e.conns :
          a.id = b.id /\ SameRoute(a, b) => BendsIn(op.changes, a) = BendsIn(op.changes, b)
    BY DEF BendsIn, SameRoute
  <2>4. \A a \in w.conns, b \in e.conns, c \in x.conns, d \in y.conns :
          a.id = b.id /\ c.id = a.id /\ d.id = a.id /\ SameRoute(a, b) => SameRoute(c, d)
    BY <2>1, <2>2, <2>3 DEF SameRoute
  <2> QED BY <1>0, <2>1, <2>2, <2>4, AlikeRoutesFollow
<1>3. ASSUME Rerouting(w, x), \A a \in w.conns, b \in x.conns : a.id = b.id => b.route.bends = 0 /\ b.route.avoid = a.route.avoid,
             Rerouting(e, y), \A a \in e.conns, b \in y.conns : a.id = b.id => b.route.bends = 0 /\ b.route.avoid = a.route.avoid
      PROVE  Follows(x, y)
  <2>1. \A a \in w.conns, b \in e.conns, c \in x.conns, d \in y.conns :
          a.id = b.id /\ c.id = a.id /\ d.id = a.id /\ SameRoute(a, b) => SameRoute(c, d)
    BY <1>3 DEF SameRoute
  <2> QED BY <1>0, <1>3, <2>1, AlikeRoutesFollow
<1>4. CASE mine \in ResetAllConnectionBends(w, op) /\ reply \in ResetAllConnectionBends(e, op)
  <2>1. Rerouting(w, x) /\ \A a \in w.conns, b \in x.conns : a.id = b.id => b.route.bends = 0 /\ b.route.avoid = a.route.avoid
    BY <1>0, <1>4, ResetAfter
  <2>2. Rerouting(e, y) /\ \A a \in e.conns, b \in y.conns : a.id = b.id => b.route.bends = 0 /\ b.route.avoid = a.route.avoid
    BY <1>0, <1>4, ResetAfter
  <2> QED BY <1>3, <2>1, <2>2
<1>5. CASE mine \in RestoreAutomaticConnectionRoutes(w, op) /\ reply \in RestoreAutomaticConnectionRoutes(e, op)
  <2>1. Rerouting(w, x) /\ \A a \in w.conns, b \in x.conns : a.id = b.id => b.route.bends = 0 /\ b.route.avoid = a.route.avoid
    BY <1>0, <1>5, AutomaticAfter
  <2>2. Rerouting(e, y) /\ \A a \in e.conns, b \in y.conns : a.id = b.id => b.route.bends = 0 /\ b.route.avoid = a.route.avoid
    BY <1>0, <1>5, AutomaticAfter
  <2> QED BY <1>3, <2>1, <2>2
<1> QED BY <1>1, <1>2, <1>4, <1>5

(* update_connection_route, on two engines.                                *)
LEMMA RouteFollows ==
  ASSUME NEW w, NEW e, Partners(w, e), NEW op, op.route \in RouteValues,
         NEW mine \in UpdateConnectionRoute(w, op), NEW reply \in UpdateConnectionRoute(e, op)
  PROVE  Follows(mine.engine, reply.engine)
<1> PICK x, y : x = mine.engine /\ y = reply.engine  OBVIOUS
<1>0. w \in Engines /\ e \in Engines /\ UniqueIds(w.conns) /\ UniqueIds(e.conns) /\ Follows(w, e)
  BY PartnersUnique
<1>1. Rerouting(w, x) /\ \A a \in w.conns, b \in x.conns :
                           a.id = b.id => b.route = IF a.id = op.id THEN op.route ELSE a.route
  BY <1>0, RouteAfter
<1>2. Rerouting(e, y) /\ \A a \in e.conns, b \in y.conns :
                           a.id = b.id => b.route = IF a.id = op.id THEN op.route ELSE a.route
  BY <1>0, RouteAfter
<1>3. \A a \in w.conns, b \in e.conns, c \in x.conns, d \in y.conns :
        a.id = b.id /\ c.id = a.id /\ d.id = a.id /\ SameRoute(a, b) => SameRoute(c, d)
  BY <1>1, <1>2 DEF SameRoute
<1> QED BY <1>0, <1>1, <1>2, <1>3, AlikeRoutesFollow

(* The cables of e with the label of a command.                            *)
Labelling(e, op) == [b \in e.conns |-> IF b.id = op.id THEN [b EXCEPT !.label = op.label] ELSE b]

(* The part of its patch.                                                  *)
LabelPart(op) == [kind |-> "label", id |-> op.id, label |-> op.label]

(* update_connection_label: the cables afterwards.                         *)
LEMMA LabelAfter ==
  ASSUME NEW e \in Engines, UniqueIds(e.conns), NEW op, op.label \in Labels \cup {0},
         NEW reply \in UpdateConnectionLabel(e, op), NEW y, y = reply.engine,
         NEW g, g = Labelling(e, op)
  PROVE  /\ SameButCables(e, y) /\ y.conns = Mapped(g, e.conns)
         /\ \A b \in e.conns : g[b] \in Cable /\ g[b].id = b.id
         /\ reply.forward = <<LabelPart(op)>>
<1> PICK p, l : p = [kind |-> "label", id |-> op.id, label |-> op.label] /\ l = op.label  OBVIOUS
<1>1. PICK c \in e.conns :
         /\ c.id = op.id
         /\ \E inv : reply \in CommitTopology(e, WithConnection(e, op.id, [c EXCEPT !.label = op.label]), <<p>>, inv)
  BY DEF UpdateConnectionLabel
<1> PICK inv : reply \in CommitTopology(e, WithConnection(e, op.id, [c EXCEPT !.label = op.label]), <<p>>, inv)
  BY <1>1
<1> PICK n : n = [c EXCEPT !.label = l]  OBVIOUS
<1>2. \A b \in e.conns : b \in Cable
  BY DEF Engines
<1>3. n \in Cable /\ n.id = c.id
  BY <1>2 DEF Cable
<1>4. g = Replacing(e, c, n)
  BY <1>1 DEF UniqueIds, Replacing, Labelling
<1>5. /\ WithConnection(e, c.id, n) = Remapped(e, g)
      /\ g[c] = n /\ \A b \in e.conns : b.id # c.id => g[b] = b
      /\ \A b \in e.conns : b.id = c.id => b = c
  <2> PICK h : h = Replacing(e, c, n)  OBVIOUS
  <2>1. /\ WithConnection(e, c.id, n) = Remapped(e, h)
        /\ h[c] = n /\ \A b \in e.conns : b.id # c.id => h[b] = b
        /\ \A b \in e.conns : b.id = c.id => b = c
    BY WithConnectionMaps
  <2> QED BY <1>4, <2>1
<1>6. reply \in CommitTopology(e, Remapped(e, g), <<p>>, inv)
  BY <1>1, <1>5
<1>7. \A b \in e.conns : g[b] \in Cable /\ g[b].id = b.id
  BY <1>2, <1>3, <1>5
<1>8. SameButCables(e, y) /\ y.conns = Mapped(g, e.conns)
  BY <1>6, <1>7, MappedAfter
<1>9. reply.forward = <<p>>
  BY <1>6 DEF CommitTopology
<1> QED BY <1>7, <1>8, <1>9 DEF LabelPart

(* update_connection_label, on two engines.                                *)
LEMMA LabelFollows ==
  ASSUME NEW w, NEW e, Partners(w, e), NEW op, op.label \in Labels \cup {0},
         NEW mine \in UpdateConnectionLabel(w, op), NEW reply \in UpdateConnectionLabel(e, op)
  PROVE  Follows(mine.engine, reply.engine)
<1> PICK x, y, f, g : x = mine.engine /\ y = reply.engine /\ f = Labelling(w, op) /\ g = Labelling(e, op)  OBVIOUS
<1>0. /\ w \in Engines /\ e \in Engines /\ UniqueIds(w.conns) /\ UniqueIds(e.conns) /\ Follows(w, e)
      /\ w.conns \in SUBSET Cable /\ e.conns \in SUBSET Cable
  BY PartnersUnique
<1>1. /\ SameButCables(w, x) /\ x.conns = Mapped(f, w.conns)
      /\ \A b \in w.conns : f[b] \in Cable /\ f[b].id = b.id
  BY <1>0, LabelAfter
<1>2. /\ SameButCables(e, y) /\ y.conns = Mapped(g, e.conns)
      /\ \A b \in e.conns : g[b] \in Cable /\ g[b].id = b.id
  BY <1>0, LabelAfter
<1>3. ASSUME NEW a \in w.conns, NEW b \in e.conns, a.id = b.id
      PROVE  SameButRoute(f[a], g[b]) /\ SameRoute(f[a], g[b])
  <2>1. SameButRoute(a, b) /\ SameRoute(a, b) /\ a \in Cable /\ b \in Cable
    BY <1>0, <1>3 DEF Follows, Mirrors, Traces, IdsOf
  <2> PICK l : l = op.label  OBVIOUS
  <2>2. CASE a.id = op.id
    <3>1. f[a] = [a EXCEPT !.label = l] /\ g[b] = [b EXCEPT !.label = l]
      BY <1>3, <2>2 DEF Labelling
    <3> QED BY <2>1, <3>1 DEF Cable, SameButRoute, SameRoute
  <2>3. CASE a.id # op.id
    <3>1. f[a] = a /\ g[b] = b
      BY <1>3, <2>3 DEF Labelling
    <3> QED BY <2>1, <3>1
  <2> QED BY <2>2, <2>3
<1> PICK A, B : A = w.conns /\ B = e.conns  OBVIOUS
<1>4. Mirrors(Mapped(f, A), Mapped(g, B))
  <2>1. Mirrors(A, B)
    BY <1>0 DEF Follows
  <2> QED BY <1>1, <1>2, <1>3, <2>1, MirrorsMapped
<1> QED BY <1>0, <1>1, <1>2, <1>4 DEF Follows, SameButCables

-----------------------------------------------------------------------------
(* Cables made and removed on two engines *)

(* The cables of t with the types and speeds of their networks.            *)
Renewed(t) == [c \in t.conns |-> [c EXCEPT !.type = Classify(t, c), !.speed = Negotiated(t, c)]]

(* Those are what normalize_connection_derived_states makes.               *)
LEMMA RenewedFacts ==
  ASSUME NEW t \in Engines
  PROVE  /\ NormalizeDerived(t).conns = Mapped(Renewed(t), t.conns)
         /\ \A c \in t.conns : LET d == Renewed(t)[c] IN
              /\ d.id = c.id /\ d.label = c.label /\ d.from = c.from /\ d.to = c.to /\ d.route = c.route
              /\ d.type = Classify(t, c) /\ d.speed = Negotiated(t, c)
<1> DEFINE F(c) == [c EXCEPT !.type = Classify(t, c), !.speed = Negotiated(t, c)]
<1>1. \A c \in t.conns : Renewed(t)[c] = F(c) /\ c \in Cable
  BY DEF Renewed, Engines
<1>2. NormalizeDerived(t).conns = {F(c) : c \in t.conns}
  BY DEF NormalizeDerived, Engines
<1>3. ASSUME NEW c \in t.conns, NEW d, d = Renewed(t)[c]
      PROVE  /\ d.id = c.id /\ d.label = c.label /\ d.from = c.from /\ d.to = c.to /\ d.route = c.route
             /\ d.type = Classify(t, c) /\ d.speed = Negotiated(t, c)
  <2> PICK ty, sp : ty = Classify(t, c) /\ sp = Negotiated(t, c)  OBVIOUS
  <2>1. d = [c EXCEPT !.type = ty, !.speed = sp] /\ c \in Cable
    BY <1>1, <1>3
  <2> HIDE DEF F
  <2> QED BY <2>1 DEF Cable
<1> HIDE DEF F
<1>4. NormalizeDerived(t).conns = Mapped(Renewed(t), t.conns)
  <2> PICK g, S : g = Renewed(t) /\ S = t.conns  OBVIOUS
  <2>1. \A c \in S : g[c] = F(c)
    BY <1>1
  <2>2. {F(c) : c \in S} = Mapped(g, S)
    BY <2>1 DEF Mapped
  <2> QED BY <1>2, <2>2
<1> QED BY <1>3, <1>4

(* Copies of cables have copies of derived states.                         *)
LEMMA NormalizedMirrors ==
  ASSUME NEW s \in Engines, NEW t \in Engines, s.assigned = t.assigned, Mirrors(s.conns, t.conns), Exposed(t)
  PROVE  Mirrors(NormalizeDerived(s).conns, NormalizeDerived(t).conns)
<1>1. \A c \in s.conns, d \in t.conns : c.id = d.id => SameButRoute(c, d) /\ SameRoute(c, d)
  BY DEF Mirrors, Traces, IdsOf
<1>2. /\ \A c \in s.conns : \E d \in t.conns : d.id = c.id
      /\ \A d \in t.conns : \E c \in s.conns : c.id = d.id
  BY DEF Mirrors, Traces
<1>3. \A c \in s.conns, d \in t.conns : c.id = d.id => SameWire(c, d)
  BY <1>1 DEF SameButRoute, SameWire
<1>4. \A r : Exposes(s, r) <=> Exposes(t, r)
  BY DEF Exposes, AssignedTo
<1>5. Exposed(s)
  BY <1>2, <1>3, <1>4 DEF Exposed, SameWire
<1>6. Wired(s) /\ Wired(t)
  BY DEF Wired, Engines, Cable
<1>7. Alike(s, t)
  BY <1>2, <1>3, <1>5, <1>6 DEF Alike
<1> PICK f, g, A, B : f = Renewed(s) /\ g = Renewed(t) /\ A = s.conns /\ B = t.conns  OBVIOUS
<1>8. /\ NormalizeDerived(s).conns = Mapped(f, A)
      /\ \A c \in A : /\ f[c].id = c.id /\ f[c].label = c.label /\ f[c].from = c.from /\ f[c].to = c.to
                      /\ f[c].route = c.route /\ f[c].type = Classify(s, c) /\ f[c].speed = Negotiated(s, c)
  BY RenewedFacts
<1>9. /\ NormalizeDerived(t).conns = Mapped(g, B)
      /\ \A c \in B : /\ g[c].id = c.id /\ g[c].label = c.label /\ g[c].from = c.from /\ g[c].to = c.to
                      /\ g[c].route = c.route /\ g[c].type = Classify(t, c) /\ g[c].speed = Negotiated(t, c)
  BY RenewedFacts
<1>10. ASSUME NEW c \in A, NEW d \in B, c.id = d.id
       PROVE  SameButRoute(f[c], g[d]) /\ SameRoute(f[c], g[d])
  <2>1. Classify(s, c) = Classify(t, d) /\ Negotiated(s, c) = Negotiated(t, d)
    BY <1>3, <1>7, <1>10, ClassifyAlike, NegotiatedAlike
  <2>2. SameButRoute(c, d) /\ SameRoute(c, d)
    BY <1>1, <1>10
  <2> QED BY <1>8, <1>9, <2>1, <2>2 DEF SameButRoute, SameRoute
<1>11. Mirrors(Mapped(f, A), Mapped(g, B))
  <2>1. (\A c \in A : f[c].id = c.id) /\ (\A c \in B : g[c].id = c.id) /\ Mirrors(A, B)
    BY <1>8, <1>9
  <2> QED BY <1>10, <2>1, MirrorsMapped
<1> QED BY <1>8, <1>9, <1>11

(* The engine y is u at the next revision of e, with its derived states.   *)
Renews(e, u, y) ==
  /\ u \in Engines /\ y.rev = e.rev + 1 /\ y.next = u.next /\ y.name = u.name
  /\ y.assigned = u.assigned /\ y.placed = u.placed
  /\ y.conns = NormalizeDerived(u).conns

(* commit_topology of normalized states.                                   *)
LEMMA RenewsCommitted ==
  ASSUME NEW e \in Engines, NEW u \in Engines, NEW fw, NEW inv,
         NEW reply \in CommitTopology(e, NormalizeDerived(u), fw, inv)
  PROVE  Renews(e, u, reply.engine)
<1> PICK t, y, n : t = NormalizeDerived(u) /\ y = reply.engine /\ n = e.rev + 1  OBVIOUS
<1>1. /\ t \in Engines /\ t.next = u.next /\ t.name = u.name
      /\ t.assigned = u.assigned /\ t.placed = u.placed
  BY Redrawn
<1>2. y = [t EXCEPT !.rev = n]
  BY DEF CommitTopology
<1>3. /\ y.rev = n /\ y.next = t.next /\ y.name = t.name /\ y.assigned = t.assigned
      /\ y.placed = t.placed /\ y.conns = t.conns
  BY <1>1, <1>2 DEF Engines
<1> QED BY <1>1, <1>3 DEF Renews

(* If its ports exist, those of u do.                                      *)
LEMMA RenewsExposed ==
  ASSUME NEW e, NEW u, NEW y, Renews(e, u, y), Exposed(y)
  PROVE  Exposed(u)
<1> PICK g : g = Renewed(u)  OBVIOUS
<1>1. y.conns = Mapped(g, u.conns) /\ \A c \in u.conns : g[c].from = c.from /\ g[c].to = c.to
  BY RenewedFacts DEF Renews
<1>2. \A r : Exposes(u, r) <=> Exposes(y, r)
  BY DEF Exposes, AssignedTo, Renews
<1>3. \A c \in u.conns : g[c] \in y.conns
  BY <1>1 DEF Mapped
<1> QED BY <1>1, <1>2, <1>3 DEF Exposed

(* Two engines that follow each other, renewed.                            *)
LEMMA RenewsFollow ==
  ASSUME NEW w, NEW e, w.rev = e.rev, NEW s, NEW t, NEW x, NEW y, Renews(w, s, x), Renews(e, t, y), Exposed(y),
         s.next = t.next, s.name = t.name, s.assigned = t.assigned, s.placed = t.placed,
         Mirrors(s.conns, t.conns)
  PROVE  Follows(x, y)
<1>1. Exposed(t)
  BY RenewsExposed
<1>2. s \in Engines /\ t \in Engines
  BY DEF Renews
<1>3. Mirrors(x.conns, y.conns)
  BY <1>1, <1>2, NormalizedMirrors DEF Renews
<1> QED BY <1>3 DEF Renews, Follows

(* create_connection: what is renewed.                                     *)
LEMMA CreateRenews ==
  ASSUME NEW e, Loaded(e), NEW op, op.from \in Refs, op.to \in Refs,
         NEW reply \in CreateConnection(e, op), NEW c, c = NewConnection(e, op)
  PROVE  /\ ValidateConnection(e, op.from, op.to) /\ c \in Cable /\ c.id = e.next
         /\ \E u : /\ Renews(e, u, reply.engine)
                   /\ u.conns = e.conns \cup {c} /\ u.next = e.next + 1 /\ u.name = e.name
                   /\ u.assigned = e.assigned /\ u.placed = e.placed
<1> DEFINE u == [e EXCEPT !.conns = e.conns \cup {c}, !.next = c.id + 1]
           a == [kind |-> "add", conn |-> Only(NormalizeDerived(u), NormalizeDerived(u).next - 1)]
<1>0. ValidateConnection(e, op.from, op.to)
  BY DEF CreateConnection
<1>1. PICK fw, inv : reply \in CommitTopology(e, NormalizeDerived(u), fw, inv)
  <2>2. PICK inv : reply \in CommitTopology(e, NormalizeDerived(u), Batch(a, e, NormalizeDerived(u)), inv)
    BY <1>0 DEF CreateConnection, Batch
  <2> QED BY <2>2
<1>2. e \in Engines /\ e.conns \in SUBSET Cable /\ \A b \in e.conns : b.id < e.next
  BY DEF Loaded, Engines
<1>3. ConnectionId(e) = e.next /\ e.next \in Nat \ {0}
  <2>1. e.next \in Nat \ {0}
    BY <1>2 DEF Engines
  <2> QED BY <1>2, <2>1, NextId
<1>4. c \in Cable /\ c.id = e.next
  <2>1. NoRoute \in RouteValues
    BY DEF NoRoute, RouteValues
  <2> PICK w \in RouteValues, i \in Nat \ {0} : w = NoRoute /\ i = ConnectionId(e) /\ i = e.next
    BY <1>3, <2>1
  <2> QED BY DEF NewConnection, Cable
<1> PICK cs, n : cs = e.conns \cup {c} /\ n = c.id + 1  OBVIOUS
<1>5. cs \in SUBSET Cable /\ n \in Nat \ {0} /\ n = e.next + 1
  BY <1>2, <1>3, <1>4
<1>6. u = [e EXCEPT !.conns = cs, !.next = n]
  OBVIOUS
<1> HIDE DEF u
<1>7. /\ u \in Engines /\ u.conns = cs /\ u.next = n /\ u.name = e.name
      /\ u.assigned = e.assigned /\ u.placed = e.placed
  BY <1>2, <1>5, <1>6 DEF Engines
<1>8. Renews(e, u, reply.engine)
  BY <1>1, <1>2, <1>7, RenewsCommitted
<1>9. \E v : /\ Renews(e, v, reply.engine)
             /\ v.conns = e.conns \cup {c} /\ v.next = e.next + 1 /\ v.name = e.name
             /\ v.assigned = e.assigned /\ v.placed = e.placed
  BY <1>5, <1>7, <1>8
<1> QED BY <1>0, <1>4, <1>9

(* A connection between the same ends, on two engines.                     *)
LEMMA CreateFollows ==
  ASSUME NEW w, NEW e, Partners(w, e), NEW op1, op1.from \in Refs, op1.to \in Refs,
         NEW op2, op2.from \in Refs, op2.to \in Refs,
         NEW mine \in CreateConnection(w, op1), NEW reply \in CreateConnection(e, op2), Exposed(reply.engine),
         NEW c, c = NewConnection(w, op1), NEW d, d = NewConnection(e, op2), c.from = d.from, c.to = d.to
  PROVE  Follows(mine.engine, reply.engine)
<1> PICK x, y : x = mine.engine /\ y = reply.engine  OBVIOUS
<1>0. Loaded(w) /\ Loaded(e) /\ Follows(w, e)
  BY DEF Partners
<1>1. /\ c.id = w.next
      /\ \E s : /\ Renews(w, s, x)
                /\ s.conns = w.conns \cup {c} /\ s.next = w.next + 1 /\ s.name = w.name
                /\ s.assigned = w.assigned /\ s.placed = w.placed
  BY <1>0, CreateRenews
<1>2. /\ d.id = e.next
      /\ \E t : /\ Renews(e, t, y)
                /\ t.conns = e.conns \cup {d} /\ t.next = e.next + 1 /\ t.name = e.name
                /\ t.assigned = e.assigned /\ t.placed = e.placed
  BY <1>0, CreateRenews
<1>3. PICK s : /\ Renews(w, s, x)
               /\ s.conns = w.conns \cup {c} /\ s.next = w.next + 1 /\ s.name = w.name
               /\ s.assigned = w.assigned /\ s.placed = w.placed
  BY <1>1
<1>4. PICK t : /\ Renews(e, t, y)
               /\ t.conns = e.conns \cup {d} /\ t.next = e.next + 1 /\ t.name = e.name
               /\ t.assigned = e.assigned /\ t.placed = e.placed
  BY <1>2
<1>5. SameButRoute(c, d) /\ SameRoute(c, d)
  <2>1. c.id = d.id
    BY <1>0, <1>1, <1>2 DEF Follows
  <2>2. /\ c.type = "other" /\ c.speed = 0 /\ c.label = 0 /\ c.route = NoRoute
        /\ d.type = "other" /\ d.speed = 0 /\ d.label = 0 /\ d.route = NoRoute
    BY DEF NewConnection
  <2> QED BY <2>1, <2>2 DEF SameButRoute, SameRoute
<1> PICK A, B : A = w.conns /\ B = e.conns  OBVIOUS
<1>6. \A b \in B : b.id # d.id
  <2>1. e.next \in Nat /\ \A b \in e.conns : b.id \in Nat /\ b.id < e.next
    BY <1>0 DEF Loaded, Engines, Cable
  <2> QED BY <1>2, <2>1
<1>7. Mirrors(A \cup {c}, B \cup {d})
  <2>1. Mirrors(A, B)
    BY <1>0 DEF Follows
  <2> QED BY <1>5, <1>6, <2>1, MirrorsAdded
<1>8. /\ w.rev = e.rev /\ s.next = t.next /\ s.name = t.name /\ s.assigned = t.assigned /\ s.placed = t.placed
      /\ Mirrors(s.conns, t.conns)
  BY <1>0, <1>3, <1>4, <1>7 DEF Follows
<1> QED BY <1>3, <1>4, <1>8, RenewsFollow

(* remove_connection: what is renewed.                                     *)
LEMMA RemoveRenews ==
  ASSUME NEW e \in Engines, UniqueIds(e.conns), NEW op, NEW reply \in RemoveConnection(e, op)
  PROVE  \E u : /\ Renews(e, u, reply.engine)
                /\ u.conns = Without(e.conns, op.id) /\ u.next = e.next /\ u.name = e.name
                /\ u.assigned = e.assigned /\ u.placed = e.placed
<1> DEFINE U(c) == [e EXCEPT !.conns = e.conns \ {c}]
           p == [kind |-> "remove", conn |-> Only(e, op.id)]
<1>1. PICK c \in e.conns : /\ c.id = op.id
        /\ \E inv : reply \in CommitTopology(e, NormalizeDerived(U(c)), Batch(p, e, NormalizeDerived(U(c))), inv)
  BY DEF RemoveConnection, Batch
<1> PICK inv : reply \in CommitTopology(e, NormalizeDerived(U(c)), Batch(p, e, NormalizeDerived(U(c))), inv)
  BY <1>1
<1> PICK cs, u : cs = e.conns \ {c} /\ u = U(c)  OBVIOUS
<1>2. cs \in SUBSET Cable /\ u = [e EXCEPT !.conns = cs]
  BY DEF Engines
<1>3. /\ u \in Engines /\ u.conns = cs /\ u.next = e.next /\ u.name = e.name
      /\ u.assigned = e.assigned /\ u.placed = e.placed
  BY <1>2 DEF Engines
<1>4. cs = Without(e.conns, op.id)
  BY <1>1, WithoutOne
<1>5. Renews(e, u, reply.engine)
  BY <1>3, RenewsCommitted
<1> QED BY <1>3, <1>4, <1>5

(* remove_connection, on two engines.                                      *)
LEMMA RemoveFollows ==
  ASSUME NEW w, NEW e, Partners(w, e), NEW op1, NEW op2, op1.id = op2.id,
         NEW mine \in RemoveConnection(w, op1), NEW reply \in RemoveConnection(e, op2), Exposed(reply.engine)
  PROVE  Follows(mine.engine, reply.engine)
<1> PICK x, y : x = mine.engine /\ y = reply.engine  OBVIOUS
<1>0. w \in Engines /\ e \in Engines /\ UniqueIds(w.conns) /\ UniqueIds(e.conns) /\ Follows(w, e)
  BY PartnersUnique
<1>1. PICK s : /\ Renews(w, s, x)
               /\ s.conns = Without(w.conns, op1.id) /\ s.next = w.next /\ s.name = w.name
               /\ s.assigned = w.assigned /\ s.placed = w.placed
  BY <1>0, RemoveRenews
<1>2. PICK t : /\ Renews(e, t, y)
               /\ t.conns = Without(e.conns, op2.id) /\ t.next = e.next /\ t.name = e.name
               /\ t.assigned = e.assigned /\ t.placed = e.placed
  BY <1>0, RemoveRenews
<1>3. Mirrors(s.conns, t.conns)
  BY <1>0, <1>1, <1>2, MirrorsWithout DEF Follows
<1>4. w.rev = e.rev /\ s.next = t.next /\ s.name = t.name /\ s.assigned = t.assigned /\ s.placed = t.placed
  BY <1>0, <1>1, <1>2 DEF Follows
<1> QED BY <1>1, <1>2, <1>3, <1>4, RenewsFollow

-----------------------------------------------------------------------------
(* One command on two engines *)

(* Engine::dispatch: a worker that is the project of the server runs the   *)
(* command of its browser as the server does.                              *)
LEMMA DispatchFollows ==
  ASSUME NEW w, NEW e, Partners(w, e), NEW op, Typed(op),
         NEW mine \in Dispatch(w, op), NEW reply \in Dispatch(e, op), Exposed(reply.engine)
  PROVE  Follows(mine.engine, reply.engine)
<1>1. w.rev # MaxRevision /\ e.rev # MaxRevision
  BY DEF Dispatch
<1>2. w \in Engines /\ e \in Engines /\ Follows(w, e)
  BY PartnersUnique
<1>3. CASE op.kind = "create"
  <2>1. mine \in CreateConnection(w, op) /\ reply \in CreateConnection(e, op)
    BY <1>1, <1>3 DEF Dispatch
  <2>2. op.from \in Refs /\ op.to \in Refs
    BY <1>3 DEF Typed
  <2> PICK c, d : c = NewConnection(w, op) /\ d = NewConnection(e, op)  OBVIOUS
  <2>3. c.from = d.from /\ c.to = d.to
    BY DEF NewConnection
  <2> QED BY <2>1, <2>2, <2>3, CreateFollows
<1>4. CASE op.kind = "remove"
  <2>1. mine \in RemoveConnection(w, op) /\ reply \in RemoveConnection(e, op)
    BY <1>1, <1>4 DEF Dispatch
  <2> QED BY <2>1, RemoveFollows
<1>5. CASE op.kind = "label"
  <2>1. mine \in UpdateConnectionLabel(w, op) /\ reply \in UpdateConnectionLabel(e, op)
    BY <1>1, <1>5 DEF Dispatch
  <2> QED BY <1>5, <2>1, LabelFollows DEF Typed
<1>6. CASE op.kind = "route"
  <2>1. mine \in UpdateConnectionRoute(w, op) /\ reply \in UpdateConnectionRoute(e, op)
    BY <1>1, <1>6 DEF Dispatch
  <2> QED BY <1>6, <2>1, RouteFollows DEF Typed
<1>7. CASE op.kind = "sides"
  <2>1. mine \in ResolveConnectionRouteSides(w, op) /\ reply \in ResolveConnectionRouteSides(e, op)
    BY <1>1, <1>7 DEF Dispatch
  <2> QED BY <1>7, <2>1, BatchFollows
<1>8. CASE op.kind = "canonical"
  <2>1. mine \in CanonicalizeConnectionRoutes(w, op) /\ reply \in CanonicalizeConnectionRoutes(e, op)
    BY <1>1, <1>8 DEF Dispatch
  <2> QED BY <1>8, <2>1, BatchFollows
<1>9. CASE op.kind = "reset"
  <2>1. mine \in ResetAllConnectionBends(w, op) /\ reply \in ResetAllConnectionBends(e, op)
    BY <1>1, <1>9 DEF Dispatch
  <2> QED BY <2>1, BatchFollows
<1>10. CASE op.kind = "automatic"
  <2>1. mine \in RestoreAutomaticConnectionRoutes(w, op) /\ reply \in RestoreAutomaticConnectionRoutes(e, op)
    BY <1>1, <1>10 DEF Dispatch
  <2> QED BY <2>1, BatchFollows
<1>11. CASE op.kind = "name"
  <2>1. mine \in UpdateProjectMetadata(w, op) /\ reply \in UpdateProjectMetadata(e, op)
    BY <1>1, <1>11 DEF Dispatch
  <2> QED BY <1>2, <2>1, NameFollows
<1>12. CASE op.kind = "assign"
  <2>1. mine \in UpdateAssignments(w, op) /\ reply \in UpdateAssignments(e, op)
    BY <1>1, <1>12 DEF Dispatch
  <2> QED BY <1>2, <2>1, AssignFollows
<1>13. CASE op.kind = "place"
  <2>1. mine \in UpdatePlacements(w, op) /\ reply \in UpdatePlacements(e, op)
    BY <1>1, <1>13 DEF Dispatch
  <2> QED BY <1>2, <2>1, PlaceFollows
<1>14. CASE op.kind = "snap"
  <2>1. mine \in SnapPlacementsToGrid(w, op) /\ reply \in SnapPlacementsToGrid(e, op)
    BY <1>1, <1>14 DEF Dispatch
  <2>2. mine \in UpdatePlacements(w, SnapChanges(op)) /\ reply \in UpdatePlacements(e, SnapChanges(op))
    BY <2>1, SnapMoves
  <2> QED BY <1>2, <2>2, PlaceFollows
<1> QED BY <1>3, <1>4, <1>5, <1>6, <1>7, <1>8, <1>9, <1>10, <1>11, <1>12, <1>13, <1>14
           DEF Typed, Kinds

-----------------------------------------------------------------------------
(* Commands rebuilt from patches *)

(* The assignment of an id in a patch.                                     *)
AssignmentIn(all, id) == IF \E a \in all : a.id = id THEN CHOOSE a \in all : a.id = id ELSE NoAssignment

(* operationForCommittedPatch of a patch that replaces assignments.        *)
Exchanges(p, q) ==
  {[prev |-> AssignmentIn(q.upsert, id), next |-> AssignmentIn(p.upsert, id)] : id \in Touched(p) \cup Touched(q)}

(* The patch fw is a batch of routes.                                      *)
ManyRoutes(fw, n) == n > 1 /\ \A i \in 1..n : fw[i].kind = "route"

(* operationForCommittedPatch: the first part stands for the patch.        *)
LEMMA OperationOfPart ==
  ASSUME NEW fw, NEW inv, NEW n \in Nat, Len(fw) = n, ~ManyRoutes(fw, n),
         NEW p, p = Head(fw), NEW op, op = OperationFor(fw, inv)
  PROVE  /\ p.kind \in {"name", "label", "route"} => op = p
         /\ p.kind = "add" => op.kind = "create" /\ op.from = p.conn.from /\ op.to = p.conn.to
         /\ p.kind = "remove" => op.kind = "remove" /\ op.id = p.conn.id
<1> SUFFICES ASSUME p.kind \in {"name", "label", "route", "add", "remove"}
             PROVE  /\ p.kind \in {"name", "label", "route"} => op = p
                    /\ p.kind = "add" => op.kind = "create" /\ op.from = p.conn.from /\ op.to = p.conn.to
                    /\ p.kind = "remove" => op.kind = "remove" /\ op.id = p.conn.id
  OBVIOUS
<1>1. CASE p.kind \in {"name", "label", "route"}
  <2>1. OperationFor(fw, inv) = p
    BY <1>1 DEF OperationFor, ManyRoutes
  <2> QED BY <1>1, <2>1
<1>2. CASE p.kind = "add"
  <2>1. OperationFor(fw, inv) = [kind |-> "create", from |-> p.conn.from, to |-> p.conn.to]
    BY <1>2 DEF OperationFor, ManyRoutes
  <2> QED BY <1>2, <2>1
<1>3. CASE p.kind = "remove"
  <2>1. OperationFor(fw, inv) = [kind |-> "remove", id |-> p.conn.id]
    BY <1>3 DEF OperationFor, ManyRoutes
  <2> QED BY <1>3, <2>1
<1> QED BY <1>1, <1>2, <1>3

(* A patch of one part.                                                    *)
LEMMA OperationOfOne ==
  ASSUME NEW p, p.kind \in {"name", "label", "route"}, NEW inv
  PROVE  OperationFor(<<p>>, inv) = p
<1>0. PICK fw : fw = <<p>>
  OBVIOUS
<1>1. p = Head(fw) /\ Len(fw) = 1
  BY <1>0
<1>2. PICK n \in Nat : n = Len(fw) /\ ~(n > 1)
  BY <1>1
<1>3. ~ManyRoutes(fw, n)
  BY <1>2 DEF ManyRoutes
<1>4. p = Head(fw) /\ Len(fw) = n
  BY <1>1, <1>2
<1>5. PICK op : op = OperationFor(fw, inv)
  OBVIOUS
<1>6. op = p
  BY <1>3, <1>4, <1>5, OperationOfPart
<1> QED BY <1>0, <1>5, <1>6

(* A part with the derived states after it.                                *)
LEMMA OperationOfBatch ==
  ASSUME NEW p, p.kind \in {"add", "remove"}, NEW b, NEW a, NEW inv, NEW op, op = OperationFor(Batched(p, b, a), inv)
  PROVE  /\ p.kind = "add" => op.kind = "create" /\ op.from = p.conn.from /\ op.to = p.conn.to
         /\ p.kind = "remove" => op.kind = "remove" /\ op.id = p.conn.id
<1> PICK s : s = DerivedPatch(b, a)  OBVIOUS
<1> PICK fw : fw = Batched(p, b, a)  OBVIOUS
<1>1. s = <<>> \/ \E x : s = <<x>>
  BY DEF DerivedPatch
<1>2. fw = <<p>> \o s
  BY DEF Batched
<1>3. p = Head(fw) /\ fw[1] = p /\ Len(fw) \in Nat /\ Len(fw) > 0
  BY <1>1, <1>2
<1> PICK n \in Nat : n = Len(fw)
  BY <1>3
<1>4. ~ManyRoutes(fw, n)
  BY <1>3 DEF ManyRoutes
<1> QED BY <1>3, <1>4, OperationOfPart

(* A patch of assignments.                                                 *)
LEMMA AssignOperationOf ==
  ASSUME NEW fw, NEW inv, NEW n \in Nat, Len(fw) = n, ~(n > 1),
         NEW p, NEW q, p = Head(fw), q = Last(inv), p.kind = "assignments"
  PROVE  OperationFor(fw, inv) = [kind |-> "assign", changes |-> Exchanges(p, q)]
<1> DEFINE assignment(all, id) ==
             IF \E a \in all : a.id = id THEN CHOOSE a \in all : a.id = id ELSE NoAssignment
           ids == {a.id : a \in p.upsert \cup q.upsert} \cup p.remove \cup q.remove
<1> PICK chs : chs = {[prev |-> assignment(q.upsert, id), next |-> assignment(p.upsert, id)] : id \in ids}
  OBVIOUS
<1>1. OperationFor(fw, inv) = [kind |-> "assign", changes |-> chs]
  BY DEF OperationFor
<1>2. ids = Touched(p) \cup Touched(q)
  BY DEF Touched
<1> PICK K : K = ids  OBVIOUS
<1>3. chs = {[prev |-> AssignmentIn(q.upsert, id), next |-> AssignmentIn(p.upsert, id)] : id \in K}
  BY DEF AssignmentIn
<1> HIDE DEF ids
<1>4. chs = Exchanges(p, q)
  BY <1>2, <1>3 DEF Exchanges
<1> QED BY <1>1, <1>4

(* For a patch of one part.                                                *)
LEMMA AssignOperation ==
  ASSUME NEW p, NEW q, p.kind = "assignments"
  PROVE  OperationFor(<<p>>, <<q>>) = [kind |-> "assign", changes |-> Exchanges(p, q)]
<1> PICK fw, inv : fw = <<p>> /\ inv = <<q>>  OBVIOUS
<1>1. p = Head(fw) /\ q = Last(inv) /\ Len(fw) = 1
  BY DEF Last
<1> PICK n \in Nat : n = 1  OBVIOUS
<1>2. Len(fw) = n /\ ~(n > 1)
  BY <1>1
<1>3. OperationFor(fw, inv) = [kind |-> "assign", changes |-> Exchanges(p, q)]
  BY <1>1, <1>2, AssignOperationOf
<1> QED BY <1>3

(* The worker replays another browser's command.                           *)
Replays(w, reply, mine) ==
  /\ OperationFor(reply.forward, reply.inverse) # NoOperation
  /\ mine \in Dispatch(w, OperationFor(reply.forward, reply.inverse))

(* update_project_metadata, replayed.                                      *)
LEMMA NameReplayed ==
  ASSUME NEW w, NEW e, Partners(w, e), NEW op, NEW reply \in UpdateProjectMetadata(e, op),
         NEW mine, Replays(w, reply, mine)
  PROVE  Follows(mine.engine, reply.engine)
<1> DEFINE p == [kind |-> "name", name |-> op.name]
<1>1. \E t, inv : reply \in CommitTopology(e, t, <<p>>, inv)
  BY DEF UpdateProjectMetadata
<1>2. reply.forward = <<p>>
  BY <1>1 DEF CommitTopology
<1>3. OperationFor(reply.forward, reply.inverse) = p
  BY <1>2, OperationOfOne
<1>4. mine \in UpdateProjectMetadata(w, p)
  BY <1>3 DEF Replays, Dispatch
<1>5. UpdateProjectMetadata(w, p) = UpdateProjectMetadata(w, op)
  BY DEF UpdateProjectMetadata
<1>6. w \in Engines /\ e \in Engines /\ Follows(w, e)
  BY PartnersUnique
<1> QED BY <1>4, <1>5, <1>6, NameFollows

(* update_connection_label, replayed.                                      *)
LEMMA LabelReplayed ==
  ASSUME NEW w, NEW e, Partners(w, e), NEW op, op.label \in Labels \cup {0},
         NEW reply \in UpdateConnectionLabel(e, op), NEW mine, Replays(w, reply, mine)
  PROVE  Follows(mine.engine, reply.engine)
<1>1. PICK p : p = LabelPart(op)
  OBVIOUS
<1>2. p.kind = "label" /\ p.id = op.id /\ p.label = op.label
  BY <1>1 DEF LabelPart
<1>3. e \in Engines /\ UniqueIds(e.conns)
  BY PartnersUnique
<1>4. reply.forward = <<p>>
  BY <1>1, <1>3, LabelAfter
<1>5. OperationFor(reply.forward, reply.inverse) = p
  BY <1>2, <1>4, OperationOfOne
<1>6. mine \in UpdateConnectionLabel(w, p)
  BY <1>2, <1>5 DEF Replays, Dispatch
<1>7. UpdateConnectionLabel(w, p) = UpdateConnectionLabel(w, op)
  BY <1>2 DEF UpdateConnectionLabel
<1> QED BY <1>6, <1>7, LabelFollows

(* update_connection_route, replayed.                                      *)
LEMMA RouteReplayed ==
  ASSUME NEW w, NEW e, Partners(w, e), NEW op, op.route \in RouteValues,
         NEW reply \in UpdateConnectionRoute(e, op), NEW mine, Replays(w, reply, mine)
  PROVE  Follows(mine.engine, reply.engine)
<1>1. PICK p : p = RoutePatch(op.id, op.route)
  OBVIOUS
<1>2. p.kind = "route" /\ p.id = op.id /\ p.route = op.route
  BY <1>1 DEF RoutePatch
<1>3. e \in Engines /\ UniqueIds(e.conns)
  BY PartnersUnique
<1>4. reply.forward = <<p>>
  BY <1>1, <1>3, RouteAfter
<1>5. OperationFor(reply.forward, reply.inverse) = p
  BY <1>2, <1>4, OperationOfOne
<1>6. mine \in UpdateConnectionRoute(w, p)
  BY <1>2, <1>5 DEF Replays, Dispatch
<1>7. UpdateConnectionRoute(w, p) = UpdateConnectionRoute(w, op)
  BY <1>2 DEF UpdateConnectionRoute
<1> QED BY <1>6, <1>7, RouteFollows

(* create_connection, replayed: the ends of the new connection are never   *)
(* swapped again.                                                          *)
LEMMA CreateReplayed ==
  ASSUME NEW w, NEW e, Partners(w, e), NEW op, op.from \in Refs, op.to \in Refs,
         NEW reply \in CreateConnection(e, op), Exposed(reply.engine), NEW mine, Replays(w, reply, mine)
  PROVE  Follows(mine.engine, reply.engine)
<1>1. Loaded(e) /\ UniqueIds(e.conns)
  BY PartnersUnique DEF Partners
<1>2. PICK d : d = NewConnection(e, op)
  OBVIOUS
<1>3. PICK t \in Engines, n \in Cable : /\ n.from = d.from /\ n.to = d.to
                                        /\ reply.forward = Batched(AddPart(n), e, t)
  BY <1>1, <1>2, CreatePatches
<1>4. PICK op1 : op1 = OperationFor(reply.forward, reply.inverse)
  OBVIOUS
<1>5. op1.kind = "create" /\ op1.from = n.from /\ op1.to = n.to
  <2>1. PICK p : p = AddPart(n)
    OBVIOUS
  <2>2. p.kind = "add" /\ p.conn = n
    BY <2>1 DEF AddPart
  <2>3. reply.forward = Batched(p, e, t)
    BY <1>3, <2>1
  <2> QED BY <1>4, <2>2, <2>3, OperationOfBatch
<1>6. op1.from \in Refs /\ op1.to \in Refs
  BY <1>5 DEF Cable
<1>7. mine \in CreateConnection(w, op1)
  BY <1>4, <1>5 DEF Replays, Dispatch
<1>8. ValidateConnection(e, op.from, op.to)
  BY <1>1, <1>2, CreateRenews
<1>9. EndsOK(d)
  BY <1>2, <1>8, NewEnds
<1>10. Power(op1.from) # "input"
  BY <1>3, <1>5, <1>9 DEF EndsOK
<1>11. PICK c : c = NewConnection(w, op1)
  OBVIOUS
<1>12. c.from = d.from /\ c.to = d.to
  BY <1>3, <1>5, <1>10, <1>11 DEF NewConnection
<1> QED BY <1>2, <1>6, <1>7, <1>11, <1>12, CreateFollows

(* remove_connection, replayed.                                            *)
LEMMA RemoveReplayed ==
  ASSUME NEW w, NEW e, Partners(w, e), NEW op,
         NEW reply \in RemoveConnection(e, op), Exposed(reply.engine), NEW mine, Replays(w, reply, mine)
  PROVE  Follows(mine.engine, reply.engine)
<1>1. Loaded(e) /\ UniqueIds(e.conns)
  BY PartnersUnique DEF Partners
<1>2. PICK t \in Engines, n \in e.conns : n.id = op.id /\ reply.forward = Batched(RemovePart(n), e, t)
  BY <1>1, RemovePatches
<1>3. PICK op1 : op1 = OperationFor(reply.forward, reply.inverse)
  OBVIOUS
<1>4. op1.kind = "remove" /\ op1.id = op.id
  <2>1. PICK p : p = RemovePart(n)
    OBVIOUS
  <2>2. p.kind = "remove" /\ p.conn = n
    BY <2>1 DEF RemovePart
  <2>3. reply.forward = Batched(p, e, t)
    BY <1>2, <2>1
  <2> QED BY <1>2, <1>3, <2>2, <2>3, OperationOfBatch
<1>5. mine \in RemoveConnection(w, op1)
  BY <1>3, <1>4 DEF Replays, Dispatch
<1> QED BY <1>4, <1>5, RemoveFollows

(* The assignment of an id, when there is one and when there is none.      *)
LEMMA AssignmentInIs ==
  ASSUME NEW S, NEW id
  PROVE  /\ \A a \in S : a.id = id /\ (\A b \in S : b.id = id => b = a) => AssignmentIn(S, id) = a
         /\ (\A b \in S : b.id # id) => AssignmentIn(S, id) = NoAssignment
<1>1. ASSUME NEW a \in S, a.id = id, \A b \in S : b.id = id => b = a PROVE AssignmentIn(S, id) = a
  <2>1. AssignmentIn(S, id) = CHOOSE x \in S : x.id = id
    BY <1>1 DEF AssignmentIn
  <2>2. \E x \in S : x.id = id
    BY <1>1
  <2>3. (CHOOSE x \in S : x.id = id) \in S /\ (CHOOSE x \in S : x.id = id).id = id
    BY <2>2, Zenon
  <2> QED BY <1>1, <2>1, <2>3
<1>2. (\A b \in S : b.id # id) => AssignmentIn(S, id) = NoAssignment
  BY DEF AssignmentIn
<1> QED BY <1>1, <1>2

(* Changes of assignments that are ones.                                   *)
RealChanges(C) ==
  /\ ChangesOK(C) /\ \A ch \in C : ch.prev # ch.next
  /\ \A a \in Before(C) \cup After(C) : a = NoAssignment \/ a.id # 0

(* The id of a change is that of both its assignments.                     *)
LEMMA ChangeId ==
  ASSUME NEW C, RealChanges(C), NEW ch \in C
  PROVE  /\ ch.prev # NoAssignment => ch.prev.id = AssignmentId(ch) /\ ch.prev.id # 0
         /\ ch.next # NoAssignment => ch.next.id = AssignmentId(ch) /\ ch.next.id # 0
<1>1. ch.prev \in Before(C) /\ ch.next \in After(C)
  BY DEF Before, After
<1>2. ch.prev # NoAssignment /\ ch.next # NoAssignment => ch.prev.id = ch.next.id
  BY DEF RealChanges, ChangesOK
<1> QED BY <1>1, <1>2 DEF RealChanges, AssignmentId

(* The patch has the two assignments of a change under its id.             *)
LEMMA ChangeFound ==
  ASSUME NEW C, RealChanges(C), NEW ch \in C, NEW id, id = AssignmentId(ch)
  PROVE  /\ AssignmentIn(Before(C) \ {NoAssignment}, id) = ch.prev
         /\ AssignmentIn(After(C) \ {NoAssignment}, id) = ch.next
         /\ id \in AllIds(C)
<1>1. \A b \in C : AssignmentId(b) = id => b = ch
  BY DEF RealChanges, ChangesOK
<1>2. \A b \in C : /\ b.prev # NoAssignment => b.prev.id = AssignmentId(b) /\ b.prev.id # 0
                   /\ b.next # NoAssignment => b.next.id = AssignmentId(b) /\ b.next.id # 0
  BY ChangeId
<1>3. PICK S, T : S = Before(C) \ {NoAssignment} /\ T = After(C) \ {NoAssignment}
  OBVIOUS
<1>4. \A a \in S : \E b \in C : a = b.prev /\ a # NoAssignment
  BY <1>3 DEF Before
<1>5. \A a \in T : \E b \in C : a = b.next /\ a # NoAssignment
  BY <1>3 DEF After
<1>6. \A a \in S : a.id = id => a = ch.prev /\ ch.prev # NoAssignment
  BY <1>1, <1>2, <1>4
<1>7. \A a \in T : a.id = id => a = ch.next /\ ch.next # NoAssignment
  BY <1>1, <1>2, <1>5
<1>8. AssignmentIn(S, id) = ch.prev
  <2>1. CASE ch.prev # NoAssignment
    <3>1. ch.prev \in S /\ ch.prev.id = id
      BY <1>2, <1>3, <2>1 DEF Before
    <3> QED BY <1>6, <3>1, AssignmentInIs
  <2>2. CASE ch.prev = NoAssignment
    <3>1. \A b \in S : b.id # id
      BY <1>6, <2>2
    <3> QED BY <2>2, <3>1, AssignmentInIs
  <2> QED BY <2>1, <2>2
<1>9. AssignmentIn(T, id) = ch.next
  <2>1. CASE ch.next # NoAssignment
    <3>1. ch.next \in T /\ ch.next.id = id
      BY <1>2, <1>3, <2>1 DEF After
    <3> QED BY <1>7, <3>1, AssignmentInIs
  <2>2. CASE ch.next = NoAssignment
    <3>1. \A b \in T : b.id # id
      BY <1>7, <2>2
    <3> QED BY <2>2, <3>1, AssignmentInIs
  <2> QED BY <2>1, <2>2
<1>10. id \in AllIds(C)
  <2>1. ch.prev # NoAssignment \/ ch.next # NoAssignment
    BY DEF RealChanges
  <2>2. ch.prev \in Before(C) /\ ch.next \in After(C)
    BY DEF Before, After
  <2>3. \/ id = ch.prev.id /\ id # 0
        \/ id = ch.next.id /\ id # 0
    BY <1>2, <2>1
  <2> QED BY <2>2, <2>3 DEF AllIds, IdsOf
<1> QED BY <1>3, <1>8, <1>9, <1>10

(* Two sets of changes that are the same.                                  *)
SameChanges(C, X) ==
  /\ \A ch \in C : \E x \in X : x.prev = ch.prev /\ x.next = ch.next
  /\ \A x \in X : \E ch \in C : x.prev = ch.prev /\ x.next = ch.next

(* The changes rebuilt from a patch are those of the command.              *)
LEMMA ExchangesSame ==
  ASSUME NEW C, RealChanges(C), NEW p, NEW q, Touched(p) = AllIds(C), Touched(q) = AllIds(C),
         p.upsert = After(C) \ {NoAssignment}, q.upsert = Before(C) \ {NoAssignment}
  PROVE  SameChanges(C, Exchanges(p, q))
<1> DEFINE x(id) == [prev |-> AssignmentIn(q.upsert, id), next |-> AssignmentIn(p.upsert, id)]
<1>1. Exchanges(p, q) = {x(id) : id \in AllIds(C)}
  BY DEF Exchanges
<1>2. \A id : x(id).prev = AssignmentIn(q.upsert, id) /\ x(id).next = AssignmentIn(p.upsert, id)
  OBVIOUS
<1> HIDE DEF x
<1>3. ASSUME NEW ch \in C
      PROVE  /\ AssignmentId(ch) \in AllIds(C)
             /\ x(AssignmentId(ch)).prev = ch.prev /\ x(AssignmentId(ch)).next = ch.next
  <2>1. PICK id : id = AssignmentId(ch)
    OBVIOUS
  <2>2. /\ AssignmentIn(Before(C) \ {NoAssignment}, id) = ch.prev
        /\ AssignmentIn(After(C) \ {NoAssignment}, id) = ch.next
        /\ id \in AllIds(C)
    BY <2>1, ChangeFound
  <2>3. AssignmentIn(q.upsert, id) = ch.prev /\ AssignmentIn(p.upsert, id) = ch.next
    BY <2>2
  <2> QED BY <1>2, <2>1, <2>2, <2>3
<1>4. \A ch \in C : \E z \in Exchanges(p, q) : z.prev = ch.prev /\ z.next = ch.next
  BY <1>1, <1>3
<1>5. ASSUME NEW id \in AllIds(C) PROVE \E ch \in C : id = AssignmentId(ch)
  <2>1. id # 0 /\ \E ch \in C : id = ch.prev.id \/ id = ch.next.id
    BY DEF AllIds, IdsOf, Before, After
  <2>2. NoAssignment.id = 0
    BY DEF NoAssignment
  <2> QED BY <2>1, <2>2, ChangeId
<1>6. \A z \in Exchanges(p, q) : \E ch \in C : z.prev = ch.prev /\ z.next = ch.next
  BY <1>1, <1>3, <1>5
<1> QED BY <1>4, <1>6 DEF SameChanges

(* The same changes have the same effect.                                  *)
LEMMA SameChangesReplace ==
  ASSUME NEW C, NEW X, NEW R, R = Real(C), SameChanges(R, X), NEW A
  PROVE  NewAssigned(A, C) = NewAssigned(A, X)
<1>1. \A x \in X : x.prev # x.next
  BY DEF SameChanges, Real
<1>2. Real(X) = X
  BY <1>1 DEF Real
<1>3. {ch.prev : ch \in R} = {x.prev : x \in X} /\ {ch.next : ch \in R} = {x.next : x \in X}
  BY DEF SameChanges
<1> QED BY <1>2, <1>3 DEF NewAssigned

(* update_assignments, replayed.                                           *)
LEMMA AssignReplayed ==
  ASSUME NEW w, NEW e, Partners(w, e), NEW op, ChangesOK(op.changes),
         NEW reply \in UpdateAssignments(e, op), NEW mine, Replays(w, reply, mine)
  PROVE  Follows(mine.engine, reply.engine)
<1>0. PICK C : C = Real(op.changes)
  OBVIOUS
<1>01. PICK old, new, K : old = Before(C) /\ new = After(C) /\ K = AllIds(C)
  OBVIOUS
<1>02. PICK p, q : p = AssignmentPatch(old, new) /\ q = AssignmentPatch(new, old)
  OBVIOUS
<1>1. /\ \A ch \in op.changes : CurrentAssignment(e, AssignmentId(ch)) = ch.prev
      /\ \E t : reply \in CommitTopology(e, t, <<p>>, <<q>>)
  BY <1>0, <1>01, <1>02 DEF UpdateAssignments, Before, After, Real
<1>2. reply.forward = <<p>> /\ reply.inverse = <<q>>
  BY <1>1 DEF CommitTopology
<1>3. PICK A : A = e.assigned
  OBVIOUS
<1>4. /\ w \in Engines /\ e \in Engines /\ Follows(w, e)
      /\ A \in SUBSET Assignments /\ UniqueIds(A)
  BY <1>3, PartnersUnique DEF Partners, Engines, Builds, UniqueIds
<1>5. ChangesOK(C) /\ \A ch \in C : ch.prev # ch.next /\ CurrentAssignment(e, AssignmentId(ch)) = ch.prev
  <2>1. C \subseteq op.changes /\ \A ch \in C : ch.prev # ch.next
    BY <1>0 DEF Real
  <2>2. ChangesOK(C)
    BY <2>1 DEF ChangesOK
  <2> QED BY <1>1, <2>1, <2>2
<1>6. \A a \in old \cup new : a = NoAssignment \/ a.id # 0
  BY <1>01, <1>3, <1>4, <1>5, ReplacedAssignments
<1>7. RealChanges(C)
  BY <1>01, <1>5, <1>6 DEF RealChanges
<1>8. Touched(p) = K /\ p.kind = "assignments" /\ p.upsert = new \ {NoAssignment}
  BY <1>01, <1>02, <1>6, TouchedIds DEF AllIds
<1>9. Touched(q) = K /\ q.upsert = old \ {NoAssignment}
  <2>1. \A a \in new \cup old : a = NoAssignment \/ a.id # 0
    BY <1>6
  <2>2. Touched(q) = (IdsOf(new) \cup IdsOf(old)) \ {0} /\ q.upsert = old \ {NoAssignment}
    BY <1>02, <2>1, TouchedIds
  <2> QED BY <1>01, <2>2 DEF AllIds
<1>10. PICK X : X = Exchanges(p, q)
  OBVIOUS
<1>11. SameChanges(C, X)
  BY <1>01, <1>7, <1>8, <1>9, <1>10, ExchangesSame
<1>12. PICK op1 : op1 = OperationFor(reply.forward, reply.inverse)
  OBVIOUS
<1>13. op1.kind = "assign" /\ op1.changes = X
  <2>1. OperationFor(<<p>>, <<q>>) = [kind |-> "assign", changes |-> X]
    BY <1>8, <1>10, AssignOperation
  <2>2. op1 = [kind |-> "assign", changes |-> X]
    BY <1>2, <1>12, <2>1
  <2> QED BY <2>2
<1>14. mine \in UpdateAssignments(w, op1)
  BY <1>12, <1>13 DEF Replays, Dispatch
<1>15. NewAssigned(e.assigned, op.changes) = NewAssigned(e.assigned, op1.changes)
  BY <1>0, <1>11, <1>13, SameChangesReplace
<1> QED BY <1>4, <1>14, <1>15, AssignFollows

(* The moves rebuilt from a patch are those of the command.                *)
SameMoves(C, X) ==
  /\ \A ch \in C : \E x \in X : x.item = ch.item /\ x.prev = ch.prev /\ x.next = ch.next
  /\ \A x \in X : \E ch \in C : x.item = ch.item /\ x.prev = ch.prev /\ x.next = ch.next

(* The items of a patch are those of its changes.                          *)
LEMMA PatchedItems ==
  ASSUME NEW C, NEW p, p = PlacementPatch(C), NEW i, i \in Ups(p) \cup p.remove
  PROVE  \E ch \in C : ch.item = i
  BY PlacementFacts DEF Ups

(* operationForCommittedPatch of moves.                                    *)
LEMMA MovesSame ==
  ASSUME NEW C, RealMoves(C), NEW p, NEW q, p = PlacementPatch(C), q = PlacementPatch(Turned(C))
  PROVE  SameMoves(C, Moves(p, q))
<1> DEFINE x(i) == [item |-> i, prev |-> PositionIn(q.upsert, i), next |-> PositionIn(p.upsert, i)]
<1>1. Moves(p, q) = {x(i) : i \in MovedItems(p, q)}
  BY DEF Moves
<1>2. \A i : x(i).item = i /\ x(i).prev = PositionIn(q.upsert, i) /\ x(i).next = PositionIn(p.upsert, i)
  OBVIOUS
<1> HIDE DEF x
<1>3. \A a, b \in C : a.item = b.item => a = b
  BY DEF RealMoves
<1>4. \A a, b \in Turned(C) : a.item = b.item => a = b
  BY <1>3, TurnedFacts
<1>5. ASSUME NEW ch \in C
      PROVE  ch.item \in MovedItems(p, q) /\ x(ch.item).prev = ch.prev /\ x(ch.item).next = ch.next
  <2>1. PositionIn(p.upsert, ch.item) = ch.next /\ ch.item \in {u.item : u \in p.upsert} \cup p.remove
    BY <1>3, PositionSet
  <2>2. PICK b \in Turned(C) : b.item = ch.item /\ b.next = ch.prev
    BY <1>3, TurnedFacts
  <2>3. PositionIn(q.upsert, b.item) = b.next
    BY <1>4, PositionSet
  <2>4. ch.item \in MovedItems(p, q)
    BY <2>1 DEF MovedItems
  <2> QED BY <1>2, <2>1, <2>2, <2>3, <2>4
<1>6. ASSUME NEW i \in MovedItems(p, q) PROVE \E ch \in C : ch.item = i
  <2>1. i \in Ups(p) \cup p.remove \/ i \in Ups(q) \cup q.remove
    BY DEF MovedItems, Ups
  <2>2. CASE i \in Ups(p) \cup p.remove
    BY <2>2, PatchedItems
  <2>3. CASE i \in Ups(q) \cup q.remove
    <3>1. PICK b \in Turned(C) : b.item = i
      BY <2>3, PatchedItems
    <3> QED BY <3>1 DEF Turned
  <2> QED BY <2>1, <2>2, <2>3
<1>7. \A ch \in C : \E z \in Moves(p, q) : z.item = ch.item /\ z.prev = ch.prev /\ z.next = ch.next
  BY <1>1, <1>2, <1>5
<1>8. \A z \in Moves(p, q) : \E ch \in C : z.item = ch.item /\ z.prev = ch.prev /\ z.next = ch.next
  BY <1>1, <1>2, <1>5, <1>6
<1> QED BY <1>7, <1>8 DEF SameMoves

(* The same moves place and take away the same.                            *)
LEMMA SameMovesPlace ==
  ASSUME NEW C, \A ch \in C : ch.prev # ch.next, NEW X, SameMoves(C, X),
         NEW p1, p1 = PlacementPatch(Real(X)), NEW p2, p2 = PlacementPatch(C)
  PROVE  Ups(p1) = Ups(p2) /\ p1.remove = p2.remove
<1>1. Real(X) = X
  BY DEF SameMoves, Real
<1>2. p1 = PlacementPatch(X)
  BY <1>1
<1>3. /\ \A i : i \in p1.remove <=> \E ch \in X : ch.item = i /\ ch.next = 0
      /\ \A i : i \in p2.remove <=> \E ch \in C : ch.item = i /\ ch.next = 0
  BY <1>2, PlacementFacts
<1>4. \A i : i \in Ups(p1) <=> \E ch \in X : ch.item = i /\ ch.next # 0
  <2>1. /\ \A u \in p1.upsert : \E ch \in X : ch.next # 0 /\ u.item = ch.item /\ u.x = ch.next
        /\ \A ch \in X : ch.next # 0 => \E u \in p1.upsert : u.item = ch.item /\ u.x = ch.next
    BY <1>2, PlacementFacts
  <2> QED BY <2>1 DEF Ups
<1>5. \A i : i \in Ups(p2) <=> \E ch \in C : ch.item = i /\ ch.next # 0
  <2>1. /\ \A u \in p2.upsert : \E ch \in C : ch.next # 0 /\ u.item = ch.item /\ u.x = ch.next
        /\ \A ch \in C : ch.next # 0 => \E u \in p2.upsert : u.item = ch.item /\ u.x = ch.next
    BY PlacementFacts
  <2> QED BY <2>1 DEF Ups
<1>6. /\ \A i : (\E ch \in X : ch.item = i /\ ch.next = 0) <=> \E ch \in C : ch.item = i /\ ch.next = 0
      /\ \A i : (\E ch \in X : ch.item = i /\ ch.next # 0) <=> \E ch \in C : ch.item = i /\ ch.next # 0
  BY DEF SameMoves
<1>7. \A i : (i \in Ups(p1) <=> i \in Ups(p2)) /\ (i \in p1.remove <=> i \in p2.remove)
  BY <1>3, <1>4, <1>5, <1>6
<1>8. Ups(p1) = Ups(p2)
  BY <1>7
<1>9. p1.remove = {ch.item : ch \in {c \in X : c.next = 0}} /\ p2.remove = {ch.item : ch \in {c \in C : c.next = 0}}
  BY <1>2 DEF PlacementPatch
<1>10. p1.remove = p2.remove
  BY <1>7, <1>9
<1> QED BY <1>8, <1>10

(* update_placements, replayed.                                            *)
LEMMA PlaceReplayed ==
  ASSUME NEW w, NEW e, Partners(w, e), NEW op, \A a, b \in op.changes : a.item = b.item => a = b,
         NEW reply \in UpdatePlacements(e, op), NEW mine, Replays(w, reply, mine)
  PROVE  Follows(mine.engine, reply.engine)
<1>0. PICK C : C = Real(op.changes)
  OBVIOUS
<1>01. PICK p, q : p = PlacementPatch(C) /\ q = PlacementPatch(Turned(C))
  OBVIOUS
<1>1. C # {} /\ \E t : reply \in CommitTopology(e, t, <<p>>, <<q>>)
  BY <1>0, <1>01 DEF UpdatePlacements, Turned, Real
<1>2. reply.forward = <<p>> /\ reply.inverse = <<q>>
  BY <1>1 DEF CommitTopology
<1>3. RealMoves(C)
  BY <1>0, <1>1 DEF RealMoves, Real
<1>4. PICK X : X = Moves(p, q)
  OBVIOUS
<1>5. SameMoves(C, X)
  BY <1>01, <1>3, <1>4, MovesSame
<1>6. PICK op1 : op1 = OperationFor(reply.forward, reply.inverse)
  OBVIOUS
<1>7. op1.kind = "place" /\ op1.changes = X
  <2>1. p.kind = "placements"
    BY <1>01, PlacementFacts
  <2>2. OperationFor(<<p>>, <<q>>) = [kind |-> "place", changes |-> X]
    BY <1>4, <2>1, PlaceOperation
  <2>3. op1 = [kind |-> "place", changes |-> X]
    BY <1>2, <1>6, <2>2
  <2> QED BY <2>3
<1>8. mine \in UpdatePlacements(w, op1)
  BY <1>6, <1>7 DEF Replays, Dispatch
<1>9. PICK p1 : p1 = PlacementPatch(Real(op1.changes))
  OBVIOUS
<1>10. Ups(p1) = Ups(p) /\ p1.remove = p.remove
  <2>1. \A ch \in C : ch.prev # ch.next
    BY <1>3 DEF RealMoves
  <2> QED BY <1>01, <1>5, <1>7, <1>9, <2>1, SameMovesPlace
<1>11. w \in Engines /\ e \in Engines /\ Follows(w, e)
  BY PartnersUnique
<1>12. p = PlacementPatch(Real(op.changes))
  BY <1>0, <1>01
<1> QED BY <1>8, <1>9, <1>10, <1>11, <1>12, PlaceFollows

(* The patches fw and inv set the routes new and take them back, in order. *)
RoutesSet(e, new, fw, inv, order, n) ==
  /\ order \in [1..n -> e.conns]
  /\ \A i \in 1..n : /\ fw[i].kind = "route" /\ fw[i].id = order[i].id /\ fw[i].route = new[order[i]]
                     /\ inv[n + 1 - i].route = order[i].route
  /\ \A c \in e.conns : new[c] = c.route \/ \E i \in 1..n : order[i] = c

(* A sequence in reverse.                                                  *)
LEMMA ReversedAt ==
  ASSUME NEW s, NEW n \in Nat, s = [k \in 1..n |-> s[k]], NEW i \in 1..n
  PROVE  Reverse(s)[n + 1 - i] = s[i]
<1>1. Len(s) = n
  OBVIOUS
<1>2. Reverse(s) = [j \in 1..n |-> s[(n - j) + 1]]
  BY <1>1 DEF Reverse
<1>3. PICK r : r = Reverse(s)
  OBVIOUS
<1>4. PICK j \in 1..n : j = n + 1 - i /\ (n - j) + 1 = i
  OBVIOUS
<1>5. r = [k \in 1..n |-> s[(n - k) + 1]]
  BY <1>2, <1>3
<1>6. r[j] = s[(n - j) + 1]
  BY <1>5
<1> QED BY <1>3, <1>4, <1>6

(* The patches of the commands on several routes.                          *)
LEMMA BatchPatches ==
  ASSUME NEW e, Loaded(e), Builds(e), NEW new, \A c \in e.conns : new[c] \in RouteValues,
         NEW reply \in RouteBatch(e, new)
  PROVE  \E n \in Nat \ {0} : /\ \E order : RoutesSet(e, new, reply.forward, reply.inverse, order, n)
                              /\ Len(reply.forward) = n
<1> DEFINE S == {c \in e.conns : new[c] # c.route}
           order == InIdOrder(S)
           fw == [i \in DOMAIN order |-> RoutePatch(order[i].id, new[order[i]])]
           bw == [i \in DOMAIN order |-> RoutePatch(order[i].id, order[i].route)]
           R(c) == [c EXCEPT !.route = new[c]]
<1>1. reply.forward = fw /\ reply.inverse = Reverse(bw) /\ order # <<>>
  <2>1. /\ reply \in CommitTopology(e, [e EXCEPT !.conns = {R(c) : c \in e.conns}], fw, Reverse(bw))
        /\ order # <<>>
    BY DEF RouteBatch
  <2> HIDE DEF R, fw, bw
  <2> QED BY <2>1 DEF CommitTopology
<1>2. S \subseteq e.conns /\ \A c \in e.conns : new[c] = c.route \/ c \in S
  OBVIOUS
<1>3. /\ fw = [i \in DOMAIN order |-> RoutePatch(order[i].id, new[order[i]])]
      /\ bw = [i \in DOMAIN order |-> RoutePatch(order[i].id, order[i].route)]
  OBVIOUS
<1> HIDE DEF R, S, order, fw, bw
<1>5. UniqueIds(S) /\ e.next \in Nat /\ \A c \in S : c.id \in 1..e.next
  <2>1. e.next \in Nat
    BY DEF Loaded, Engines
  <2>2. \A c \in e.conns : c.id \in Nat \ {0} /\ c.id < e.next
    BY DEF Loaded, Engines, Cable
  <2>3. \A c \in S : c.id \in 1..e.next
    BY <1>2, <2>1, <2>2
  <2>4. UniqueIds(S)
    BY <1>2 DEF UniqueIds, Builds
  <2> QED BY <2>1, <2>3, <2>4
<1>50. PICK n : n = Cardinality(S)
  OBVIOUS
<1>6. n \in Nat /\ order \in [1..n -> S] /\ \A c \in S : \E i \in 1..n : order[i] = c
  BY <1>5, <1>50, InIdOrderFacts DEF order
<1>7. n # 0
  <2>1. ASSUME n = 0 PROVE FALSE
    <3>1. 1..n = {}
      BY <1>6, <2>1
    <3>2. order = <<>>
      BY <1>6, <3>1
    <3> QED BY <1>1, <3>2
  <2> QED BY <2>1
<1>8. /\ fw = [k \in 1..n |-> fw[k]] /\ \A i \in 1..n : fw[i] = RoutePatch(order[i].id, new[order[i]])
      /\ bw = [k \in 1..n |-> bw[k]] /\ \A i \in 1..n : bw[i] = RoutePatch(order[i].id, order[i].route)
  BY <1>3, <1>6
<1>9. ASSUME NEW i \in 1..n
      PROVE  /\ fw[i].kind = "route" /\ fw[i].id = order[i].id /\ fw[i].route = new[order[i]]
             /\ bw[i].route = order[i].route
  BY <1>8 DEF RoutePatch
<1>10. \A i \in 1..n : Reverse(bw)[n + 1 - i] = bw[i]
  BY <1>6, <1>8, ReversedAt
<1>11. Len(fw) = n
  BY <1>6, <1>8
<1>12. order \in [1..n -> e.conns]
  BY <1>2, <1>6
<1>13. \A c \in e.conns : new[c] = c.route \/ \E i \in 1..n : order[i] = c
  BY <1>2, <1>6
<1>14. RoutesSet(e, new, fw, Reverse(bw), order, n)
  BY <1>9, <1>10, <1>12, <1>13 DEF RoutesSet
<1>15. n \in Nat \ {0}
  BY <1>6, <1>7
<1> QED BY <1>1, <1>11, <1>14, <1>15

(* operationForCommittedPatch of a batch of routes.                        *)
Bending(fw, inv, n) ==
  {[id |-> fw[i].id, expected |-> inv[n + 1 - i].route.bends, bends |-> fw[i].route.bends] : i \in 1..n}

(* It is replayed when only bends changed.                                 *)
LEMMA OperationOfRoutes ==
  ASSUME NEW fw, NEW inv, NEW n \in Nat, Len(fw) = n, ManyRoutes(fw, n),
         NEW op, op = OperationFor(fw, inv), op # NoOperation
  PROVE  /\ op.kind = "canonical" /\ op.changes = Bending(fw, inv, n)
         /\ \A i \in 1..n : EqualExceptBends(inv[n + 1 - i].route, fw[i].route)
<1>1. n > 1 /\ \A i \in 1..n : fw[i].kind = "route"
  BY DEF ManyRoutes
<1>2. PICK chs : chs = {[id |-> fw[i].id, expected |-> inv[n + 1 - i].route.bends,
                         bends |-> fw[i].route.bends] : i \in 1..n}
  OBVIOUS
<1>3. op = IF \A i \in 1..n : EqualExceptBends(inv[n + 1 - i].route, fw[i].route)
             THEN [kind |-> "canonical", changes |-> chs] ELSE NoOperation
  BY <1>1, <1>2 DEF OperationFor
<1>4. \A i \in 1..n : EqualExceptBends(inv[n + 1 - i].route, fw[i].route)
  BY <1>3
<1>5. op = [kind |-> "canonical", changes |-> chs]
  BY <1>3, <1>4
<1>6. chs = Bending(fw, inv, n)
  BY <1>2 DEF Bending
<1> QED BY <1>4, <1>5, <1>6

(* A batch that changed one route is replayed as one route.                *)
LEMMA OneRouteReplayed ==
  ASSUME NEW w, NEW e, Partners(w, e), NEW new, \A c \in e.conns : new[c] \in RouteValues,
         NEW reply \in RouteBatch(e, new), NEW order,
         RoutesSet(e, new, reply.forward, reply.inverse, order, 1), Len(reply.forward) = 1,
         NEW mine, Replays(w, reply, mine)
  PROVE  Follows(mine.engine, reply.engine)
<1>0. /\ w \in Engines /\ e \in Engines /\ UniqueIds(w.conns) /\ UniqueIds(e.conns) /\ Follows(w, e)
  BY PartnersUnique
<1>1. PICK fw, inv : fw = reply.forward /\ inv = reply.inverse
  OBVIOUS
<1>2. PICK p, o : p = Head(fw) /\ o = order[1]
  OBVIOUS
<1>3. p = fw[1]
  BY <1>1, <1>2
<1>4. /\ p.kind = "route" /\ p.id = o.id /\ p.route = new[o] /\ o \in e.conns
      /\ \A c \in e.conns : new[c] = c.route \/ c = o
  <2>1. \A i \in 1..1 : i = 1
    OBVIOUS
  <2> QED BY <1>1, <1>2, <1>3, <2>1 DEF RoutesSet
<1>5. OperationFor(fw, inv) = p
  <2>1. PICK n \in Nat : n = 1 /\ ~(n > 1)
    OBVIOUS
  <2>2. Len(fw) = n /\ ~ManyRoutes(fw, n)
    BY <1>1, <2>1 DEF ManyRoutes
  <2>3. PICK op : op = OperationFor(fw, inv)
    OBVIOUS
  <2>4. op = p
    BY <1>2, <1>4, <2>2, <2>3, OperationOfPart
  <2> QED BY <2>3, <2>4
<1>6. mine \in UpdateConnectionRoute(w, p)
  BY <1>1, <1>4, <1>5 DEF Replays, Dispatch
<1>7. PICK x, y : x = mine.engine /\ y = reply.engine
  OBVIOUS
<1>8. /\ Rerouting(w, x)
      /\ \A a \in w.conns, c \in x.conns : a.id = c.id => c.route = IF a.id = p.id THEN p.route ELSE a.route
  <2>1. p.route \in RouteValues
    BY <1>4
  <2> QED BY <1>0, <1>6, <1>7, <2>1, RouteAfter
<1>9. Rerouting(e, y) /\ \A b \in e.conns, d \in y.conns : b.id = d.id => d.route = new[b]
  BY <1>0, <1>7, BatchAfter
<1>10. ASSUME NEW a \in w.conns, NEW b \in e.conns, NEW c \in x.conns, NEW d \in y.conns,
              a.id = b.id, c.id = a.id, d.id = a.id, SameRoute(a, b)
       PROVE  SameRoute(c, d)
  <2>1. d.route = new[b] /\ c.route = IF a.id = p.id THEN p.route ELSE a.route
    BY <1>8, <1>9, <1>10
  <2>2. CASE a.id = p.id
    <3>1. b = o
      BY <1>0, <1>4, <1>10, <2>2 DEF UniqueIds
    <3> QED BY <1>4, <2>1, <2>2, <3>1 DEF SameRoute
  <2>3. CASE a.id # p.id
    <3>1. b # o
      BY <1>4, <1>10, <2>3
    <3> QED BY <1>4, <1>10, <2>1, <2>3, <3>1 DEF SameRoute
  <2> QED BY <2>2, <2>3
<1>11. Follows(x, y)
  BY <1>0, <1>8, <1>9, <1>10, AlikeRoutesFollow
<1> QED BY <1>7, <1>11

(* Routes equal but for their bends avoid the same.                        *)
LEMMA BendsApart ==
  ASSUME NEW r \in RouteValues, NEW s \in RouteValues, EqualExceptBends(r, s)
  PROVE  r.avoid = s.avoid
<1>1. CASE NoRoute \in {r, s}
  BY <1>1 DEF EqualExceptBends
<1>2. CASE NoRoute \notin {r, s}
  <2>1. PICK u : u = [r EXCEPT !.bends = s.bends]
    OBVIOUS
  <2>2. u.avoid = r.avoid
    BY <2>1 DEF RouteValues
  <2>3. u = s
    BY <1>2, <2>1 DEF EqualExceptBends
  <2> QED BY <2>2, <2>3
<1> QED BY <1>1, <1>2

(* The bends of a batch, for a cable of it and for another one.            *)
LEMMA BendingIn ==
  ASSUME NEW e, UniqueIds(e.conns), NEW new, NEW fw, NEW inv, NEW order, NEW n \in Nat,
         RoutesSet(e, new, fw, inv, order, n), NEW a, NEW b \in e.conns, a.id = b.id,
         a.route.bends = b.route.bends
  PROVE  BendsIn(Bending(fw, inv, n), a) = new[b].bends
<1> DEFINE x(i) == [id |-> fw[i].id, expected |-> inv[n + 1 - i].route.bends, bends |-> fw[i].route.bends]
<1>1. PICK X : X = Bending(fw, inv, n)
  OBVIOUS
<1>2. X = {x(i) : i \in 1..n} /\ \A i : x(i).id = fw[i].id /\ x(i).bends = fw[i].route.bends
  BY <1>1 DEF Bending
<1> HIDE DEF x
<1>3. \A i \in 1..n : x(i).id = order[i].id /\ x(i).bends = new[order[i]].bends /\ order[i] \in e.conns
  BY <1>2 DEF RoutesSet
<1>4. \A ch \in X : ch.id = a.id => ch.bends = new[b].bends /\ \E i \in 1..n : order[i] = b
  BY <1>2, <1>3 DEF UniqueIds
<1>5. CASE \E ch \in X : ch.id = a.id
  <2>1. BendsIn(X, a) = (CHOOSE ch \in X : ch.id = a.id).bends
    BY <1>5 DEF BendsIn
  <2>2. (CHOOSE ch \in X : ch.id = a.id) \in X /\ (CHOOSE ch \in X : ch.id = a.id).id = a.id
    BY <1>5, Zenon
  <2> QED BY <1>1, <1>4, <2>1, <2>2
<1>6. CASE ~\E ch \in X : ch.id = a.id
  <2>1. BendsIn(X, a) = a.route.bends
    BY <1>6 DEF BendsIn
  <2>2. \A i \in 1..n : x(i) \in X
    BY <1>2
  <2>3. \A i \in 1..n : order[i] # b
    BY <1>3, <1>6, <2>2
  <2>4. new[b] = b.route
    BY <2>3 DEF RoutesSet
  <2> QED BY <1>1, <2>1, <2>4
<1> QED BY <1>5, <1>6

(* A batch that changed the bends of several routes.                       *)
LEMMA ManyRoutesReplayed ==
  ASSUME NEW w, NEW e, Partners(w, e), NEW new, \A c \in e.conns : new[c] \in RouteValues,
         NEW reply \in RouteBatch(e, new), NEW order, NEW n \in Nat, n > 1,
         RoutesSet(e, new, reply.forward, reply.inverse, order, n), Len(reply.forward) = n,
         NEW mine, Replays(w, reply, mine)
  PROVE  Follows(mine.engine, reply.engine)
<1>0. /\ w \in Engines /\ e \in Engines /\ UniqueIds(w.conns) /\ UniqueIds(e.conns) /\ Follows(w, e)
      /\ e.conns \in SUBSET Cable
  BY PartnersUnique
<1>1. PICK fw, inv : fw = reply.forward /\ inv = reply.inverse
  OBVIOUS
<1>2. PICK op : op = OperationFor(fw, inv)
  OBVIOUS
<1>3. ManyRoutes(fw, n)
  BY <1>1 DEF ManyRoutes, RoutesSet
<1>4. /\ op.kind = "canonical" /\ op.changes = Bending(fw, inv, n)
      /\ \A i \in 1..n : EqualExceptBends(inv[n + 1 - i].route, fw[i].route)
  <2>1. op # NoOperation /\ Len(fw) = n
    BY <1>1, <1>2 DEF Replays
  <2> QED BY <1>2, <1>3, <2>1, OperationOfRoutes
<1>5. mine \in CanonicalizeConnectionRoutes(w, op)
  BY <1>1, <1>2, <1>4 DEF Replays, Dispatch
<1>6. PICK x, y : x = mine.engine /\ y = reply.engine
  OBVIOUS
<1>7. \A i \in 1..n : /\ fw[i].id = order[i].id /\ fw[i].route = new[order[i]] /\ order[i] \in e.conns
                      /\ inv[n + 1 - i].route = order[i].route
  BY <1>1 DEF RoutesSet
<1>8. \A ch \in op.changes : ch.bends \in Bends \cup {0}
  <2>1. \A i \in 1..n : fw[i].route \in RouteValues
    BY <1>7
  <2>2. \A i \in 1..n : fw[i].route.bends \in Bends \cup {0}
    BY <2>1 DEF RouteValues
  <2> QED BY <1>4, <2>2 DEF Bending
<1>9. /\ Rerouting(w, x)
      /\ \A a \in w.conns, c \in x.conns :
           a.id = c.id => c.route.bends = BendsIn(op.changes, a) /\ c.route.avoid = a.route.avoid
  BY <1>0, <1>5, <1>6, <1>8, CanonicalAfter
<1>10. Rerouting(e, y) /\ \A b \in e.conns, d \in y.conns : b.id = d.id => d.route = new[b]
  BY <1>0, <1>6, BatchAfter
<1>11. ASSUME NEW b \in e.conns PROVE new[b].avoid = b.route.avoid
  <2>1. CASE new[b] = b.route
    BY <2>1
  <2>2. CASE \E i \in 1..n : order[i] = b
    <3>1. PICK i \in 1..n : order[i] = b
      BY <2>2
    <3>2. EqualExceptBends(b.route, new[b])
      BY <1>4, <1>7, <3>1
    <3>3. b.route \in RouteValues /\ new[b] \in RouteValues
      BY <1>0 DEF Cable
    <3> QED BY <3>2, <3>3, BendsApart
  <2> QED BY <2>1, <2>2 DEF RoutesSet
<1>12. ASSUME NEW a \in w.conns, NEW b \in e.conns, NEW c \in x.conns, NEW d \in y.conns,
              a.id = b.id, c.id = a.id, d.id = a.id, SameRoute(a, b)
       PROVE  SameRoute(c, d)
  <2>1. d.route = new[b] /\ c.route.bends = BendsIn(op.changes, a) /\ c.route.avoid = a.route.avoid
    BY <1>9, <1>10, <1>12
  <2>2. RoutesSet(e, new, fw, inv, order, n)
    BY <1>1
  <2>3. a.route.bends = b.route.bends /\ a.route.avoid = b.route.avoid
    BY <1>12 DEF SameRoute
  <2>4. BendsIn(op.changes, a) = new[b].bends
    <3>1. UniqueIds(e.conns) /\ a.id = b.id /\ a.route.bends = b.route.bends
      BY <1>0, <1>12, <2>3
    <3>2. BendsIn(Bending(fw, inv, n), a) = new[b].bends
      BY <2>2, <3>1, BendingIn
    <3> QED BY <1>4, <3>2
  <2> QED BY <1>11, <2>1, <2>3, <2>4 DEF SameRoute
<1>13. Follows(x, y)
  BY <1>0, <1>9, <1>10, <1>12, AlikeRoutesFollow
<1> QED BY <1>6, <1>13

(* The commands on several routes, replayed.                               *)
LEMMA BatchReplayed ==
  ASSUME NEW w, NEW e, Partners(w, e), NEW reply, RouteReply(e, reply), NEW mine, Replays(w, reply, mine)
  PROVE  Follows(mine.engine, reply.engine)
<1>1. PICK new : (\A c \in e.conns : new[c] \in RouteValues) /\ reply \in RouteBatch(e, new)
  BY DEF RouteReply
<1>2. PICK n \in Nat \ {0} : /\ \E order : RoutesSet(e, new, reply.forward, reply.inverse, order, n)
                             /\ Len(reply.forward) = n
  BY <1>1, BatchPatches DEF Partners
<1>3. PICK order : RoutesSet(e, new, reply.forward, reply.inverse, order, n)
  BY <1>2
<1>4. CASE n = 1
  BY <1>1, <1>2, <1>3, <1>4, OneRouteReplayed
<1>5. CASE n # 1
  <2>1. n \in Nat /\ n > 1
    BY <1>5
  <2> QED BY <1>1, <1>2, <1>3, <2>1, ManyRoutesReplayed
<1> QED BY <1>4, <1>5

(* Engine::dispatch: a worker that is the project of the server makes of   *)
(* the patch of any command what the command made of the server's engine.  *)
LEMMA DispatchReplayed ==
  ASSUME NEW w, NEW e, Partners(w, e), NEW op, OperationOK(op), NEW v, MovesFrom(op, v),
         NEW reply \in Dispatch(e, op), Exposed(reply.engine), NEW mine, Replays(w, reply, mine)
  PROVE  Follows(mine.engine, reply.engine)
<1>1. e.rev # MaxRevision
  BY DEF Dispatch
<1>2. e \in Engines
  BY PartnersUnique
<1>3. CASE op.kind = "create"
  <2>1. reply \in CreateConnection(e, op)
    BY <1>1, <1>3 DEF Dispatch
  <2> QED BY <1>3, <2>1, CreateReplayed DEF OperationOK
<1>4. CASE op.kind = "remove"
  <2>1. reply \in RemoveConnection(e, op)
    BY <1>1, <1>4 DEF Dispatch
  <2> QED BY <2>1, RemoveReplayed
<1>5. CASE op.kind = "label"
  <2>1. reply \in UpdateConnectionLabel(e, op)
    BY <1>1, <1>5 DEF Dispatch
  <2> QED BY <1>5, <2>1, LabelReplayed DEF OperationOK
<1>6. CASE op.kind = "route"
  <2>1. reply \in UpdateConnectionRoute(e, op)
    BY <1>1, <1>6 DEF Dispatch
  <2> QED BY <1>6, <2>1, RouteReplayed DEF OperationOK
<1>7. CASE op.kind = "sides"
  <2>1. reply \in ResolveConnectionRouteSides(e, op)
    BY <1>1, <1>7 DEF Dispatch
  <2>2. RouteReply(e, reply)
    BY <1>2, <1>7, <2>1, SidesRoutes DEF OperationOK
  <2> QED BY <2>2, BatchReplayed
<1>8. CASE op.kind = "canonical"
  <2>1. reply \in CanonicalizeConnectionRoutes(e, op)
    BY <1>1, <1>8 DEF Dispatch
  <2>2. RouteReply(e, reply)
    BY <1>2, <1>8, <2>1, CanonicalRoutes DEF OperationOK
  <2> QED BY <2>2, BatchReplayed
<1>9. CASE op.kind = "reset"
  <2>1. reply \in ResetAllConnectionBends(e, op)
    BY <1>1, <1>9 DEF Dispatch
  <2>2. RouteReply(e, reply)
    BY <1>2, <2>1, ResetRoutes
  <2> QED BY <2>2, BatchReplayed
<1>10. CASE op.kind = "automatic"
  <2>1. reply \in RestoreAutomaticConnectionRoutes(e, op)
    BY <1>1, <1>10 DEF Dispatch
  <2>2. RouteReply(e, reply)
    BY <1>2, <2>1, AutomaticRoutes
  <2> QED BY <2>2, BatchReplayed
<1>11. CASE op.kind = "name"
  <2>1. reply \in UpdateProjectMetadata(e, op)
    BY <1>1, <1>11 DEF Dispatch
  <2> QED BY <2>1, NameReplayed
<1>12. CASE op.kind = "assign"
  <2>1. reply \in UpdateAssignments(e, op)
    BY <1>1, <1>12 DEF Dispatch
  <2> QED BY <1>12, <2>1, AssignReplayed DEF OperationOK
<1>13. CASE op.kind = "place"
  <2>1. reply \in UpdatePlacements(e, op)
    BY <1>1, <1>13 DEF Dispatch
  <2>2. \A a, b \in op.changes : a.item = b.item => a = b
    BY <1>13 DEF MovesFrom, PlacesKnown
  <2> QED BY <2>1, <2>2, PlaceReplayed
<1>14. CASE op.kind = "snap"
  <2>1. reply \in SnapPlacementsToGrid(e, op)
    BY <1>1, <1>14 DEF Dispatch
  <2>2. PICK all : all = SnapChanges(op)
    OBVIOUS
  <2>3. reply \in UpdatePlacements(e, all)
    BY <2>1, <2>2, SnapMoves
  <2>4. \A a, b \in all.changes : a.item = b.item => a = b
    BY <2>2 DEF SnapChanges
  <2> QED BY <2>3, <2>4, PlaceReplayed
<1> QED BY <1>3, <1>4, <1>5, <1>6, <1>7, <1>8, <1>9, <1>10, <1>11, <1>12, <1>13, <1>14
           DEF OperationOK, Kinds

-----------------------------------------------------------------------------
(* One patch in the store and on a screen *)

(* The screen v shows the project of the rows d.                           *)
Shows(v, d) ==
  /\ v.name = d.name /\ v.assigned = d.assigned /\ v.places = d.places
  /\ Mirrors(v.conns, d.conns)

(* The assignments a part puts in have different ids, finitely many.       *)
UpsertsOK(p) ==
  p.kind = "assignments" => UniqueIds(p.upsert) /\ \E m \in Nat : \A a \in p.upsert : a.id \in 1..m

(* The store and the screen after a part of a patch.                       *)
BothPatched(v, p, y) == RowsOK(y) /\ ViewPatch(v, p) \in Views /\ Shows(ViewPatch(v, p), y)

(* A connection made.                                                      *)
LEMMA AddBoth ==
  ASSUME NEW v \in Views, NEW d, RowsOK(d), Shows(v, d), NEW p, PartOK(p), p.kind = "add",
         NEW y \in StorePatch(d, p)
  PROVE  BothPatched(v, p, y)
<1>1. PICK n \in Cable : n = p.conn
  BY DEF PartOK
<1>2. /\ RowsOK(y) /\ SameButConns(d, y) /\ \A r \in d.conns : r.id # n.id
      /\ \E row \in Cable : y.conns = d.conns \cup {row} /\ Copies(n, row)
  BY <1>1, StoreAdd
<1>3. PICK row \in Cable : y.conns = d.conns \cup {row} /\ Copies(n, row)
  BY <1>2
<1>4. PICK w : w = ViewPatch(v, p)
  OBVIOUS
<1>5. w = ViewPatch(v, AddPart(n))
  BY <1>1, <1>4 DEF ViewPatch, AddPart
<1>6. /\ w \in Views /\ SameRest(w, v)
      /\ \E m \in Cable : w.conns = v.conns \cup {m} /\ SameButRoute(m, n) /\ SameRoute(m, n)
  BY <1>5, AddShown
<1>7. PICK m \in Cable : w.conns = v.conns \cup {m} /\ SameButRoute(m, n) /\ SameRoute(m, n)
  BY <1>6
<1>8. SameButRoute(m, row) /\ SameRoute(m, row) /\ row.id = n.id
  BY <1>3, <1>7 DEF SameButRoute, SameRoute, Copies
<1>9. PICK A, B : A = v.conns /\ B = d.conns
  OBVIOUS
<1>10. Mirrors(A, B) /\ \A r \in B : r.id # row.id
  BY <1>2, <1>8, <1>9 DEF Shows
<1>11. Mirrors(A \cup {m}, B \cup {row})
  BY <1>8, <1>10, MirrorsAdded
<1>12. Mirrors(w.conns, y.conns)
  BY <1>3, <1>7, <1>9, <1>11
<1> QED BY <1>2, <1>4, <1>6, <1>12 DEF BothPatched, Shows, SameRest, SameButConns

(* A connection removed.                                                   *)
LEMMA RemoveBoth ==
  ASSUME NEW v \in Views, NEW d, RowsOK(d), Shows(v, d), NEW p, p.kind = "remove",
         NEW y \in StorePatch(d, p)
  PROVE  BothPatched(v, p, y)
<1>1. PICK n : n = p.conn
  OBVIOUS
<1>2. /\ RowsOK(y) /\ SameButConns(d, y)
      /\ \E r \in d.conns : r.id = n.id /\ y.conns = d.conns \ {r}
  BY <1>1, StoreRemove
<1>3. PICK r \in d.conns : r.id = n.id /\ y.conns = d.conns \ {r}
  BY <1>2
<1>4. y.conns = Without(d.conns, n.id)
  BY <1>3, WithoutOne DEF RowsOK
<1>5. PICK w : w = ViewPatch(v, p)
  OBVIOUS
<1>6. w = ViewPatch(v, RemovePart(n))
  BY <1>1, <1>5 DEF ViewPatch, RemovePart
<1>7. w \in Views /\ SameRest(w, v) /\ w.conns = Without(v.conns, n.id)
  BY <1>6, RemoveShown
<1>8. Mirrors(w.conns, y.conns)
  BY <1>4, <1>7, MirrorsWithout DEF Shows
<1> QED BY <1>2, <1>5, <1>7, <1>8 DEF BothPatched, Shows, SameRest, SameButConns

(* A part that changes cables, on the screen.                              *)
LEMMA ChangedShown ==
  ASSUME NEW v \in Views, NEW p, PartOK(p), p.kind \in {"label", "route", "derived"},
         NEW w, w = ViewPatch(v, p)
  PROVE  w \in Views /\ SameRest(w, v) /\ w.conns = ChangedAll(p, v.conns)
<1>1. PICK cs : cs = ChangedAll(p, v.conns)
  OBVIOUS
<1>2. w = WithCables(v, cs)
  BY <1>1, ViewChanges
<1>3. w.conns = cs /\ w.name = v.name /\ w.assigned = v.assigned /\ w.places = v.places
  BY <1>2, WithCablesFields
<1>4. w \in Views
  BY ViewPatchType
<1> QED BY <1>1, <1>3, <1>4 DEF SameRest

(* The changes of a part as a map.                                         *)
ChangedMap(p, cs) == [c \in cs |-> Changed(p, c)]

(* They are the same cables.                                               *)
LEMMA ChangedMapped ==
  ASSUME NEW p, NEW cs, NEW f, f = ChangedMap(p, cs)
  PROVE  ChangedAll(p, cs) = Mapped(f, cs) /\ \A c \in cs : f[c] = Changed(p, c)
<1>1. \A c \in cs : f[c] = Changed(p, c)
  BY DEF ChangedMap
<1> QED BY <1>1 DEF ChangedAll, Mapped

(* A cable after a part, and a row.                                        *)
LEMMA LabelAlike ==
  ASSUME NEW c \in Cable, NEW r \in Cable, SameButRoute(c, r), SameRoute(c, r),
         NEW p, p.kind = "label", NEW s, s = Changed(p, c), NEW t, t = Changed(p, r)
  PROVE  SameButRoute(s, t) /\ SameRoute(s, t) /\ s.id = c.id /\ t.id = r.id
<1>1. s = IF c.id = p.id THEN [c EXCEPT !.label = p.label] ELSE c
  BY DEF Changed
<1>2. t = IF r.id = p.id THEN [r EXCEPT !.label = p.label] ELSE r
  BY DEF Changed
<1> QED BY <1>1, <1>2 DEF Cable, SameButRoute, SameRoute

(* The same for derived states.                                            *)
LEMMA DerivedAlike ==
  ASSUME NEW c \in Cable, NEW r \in Cable, SameButRoute(c, r), SameRoute(c, r),
         NEW p, p.kind = "derived", NEW s, s = Changed(p, c), NEW t, t = Changed(p, r)
  PROVE  /\ SameButRoute(s, t) /\ SameRoute(s, t) /\ s.id = c.id /\ t.id = r.id
         /\ t.from = r.from /\ t.to = r.to /\ t.route = r.route
<1>0. c.id = r.id
  BY DEF SameButRoute
<1>1. CASE \E st \in p.states : st.id = c.id
  <2>1. PICK st : st = CHOOSE x \in p.states : x.id = c.id
    OBVIOUS
  <2>2. s = [c EXCEPT !.type = st.type, !.speed = st.speed]
    BY <1>1, <2>1 DEF Changed
  <2>3. t = [r EXCEPT !.type = st.type, !.speed = st.speed]
    BY <1>0, <1>1, <2>1 DEF Changed
  <2> QED BY <2>2, <2>3 DEF Cable, SameButRoute, SameRoute
<1>2. CASE ~\E st \in p.states : st.id = c.id
  <2>1. s = c /\ t = r
    BY <1>0, <1>2 DEF Changed
  <2> QED BY <2>1
<1> QED BY <1>1, <1>2

(* The route of a row as the patch gives it.                               *)
RoutedMap(p, rows) == [r \in rows |-> IF r.id = p.id THEN [r EXCEPT !.route = p.route] ELSE r]

(* The same for routes.                                                    *)
LEMMA RouteAlike ==
  ASSUME NEW c \in Cable, NEW r \in Cable, SameButRoute(c, r), SameRoute(c, r),
         NEW p, p.kind = "route", p.route \in RouteValues, NEW s, s = Changed(p, c),
         NEW t, t = IF r.id = p.id THEN [r EXCEPT !.route = p.route] ELSE r
  PROVE  SameButRoute(s, t) /\ SameRoute(s, t) /\ s.id = c.id /\ t.id = r.id
<1>1. PICK w \in RouteValues : w = RuntimeRoute(p.route) /\ w.bends = p.route.bends /\ w.avoid = p.route.avoid
  BY RuntimeRouteType
<1>2. s = IF c.id = p.id THEN [c EXCEPT !.route = w] ELSE c
  BY <1>1 DEF Changed
<1>3. PICK q : q = p.route
  OBVIOUS
<1>4. t = IF r.id = p.id THEN [r EXCEPT !.route = q] ELSE r
  BY <1>3
<1>5. c.id = r.id
  BY DEF SameButRoute
<1>6. CASE c.id = p.id
  <2>1. s = [c EXCEPT !.route = w] /\ t = [r EXCEPT !.route = q]
    BY <1>2, <1>4, <1>5, <1>6
  <2>2. /\ s.id = c.id /\ s.type = c.type /\ s.speed = c.speed /\ s.label = c.label
        /\ s.from = c.from /\ s.to = c.to /\ s.route = w
    BY <2>1 DEF Cable
  <2>3. /\ t.id = r.id /\ t.type = r.type /\ t.speed = r.speed /\ t.label = r.label
        /\ t.from = r.from /\ t.to = r.to /\ t.route = q
    BY <2>1 DEF Cable
  <2> QED BY <1>1, <1>3, <2>2, <2>3 DEF SameButRoute, SameRoute
<1>7. CASE c.id # p.id
  BY <1>2, <1>4, <1>5, <1>7
<1> QED BY <1>6, <1>7

(* Cables changed alike on the screen and in the rows.                     *)
LEMMA ChangedBoth ==
  ASSUME NEW v \in Views, NEW d, RowsOK(d), Shows(v, d), NEW p, PartOK(p),
         p.kind \in {"label", "route", "derived"}, NEW f, f = ChangedMap(p, v.conns), NEW g,
         \A c \in v.conns, r \in d.conns :
            c.id = r.id => /\ SameButRoute(f[c], g[r]) /\ SameRoute(f[c], g[r])
                           /\ f[c].id = c.id /\ g[r].id = r.id,
         NEW y, RowsOK(y), SameButConns(d, y), Mirrors(Mapped(g, d.conns), y.conns)
  PROVE  BothPatched(v, p, y)
<1>1. PICK w : w = ViewPatch(v, p)
  OBVIOUS
<1>2. w \in Views /\ SameRest(w, v) /\ w.conns = ChangedAll(p, v.conns)
  BY <1>1, ChangedShown
<1>3. w.conns = Mapped(f, v.conns)
  BY <1>2, ChangedMapped
<1>4. PICK A, B : A = v.conns /\ B = d.conns
  OBVIOUS
<1>5. /\ Mirrors(A, B)
      /\ \A c \in A : \E r \in B : r.id = c.id
      /\ \A r \in B : \E c \in A : c.id = r.id
  BY <1>4 DEF Shows, Mirrors, Traces
<1>6. /\ \A c \in A : f[c].id = c.id
      /\ \A r \in B : g[r].id = r.id
      /\ \A c \in A, r \in B : c.id = r.id => SameButRoute(f[c], g[r]) /\ SameRoute(f[c], g[r])
  BY <1>4, <1>5
<1>7. Mirrors(Mapped(f, A), Mapped(g, B))
  BY <1>5, <1>6, MirrorsMapped
<1>8. Mirrors(w.conns, y.conns)
  BY <1>3, <1>4, <1>7, MirrorsMirrored
<1> QED BY <1>1, <1>2, <1>8 DEF BothPatched, Shows, SameRest, SameButConns

(* Cables on the screen and rows of one id are copies.                     *)
LEMMA ShownCopies ==
  ASSUME NEW v \in Views, NEW d, RowsOK(d), Shows(v, d)
  PROVE  /\ d.conns \in SUBSET Cable /\ v.conns \in SUBSET Cable /\ UniqueIds(d.conns)
         /\ \A c \in v.conns, r \in d.conns :
               c.id = r.id => c \in Cable /\ r \in Cable /\ SameButRoute(c, r) /\ SameRoute(c, r)
<1>1. d.conns \in SUBSET Cable /\ v.conns \in SUBSET Cable /\ UniqueIds(d.conns)
  BY DEF RowsOK, Rows, Views
<1> QED BY <1>1 DEF Shows, Mirrors, Traces, IdsOf

(* A label.                                                                *)
LEMMA LabelBoth ==
  ASSUME NEW v \in Views, NEW d, RowsOK(d), Shows(v, d), NEW p, PartOK(p), p.kind = "label",
         NEW y \in StorePatch(d, p)
  PROVE  BothPatched(v, p, y)
<1>1. PICK A, B : A = v.conns /\ B = d.conns
  OBVIOUS
<1>2. PICK f, g : f = ChangedMap(p, A) /\ g = ChangedMap(p, B)
  OBVIOUS
<1>3. (\A c \in A : f[c] = Changed(p, c)) /\ \A r \in B : g[r] = Changed(p, r)
  BY <1>2, ChangedMapped
<1>4. Labelled(g, B, p)
  BY <1>3 DEF Labelled, Changed
<1>5. B \in SUBSET Cable /\ UniqueIds(B) /\ Matches(B, d.conns)
  BY <1>1, ShownCopies, MatchesItself
<1>6. p.label \in Labels \cup {0}
  BY DEF PartOK
<1>7. RowsOK(y) /\ SameButConns(d, y) /\ Matches(Mapped(g, B), y.conns)
  BY <1>4, <1>5, <1>6, StoreLabel
<1>8. Mirrors(Mapped(g, d.conns), y.conns)
  BY <1>1, <1>7, MatchesMirrors
<1>9. ASSUME NEW c \in v.conns, NEW r \in d.conns, c.id = r.id
      PROVE  /\ SameButRoute(f[c], g[r]) /\ SameRoute(f[c], g[r])
             /\ f[c].id = c.id /\ g[r].id = r.id
  <2>1. c \in Cable /\ r \in Cable /\ SameButRoute(c, r) /\ SameRoute(c, r)
    BY <1>9, ShownCopies
  <2>2. f[c] = Changed(p, c) /\ g[r] = Changed(p, r)
    BY <1>1, <1>3
  <2> QED BY <2>1, <2>2, LabelAlike
<1> QED BY <1>1, <1>2, <1>7, <1>8, <1>9, ChangedBoth

(* A route.                                                                *)
LEMMA RouteBoth ==
  ASSUME NEW v \in Views, NEW d, RowsOK(d), Shows(v, d), NEW p, PartOK(p), p.kind = "route",
         NEW y \in StorePatch(d, p)
  PROVE  BothPatched(v, p, y)
<1>1. PICK A, B : A = v.conns /\ B = d.conns
  OBVIOUS
<1>2. PICK f, g : f = ChangedMap(p, A) /\ g = RoutedMap(p, B)
  OBVIOUS
<1>3. \A c \in A : f[c] = Changed(p, c)
  BY <1>2, ChangedMapped
<1>4. \A r \in B : g[r] = IF r.id = p.id THEN [r EXCEPT !.route = p.route] ELSE r
  BY <1>2 DEF RoutedMap
<1>5. Routed(g, B, p)
  BY <1>4 DEF Routed
<1>6. B \in SUBSET Cable /\ UniqueIds(B) /\ Matches(B, d.conns)
  BY <1>1, ShownCopies, MatchesItself
<1>7. p.route \in RouteValues
  BY DEF PartOK
<1>8. RowsOK(y) /\ SameButConns(d, y) /\ Matches(Mapped(g, B), y.conns)
  BY <1>5, <1>6, <1>7, StoreRoute
<1>9. Mirrors(Mapped(g, d.conns), y.conns)
  BY <1>1, <1>8, MatchesMirrors
<1>10. ASSUME NEW c \in v.conns, NEW r \in d.conns, c.id = r.id
       PROVE  /\ SameButRoute(f[c], g[r]) /\ SameRoute(f[c], g[r])
              /\ f[c].id = c.id /\ g[r].id = r.id
  <2>1. c \in Cable /\ r \in Cable /\ SameButRoute(c, r) /\ SameRoute(c, r)
    BY <1>10, ShownCopies
  <2>2. f[c] = Changed(p, c) /\ g[r] = IF r.id = p.id THEN [r EXCEPT !.route = p.route] ELSE r
    BY <1>1, <1>3, <1>4
  <2> QED BY <1>7, <2>1, <2>2, RouteAlike
<1> QED BY <1>1, <1>2, <1>8, <1>9, <1>10, ChangedBoth

(* Derived states in the rows.                                             *)
LEMMA DerivedRows ==
  ASSUME NEW p, p.kind = "derived", NEW cs
  PROVE  PatchDerived(cs, p) = ChangedAll(p, cs)
<1> DEFINE k(c) == IF \E st \in p.states : st.id = c.id
                     THEN LET st == CHOOSE x \in p.states : x.id = c.id
                          IN [c EXCEPT !.type = st.type, !.speed = st.speed]
                     ELSE c
<1>1. \A c : Changed(p, c) = k(c)
  BY DEF Changed
<1>2. PatchDerived(cs, p) = {k(c) : c \in cs}
  BY DEF PatchDerived
<1> HIDE DEF k
<1> QED BY <1>1, <1>2 DEF ChangedAll

(* Derived states.                                                         *)
LEMMA DerivedBoth ==
  ASSUME NEW v \in Views, NEW d, RowsOK(d), Shows(v, d), NEW p, PartOK(p), p.kind = "derived",
         NEW y \in StorePatch(d, p)
  PROVE  BothPatched(v, p, y)
<1>1. PICK A, B : A = v.conns /\ B = d.conns
  OBVIOUS
<1>2. PICK f, g : f = ChangedMap(p, A) /\ g = ChangedMap(p, B)
  OBVIOUS
<1>3. /\ \A c \in A : f[c] = Changed(p, c)
      /\ \A r \in B : g[r] = Changed(p, r)
      /\ ChangedAll(p, B) = Mapped(g, B)
  BY <1>2, ChangedMapped
<1>4. B \in SUBSET Cable /\ UniqueIds(B)
  BY <1>1, ShownCopies
<1>5. PatchDerived(B, p) = Mapped(g, B) /\ PatchDerived(B, p) \in SUBSET Cable
  BY <1>3, <1>4, DerivedRows, RederivedCables DEF PartOK
<1>6. ASSUME NEW r \in B
      PROVE  g[r].id = r.id /\ g[r].from = r.from /\ g[r].to = r.to /\ g[r].route = r.route
  <2>1. r \in Cable /\ SameButRoute(r, r) /\ SameRoute(r, r) /\ g[r] = Changed(p, r)
    BY <1>3, <1>4 DEF SameButRoute, SameRoute
  <2> QED BY <2>1, DerivedAlike
<1>7. Rederived(B, PatchDerived(B, p))
  BY <1>5, <1>6 DEF Rederived, Mapped
<1>8. RowsOK(y) /\ SameButConns(d, y) /\ y.conns = PatchDerived(B, p)
  BY <1>1, <1>7, StoreDerived
<1>9. UniqueIds(y.conns) /\ y.conns = Mapped(g, B)
  BY <1>5, <1>8 DEF RowsOK
<1>10. Mirrors(Mapped(g, d.conns), y.conns)
  BY <1>1, <1>9, MirrorsItself DEF Mirrors
<1>11. ASSUME NEW c \in v.conns, NEW r \in d.conns, c.id = r.id
       PROVE  /\ SameButRoute(f[c], g[r]) /\ SameRoute(f[c], g[r])
              /\ f[c].id = c.id /\ g[r].id = r.id
  <2>1. c \in Cable /\ r \in Cable /\ SameButRoute(c, r) /\ SameRoute(c, r)
    BY <1>11, ShownCopies
  <2>2. f[c] = Changed(p, c) /\ g[r] = Changed(p, r)
    BY <1>1, <1>3
  <2> QED BY <2>1, <2>2, DerivedAlike
<1> QED BY <1>1, <1>2, <1>8, <1>10, <1>11, ChangedBoth

(* Assignments.                                                            *)
LEMMA AssignBoth ==
  ASSUME NEW v \in Views, NEW d, RowsOK(d), Shows(v, d), NEW p, PartOK(p), p.kind = "assignments",
         UpsertsOK(p), NEW y \in StorePatch(d, p)
  PROVE  BothPatched(v, p, y)
<1>1. PICK U, D : U = p.upsert /\ D = p.remove
  OBVIOUS
<1>2. PICK d1 : d1 = [d EXCEPT !.assigned = {a \in d.assigned : a.id \notin D}]
  OBVIOUS
<1>3. y \in Upserts(d1, InIdOrder(U))
  BY <1>1, <1>2 DEF StorePatch, PatchAssignments, Upserts
<1>4. d \in Rows /\ U \subseteq Assignments /\ d.assigned \in SUBSET Assignments
  BY <1>1 DEF RowsOK, Rows, PartOK
<1>5. /\ d1 \in Rows /\ d1.assigned = {a \in d.assigned : a.id \notin D}
      /\ d1.name = d.name /\ d1.conns = d.conns /\ d1.seq = d.seq /\ d1.places = d.places
  BY <1>2, <1>4 DEF Rows
<1>6. PICK m \in Nat : UniqueIds(U) /\ \A a \in U : a.id \in 1..m
  BY <1>1 DEF UpsertsOK
<1>7. y = WithAssigned(d1, Replaced(d1.assigned, U))
  BY <1>3, <1>5, <1>6, SetStored
<1>8. PICK S : S = Reassigned(d.assigned, p)
  OBVIOUS
<1>9. Replaced(d1.assigned, U) = S
  BY <1>1, <1>5, <1>8 DEF Replaced, Reassigned, Touched
<1>10. S \in SUBSET Assignments
  BY <1>1, <1>4, <1>8 DEF Reassigned
<1>11. y = [d1 EXCEPT !.assigned = S]
  BY <1>7, <1>9 DEF WithAssigned
<1>12. /\ y \in Rows /\ y.assigned = S /\ y.name = d.name /\ y.conns = d.conns
       /\ y.seq = d.seq /\ y.places = d.places
  BY <1>5, <1>10, <1>11 DEF Rows
<1>13. RowsOK(y)
  BY <1>12 DEF RowsOK
<1>14. PICK w : w = ViewPatch(v, p)
  OBVIOUS
<1>15. w.assigned = Reassigned(v.assigned, p) /\ w.name = v.name /\ w.places = v.places /\ w.conns = v.conns
  BY <1>14, AssignedShown
<1>16. w \in Views
  BY <1>14, ViewPatchType
<1> QED BY <1>8, <1>12, <1>13, <1>14, <1>15, <1>16 DEF BothPatched, Shows

(* Positions.                                                              *)
LEMMA PlaceBoth ==
  ASSUME NEW v \in Views, NEW d, RowsOK(d), Shows(v, d), NEW p, PartOK(p), p.kind = "placements",
         NEW y \in StorePatch(d, p)
  PROVE  BothPatched(v, p, y)
<1>1. PICK pl : pl = PatchPlacements(d.places, p)
  OBVIOUS
<1>2. PICK w : w = ViewPatch(v, p)
  OBVIOUS
<1>3. w \in Views
  BY <1>2, ViewPatchType
<1>4. w = [v EXCEPT !.places = pl]
  BY <1>1, <1>2 DEF ViewPatch, Shows
<1>5. w.places = pl /\ w.name = v.name /\ w.assigned = v.assigned /\ w.conns = v.conns
  BY <1>4 DEF Views
<1>6. pl \in [Items -> Positions \cup {0}]
  BY <1>3, <1>5 DEF Views
<1>7. y = [d EXCEPT !.places = pl]
  BY <1>1 DEF StorePatch
<1>8. d \in Rows
  BY DEF RowsOK
<1>9. /\ y \in Rows /\ y.places = pl /\ y.name = d.name /\ y.conns = d.conns
      /\ y.seq = d.seq /\ y.assigned = d.assigned
  BY <1>6, <1>7, <1>8 DEF Rows
<1>10. RowsOK(y)
  BY <1>9 DEF RowsOK
<1> QED BY <1>2, <1>3, <1>5, <1>9, <1>10 DEF BothPatched, Shows

(* The name.                                                               *)
LEMMA NameBoth ==
  ASSUME NEW v \in Views, NEW d, RowsOK(d), Shows(v, d), NEW p, PartOK(p), p.kind = "name",
         NEW y \in StorePatch(d, p)
  PROVE  BothPatched(v, p, y)
<1>1. PICK nm \in Labels \cup {0} : nm = p.name
  BY DEF PartOK
<1>2. PICK w : w = ViewPatch(v, p)
  OBVIOUS
<1>3. w \in Views
  BY <1>2, ViewPatchType
<1>4. w = [v EXCEPT !.name = nm]
  BY <1>1, <1>2 DEF ViewPatch
<1>5. w.name = nm /\ w.places = v.places /\ w.assigned = v.assigned /\ w.conns = v.conns
  BY <1>4 DEF Views
<1>6. y = [d EXCEPT !.name = nm]
  BY <1>1 DEF StorePatch
<1>7. d \in Rows
  BY DEF RowsOK
<1>8. /\ y \in Rows /\ y.places = d.places /\ y.name = nm /\ y.conns = d.conns
      /\ y.seq = d.seq /\ y.assigned = d.assigned
  BY <1>6, <1>7 DEF Rows
<1>9. RowsOK(y)
  BY <1>8 DEF RowsOK
<1> QED BY <1>2, <1>3, <1>5, <1>8, <1>9 DEF BothPatched, Shows

(* Every part does to the screen what it does to the tables.               *)
LEMMA PartBoth ==
  ASSUME NEW v \in Views, NEW d, RowsOK(d), Shows(v, d), NEW p, PartOK(p), UpsertsOK(p),
         NEW y \in StorePatch(d, p)
  PROVE  BothPatched(v, p, y)
<1>1. p.kind \in Parts
  BY DEF PartOK
<1> QED BY <1>1, AddBoth, RemoveBoth, LabelBoth, RouteBoth, DerivedBoth, AssignBoth, PlaceBoth, NameBoth DEF Parts

-----------------------------------------------------------------------------
(* A whole patch in the store and on a screen *)

(* The screen and the rows of one project, as far as they are types.       *)
ShowsRows(v, d) == v \in Views /\ RowsOK(d) /\ Shows(v, d)

(* A screen that shows the rows shows them after a patch.                  *)
LEMMA PatchShown ==
  ASSUME NEW v, NEW d, ShowsRows(v, d), NEW s, NEW n \in Nat, PatchOK(s, n),
         \A k \in 1..n : UpsertsOK(s[k]), NEW x \in Store(d, s)
  PROVE  ShowsRows(Show(v, s), x)
<1>1. DOMAIN s = 1..n
  BY DEF PatchOK
<1>2. PICK run : IsRun(run, d, s, n) /\ Store(d, s) = run[n]
  BY <1>1, StoreSteps
<1>3. PICK scr : IsShow(scr, v, s, n) /\ Show(v, s) = scr[n]
  BY <1>1, ShowSteps
<1> DEFINE P(k) == \A y \in run[k] : ShowsRows(scr[k], y)
           N == {k \in Nat : k <= n => P(k)}
<1>4. 0 \in N
  BY <1>2, <1>3 DEF IsRun, IsShow
<1>5. ASSUME NEW k \in N PROVE k + 1 \in N
  <2> SUFFICES ASSUME k + 1 <= n, NEW y \in run[k + 1] PROVE ShowsRows(scr[k + 1], y)
    OBVIOUS
  <2>1. k \in Nat /\ k + 1 \in 1..n /\ (k + 1) - 1 = k /\ P(k)
    OBVIOUS
  <2>2. PICK z \in run[k] : y \in StorePatch(z, s[k + 1])
    BY <1>2, <2>1, RunStep
  <2>3. PICK p, a, b : p = s[k + 1] /\ a = scr[k] /\ b = scr[k + 1]
    OBVIOUS
  <2>4. b = ViewPatch(a, p)
    BY <1>3, <2>1, <2>3 DEF IsShow
  <2>5. PartOK(p) /\ UpsertsOK(p)
    BY <2>1, <2>3 DEF PatchOK
  <2>6. ShowsRows(a, z)
    BY <2>1, <2>2, <2>3
  <2>7. BothPatched(a, p, y)
    BY <2>2, <2>3, <2>5, <2>6, PartBoth DEF ShowsRows
  <2> QED BY <2>3, <2>4, <2>7 DEF BothPatched, ShowsRows
<1>6. N = Nat
  <2>1. N \in SUBSET Nat
    OBVIOUS
  <2> HIDE DEF N
  <2> QED BY <1>4, <1>5, <2>1, Induction
<1>7. P(n)
  <2> HIDE DEF P
  <2> QED BY <1>6
<1> QED BY <1>2, <1>3, <1>7

(* The patch of assignments puts each id in once.                          *)
LEMMA AssignUpserts ==
  ASSUME NEW C, ChangesOK(C), NEW new, new = {ch.next : ch \in Real(C)}
  PROVE  LET U == new \ {NoAssignment}
         IN UniqueIds(U) /\ \E m \in Nat : \A a \in U : a.id \in 1..m
<1>1. PICK U : U = new \ {NoAssignment}
  OBVIOUS
<1>2. \A ch \in Real(C) : /\ ch \in C /\ ch.prev # ch.next
                          /\ ch.next \in Assignments \cup {NoAssignment}
  BY DEF Real, ChangesOK
<1>3. \A ch \in Real(C) : ch.next # NoAssignment => AssignmentId(ch) = ch.next.id
  BY <1>2 DEF ChangesOK, AssignmentId
<1>4. UniqueIds(U)
  <2> SUFFICES ASSUME NEW a \in Real(C), NEW b \in Real(C), a.next # NoAssignment, b.next # NoAssignment,
                      a.next.id = b.next.id
               PROVE  a.next = b.next
    BY <1>1 DEF UniqueIds
  <2>1. AssignmentId(a) = AssignmentId(b)
    BY <1>3
  <2> QED BY <1>2, <2>1 DEF ChangesOK
<1>5. PICK m \in Nat : \A ch \in Real(C) : AssignmentId(ch) \in 0..m
  BY <1>2 DEF ChangesOK
<1>6. \A a \in U : a.id \in 1..m
  <2> SUFFICES ASSUME NEW ch \in Real(C), ch.next # NoAssignment PROVE ch.next.id \in 1..m
    BY <1>1
  <2>1. ch.next \in Assignments
    BY <1>2
  <2>2. ch.next.id \in 0..m
    BY <1>3, <1>5
  <2>3. ch.next.id # 0
    BY <2>1, AssignedIds
  <2> QED BY <2>2, <2>3
<1> QED BY <1>1, <1>4, <1>6

(* So does every patch a command is answered with.                         *)
LEMMA DispatchUpserts ==
  ASSUME NEW e, Loaded(e), Builds(e), NEW op, OperationOK(op), Typed(op), NEW v, MovesFrom(op, v),
         NEW reply \in Dispatch(e, op), NEW fw, fw = reply.forward
  PROVE  \A k \in DOMAIN fw : UpsertsOK(fw[k])
<1>1. CASE op.kind \in {"place", "snap"}
  <2>1. PICK C : fw = <<PlacementPatch(C)>>
    BY <1>1, MovePatches
  <2>2. PlacementPatch(C).kind = "placements"
    BY DEF PlacementPatch
  <2>3. KindsIn(fw, {"placements"})
    BY <2>1, <2>2, OneKind
  <2> QED BY <2>3 DEF KindsIn, UpsertsOK
<1>2. CASE op.kind = "assign"
  <2>1. reply \in UpdateAssignments(e, op) /\ ChangesOK(op.changes)
    BY <1>2 DEF Dispatch, OperationOK
  <2>2. PICK old, new : old = {ch.prev : ch \in Real(op.changes)} /\ new = {ch.next : ch \in Real(op.changes)}
    OBVIOUS
  <2>3. PICK p : p = AssignmentPatch(old, new)
    OBVIOUS
  <2>4. \E t, inv : reply \in CommitTopology(e, t, <<p>>, inv)
    <3>1. PICK C : C = {ch \in op.changes : ch.prev # ch.next}
      OBVIOUS
    <3>2. p = AssignmentPatch({ch.prev : ch \in C}, {ch.next : ch \in C})
      BY <2>2, <2>3, <3>1 DEF Real
    <3> QED BY <2>1, <3>1, <3>2 DEF UpdateAssignments
  <2>5. fw = <<p>>
    BY <2>4 DEF CommitTopology
  <2>6. p.upsert = new \ {NoAssignment}
    BY <2>3 DEF AssignmentPatch
  <2>7. UpsertsOK(p)
    BY <2>1, <2>2, <2>6, AssignUpserts DEF UpsertsOK
  <2>8. \A k \in DOMAIN fw : fw[k] = p
    BY <2>5
  <2> QED BY <2>7, <2>8
<1>3. CASE op.kind \notin {"place", "snap", "assign"}
  <2>1. KindsIn(fw, Parts \ {"placements", "assignments"})
    BY <1>3, DispatchKinds
  <2> QED BY <2>1 DEF KindsIn, UpsertsOK
<1> QED BY <1>1, <1>2, <1>3

-----------------------------------------------------------------------------
(* A browser that saw every event *)

(* The screen is the project of the rows, at their revision.               *)
OnScreen(v, d) == v.rev = d.rev /\ Shows(v, d)

(* While no other project takes an id, the worker is the project of the    *)
(* handle, and so is a screen that is not behind.                          *)
BrowserInStep ==
  others = 0 => /\ InStep(engine, db) /\ Follows(worker, engine)
                /\ ~behind => OnScreen(view, db)

(* An engine loaded from the rows is the project of the handle.            *)
LEMMA LoadedFollows ==
  ASSUME NEW e, NEW d, Agree(e, d), e.rev = d.rev
  PROVE  /\ InStep(EngineOf(d), d)
         /\ InStep(e, d) => Follows(EngineOf(d), e)
         /\ Follows(EngineOf(d), EngineOf(d))
<1>1. PICK u : u = EngineOf(d)
  OBVIOUS
<1>2. /\ u.rev = d.rev /\ u.next = d.seq + 1 /\ u.name = d.name /\ u.conns = d.conns
      /\ u.assigned = d.assigned /\ u.placed = Placed(d.places)
  BY <1>1 DEF EngineOf
<1>3. Mirrors(u.conns, e.conns)
  BY <1>2, MatchesMirrors, MirrorsTurned DEF Agree
<1>4. Mirrors(u.conns, u.conns)
  BY <1>2, MirrorsItself DEF Agree, RowsOK, Mirrors
<1> QED BY <1>1, <1>2, <1>3, <1>4 DEF Agree, InStep, Follows

(* A worker of the project of a handle that is loaded again.               *)
LEMMA FollowsLoaded ==
  ASSUME NEW w, NEW e, NEW d, Agree(e, d), e.rev = d.rev, InStep(e, d), Follows(w, e)
  PROVE  Follows(w, EngineOf(d))
<1>1. PICK u : u = EngineOf(d)
  OBVIOUS
<1>2. /\ u.rev = d.rev /\ u.next = d.seq + 1 /\ u.name = d.name /\ u.conns = d.conns
      /\ u.assigned = d.assigned /\ u.placed = Placed(d.places)
  BY <1>1 DEF EngineOf
<1>3. Mirrors(w.conns, e.conns) /\ Mirrors(e.conns, u.conns)
  BY <1>2, MatchesMirrors DEF Agree, Follows
<1>4. Mirrors(w.conns, u.conns)
  BY <1>3, MirrorsMirrored
<1> QED BY <1>1, <1>2, <1>4 DEF Agree, InStep, Follows

(* A project loaded from the rows.                                         *)
LEMMA LoadedShows ==
  ASSUME NEW d, RowsOK(d)
  PROVE  OnScreen(ProjectOf(d), d)
<1>1. Mirrors(d.conns, d.conns)
  BY MirrorsItself DEF RowsOK, Mirrors
<1> QED BY <1>1 DEF OnScreen, Shows, ProjectOf

(* What a committed command leaves: the handle stays in step with the      *)
(* sequence, and the patch shows what was stored.                          *)
LEMMA CommitInStep ==
  ASSUME AllTyped, PlacesShown, NEW op \in Operations, NEW reply \in Dispatch(engine, op),
         NEW saved \in ApplyEnginePatch(db, reply)
  PROVE  /\ InStep(engine, db) => InStep(reply.engine, saved)
         /\ OnScreen(view, db) => OnScreen(PatchView(view, reply.forward, saved.rev), saved)
<1>1. /\ Agree(engine, db) /\ OperationOK(op) /\ Typed(op) /\ Loaded(engine) /\ Builds(engine)
      /\ view \in Views
  BY OperationsOK, OperationsTyped, AgreeLoaded DEF AllTyped, OneProject, BrowserOK
<1>2. PICK x \in Store(db, reply.forward) : saved = [x EXCEPT !.rev = reply.engine.rev]
  BY DEF ApplyEnginePatch, Store
<1>3. PICK e, d, v, fw : e = engine /\ d = db /\ v = view /\ fw = reply.forward
  OBVIOUS
<1>4. Stores(e, d, reply, x)
  BY <1>1, <1>2, <1>3, DispatchStores
<1>5. x \in Rows /\ d \in Rows /\ RowsOK(d)
  BY <1>1, <1>3, <1>4 DEF Stores, Agree, RowsOK
<1>6. /\ saved.seq = x.seq /\ saved.name = x.name /\ saved.conns = x.conns
      /\ saved.assigned = x.assigned /\ saved.places = x.places
  BY <1>2, <1>5 DEF Rows
<1>7. InStep(e, d) => InStep(reply.engine, saved)
  BY <1>4, <1>6 DEF Stores, InStep
<1>8. ReplyOK(e, reply)
  BY <1>1, <1>3, DispatchType
<1>9. PICK n \in Nat \ {0} : PatchOK(fw, n)
  BY <1>3, <1>8 DEF ReplyOK
<1>10. MovesFrom(op, v)
  BY <1>1, <1>3, OperationsMove DEF PlacesShown
<1>11. \A k \in 1..n : UpsertsOK(fw[k])
  <2>1. Loaded(e) /\ Builds(e) /\ reply \in Dispatch(e, op) /\ DOMAIN fw = 1..n
    BY <1>1, <1>3, <1>9 DEF PatchOK
  <2>2. \A k \in DOMAIN fw : UpsertsOK(fw[k])
    BY <1>1, <1>3, <1>10, <2>1, DispatchUpserts
  <2> QED BY <2>1, <2>2
<1>12. ASSUME OnScreen(v, d) PROVE OnScreen(PatchView(v, fw, saved.rev), saved)
  <2>1. ShowsRows(v, d)
    BY <1>1, <1>3, <1>5, <1>12 DEF ShowsRows, OnScreen
  <2>2. x \in Store(d, fw)
    BY <1>2, <1>3
  <2>3. PICK w : w = Show(v, fw)
    OBVIOUS
  <2>4. w \in Views /\ Shows(w, x)
    BY <1>9, <1>11, <2>1, <2>2, <2>3, PatchShown DEF ShowsRows
  <2>5. PICK k, b : k = saved.rev /\ b = PatchView(v, fw, k)
    OBVIOUS
  <2>6. b = [w EXCEPT !.rev = k]
    BY <2>3, <2>5 DEF PatchView, Show
  <2>7. b.rev = k /\ b.name = w.name /\ b.assigned = w.assigned /\ b.places = w.places /\ b.conns = w.conns
    BY <2>4, <2>6 DEF Views
  <2>8. Shows(b, saved)
    BY <1>6, <2>4, <2>7 DEF Shows
  <2> QED BY <2>5, <2>7, <2>8 DEF OnScreen
<1> QED BY <1>3, <1>7, <1>12

(* The worker and the handle.                                              *)
LEMMA WorkerPartners ==
  ASSUME AllTyped, BrowserInStep, others = 0
  PROVE  Partners(worker, engine)
<1>1. Loaded(worker) /\ Builds(worker) /\ Loaded(engine) /\ Builds(engine)
  BY AgreeLoaded DEF AllTyped, OneProject, BrowserOK
<1> QED BY <1>1 DEF Partners, BrowserInStep

(* A refused command, or one that could not be saved.                      *)
LEMMA FailureInStep ==
  ASSUME AllTyped, BrowserInStep, NEW op, Refuses(op) \/ CannotSave(op),
         worker' \in {worker, EngineOf(db)}, UNCHANGED <<view, behind>>
  PROVE  BrowserInStep'
<1> SUFFICES ASSUME others' = 0
             PROVE  InStep(engine', db') /\ Follows(worker', engine') /\ (~behind' => OnScreen(view', db'))
  BY DEF BrowserInStep
<1>1. db' = db /\ others = 0 /\ view' = view /\ behind' = behind
  BY DEF Refuses, CannotSave
<1>2. engine' \in {engine, EngineOf(db)}
  BY DEF Refuses, CannotSave
<1>3. /\ InStep(engine, db) /\ Follows(worker, engine)
      /\ ~behind => OnScreen(view, db)
  BY <1>1 DEF BrowserInStep
<1>4. Agree(engine, db) /\ engine.rev = db.rev
  BY DEF AllTyped, OneProject
<1>5. PICK w, e, d, u, w1, e1 : /\ w = worker /\ e = engine /\ d = db /\ u = EngineOf(db)
                                /\ w1 = worker' /\ e1 = engine'
  OBVIOUS
<1>6. InStep(u, d) /\ Follows(u, e) /\ Follows(u, u)
  BY <1>3, <1>4, <1>5, LoadedFollows
<1>7. Follows(w, u)
  BY <1>3, <1>4, <1>5, FollowsLoaded
<1>8. w1 \in {w, u} /\ e1 \in {e, u} /\ InStep(e, d) /\ Follows(w, e)
  BY <1>2, <1>3, <1>5
<1>9. InStep(e1, d) /\ Follows(w1, e1)
  BY <1>6, <1>7, <1>8
<1> QED BY <1>1, <1>3, <1>5, <1>9

(* A committed command that the worker ran or replayed.                    *)
LEMMA RunInStep ==
  ASSUME AllTyped, PlacesShown, BrowserInStep, NEW op \in Operations, NEW reply \in Dispatch(engine, op),
         NEW saved \in ApplyEnginePatch(db, reply), Commits(reply, saved),
         NEW mine, mine \in Dispatch(worker, op) \/ mine \in ReplayOf(reply),
         worker' = mine.engine, view' = PatchView(view, reply.forward, saved.rev), behind' = behind
  PROVE  BrowserInStep'
<1> SUFFICES ASSUME others' = 0
             PROVE  InStep(engine', db') /\ Follows(worker', engine') /\ (~behind' => OnScreen(view', db'))
  BY DEF BrowserInStep
<1>1. engine' = reply.engine /\ db' = saved /\ others = 0
  BY DEF Commits
<1>2. InStep(engine, db) /\ (~behind => OnScreen(view, db))
  BY <1>1 DEF BrowserInStep
<1>3. PICK w, e, u : w = worker /\ e = engine /\ u = reply.engine
  OBVIOUS
<1>4. Partners(w, e)
  BY <1>1, <1>3, WorkerPartners
<1>5. Exposed(u)
  <2>1. Agree(reply.engine, saved)
    BY CommitTyped
  <2> QED BY <1>3, <2>1, AgreeExposed
<1>6. OperationOK(op) /\ Typed(op) /\ MovesFrom(op, view)
  BY OperationsOK, OperationsTyped, OperationsMove DEF AllTyped, OneProject, PlacesShown
<1>7. reply \in Dispatch(e, op)
  BY <1>3
<1>8. Follows(mine.engine, reply.engine)
  <2>1. CASE mine \in Dispatch(w, op)
    BY <1>3, <1>4, <1>5, <1>6, <1>7, <2>1, DispatchFollows
  <2>2. CASE mine \in ReplayOf(reply)
    <3>1. Replays(w, reply, mine)
      BY <1>3, <2>2 DEF ReplayOf, Replays
    <3> QED BY <1>3, <1>4, <1>5, <1>6, <1>7, <3>1, DispatchReplayed
  <2> QED BY <1>3, <2>1, <2>2
<1>9. /\ InStep(reply.engine, saved)
      /\ ~behind => OnScreen(PatchView(view, reply.forward, saved.rev), saved)
  BY <1>2, CommitInStep
<1>10. PICK a, b, v, k : a = engine' /\ b = worker' /\ v = view' /\ k = db'
  OBVIOUS
<1>11. InStep(a, k) /\ Follows(b, a) /\ (~behind => OnScreen(v, k))
  BY <1>1, <1>8, <1>9, <1>10
<1> QED BY <1>10, <1>11

(* A committed command that the worker did not replay.                     *)
LEMMA RebuiltInStep ==
  ASSUME AllTyped, PlacesShown, BrowserInStep, NEW op \in Operations, NEW reply \in Dispatch(engine, op),
         NEW saved \in ApplyEnginePatch(db, reply), Commits(reply, saved),
         worker' = EngineOf(saved), behind' = TRUE
  PROVE  BrowserInStep'
<1> SUFFICES ASSUME others' = 0
             PROVE  InStep(engine', db') /\ Follows(worker', engine') /\ (~behind' => OnScreen(view', db'))
  BY DEF BrowserInStep
<1>1. engine' = reply.engine /\ db' = saved /\ others = 0
  BY DEF Commits
<1>2. InStep(engine, db)
  BY <1>1 DEF BrowserInStep
<1>3. InStep(reply.engine, saved)
  BY <1>2, CommitInStep
<1>4. Agree(reply.engine, saved) /\ OneProject'
  BY CommitTyped
<1>5. reply.engine.rev = saved.rev
  BY <1>1, <1>4 DEF OneProject
<1>6. Follows(EngineOf(saved), reply.engine)
  BY <1>3, <1>4, <1>5, LoadedFollows
<1>7. PICK a, b, k : a = engine' /\ b = worker' /\ k = db'
  OBVIOUS
<1>8. InStep(a, k) /\ Follows(b, a)
  BY <1>1, <1>3, <1>6, <1>7
<1> QED BY <1>7, <1>8

(* Every step.                                                             *)
LEMMA InStepNext == AllTyped /\ PlacesShown /\ BrowserInStep /\ [Next]_vars => BrowserInStep'
<1> SUFFICES ASSUME AllTyped, PlacesShown, BrowserInStep, [Next]_vars PROVE BrowserInStep'
  OBVIOUS
<1>1. Agree(engine, db) /\ engine.rev = db.rev /\ RowsOK(db)
  BY DEF AllTyped, OneProject, Agree
<1>2. ASSUME NEW op \in Operations, OwnCommand(op) PROVE BrowserInStep'
  <2>1. ASSUME NEW mine \in Dispatch(worker, op), NEW reply \in Dispatch(engine, op),
               NEW saved \in ApplyEnginePatch(db, reply), Commits(reply, saved), worker' = mine.engine,
               view' = PatchView(view, reply.forward, saved.rev), behind' = behind
        PROVE  BrowserInStep'
    BY <2>1, RunInStep
  <2>2. CASE (Refuses(op) \/ CannotSave(op)) /\ worker' = EngineOf(db) /\ UNCHANGED <<view, behind>>
    BY <2>2, FailureInStep
  <2> QED BY <1>2, <2>1, <2>2 DEF OwnCommand
<1>3. ASSUME NEW op \in Operations, ForeignCommand(op) PROVE BrowserInStep'
  <2>1. ASSUME NEW reply \in Dispatch(engine, op), NEW saved \in ApplyEnginePatch(db, reply),
               Commits(reply, saved), NEW mine \in ReplayOf(reply), worker' = mine.engine,
               view' = PatchView(view, reply.forward, saved.rev), behind' = behind
        PROVE  BrowserInStep'
    BY <2>1, RunInStep
  <2>2. ASSUME NEW reply \in Dispatch(engine, op), NEW saved \in ApplyEnginePatch(db, reply),
               Commits(reply, saved), worker' = EngineOf(saved), behind' = TRUE
        PROVE  BrowserInStep'
    BY <2>2, RebuiltInStep
  <2>3. CASE CannotSave(op) /\ UNCHANGED <<worker, view, behind>>
    BY <2>3, FailureInStep
  <2> QED BY <1>3, <2>1, <2>2, <2>3 DEF ForeignCommand
<1>4. CASE RebuildHandle
  <2>1. db' = db /\ worker' = worker /\ view' = view /\ behind' = behind /\ others' = others
    BY <1>4 DEF RebuildHandle
  <2>2. PICK u : u = EngineOf(db) /\ u = engine'
    BY <1>4 DEF RebuildHandle
  <2>3. PICK w, e, d : w = worker /\ e = engine /\ d = db
    OBVIOUS
  <2>4. ASSUME others = 0 PROVE InStep(u, d) /\ Follows(w, u)
    <3>1. Agree(e, d) /\ e.rev = d.rev /\ InStep(e, d) /\ Follows(w, e) /\ u = EngineOf(d)
      BY <1>1, <2>2, <2>3, <2>4 DEF BrowserInStep
    <3> QED BY <3>1, LoadedFollows, FollowsLoaded
  <2> QED BY <2>1, <2>2, <2>3, <2>4 DEF BrowserInStep
<1>5. CASE Reload
  <2>1. db' = db /\ engine' = engine /\ behind' = FALSE /\ others' = others
    BY <1>5 DEF Reload
  <2>2. PICK u, v : u = EngineOf(db) /\ v = ProjectOf(db) /\ u = worker' /\ v = view'
    BY <1>5 DEF Reload
  <2>3. others = 0 => InStep(engine, db) /\ Follows(u, engine)
    BY <1>1, <2>2, LoadedFollows DEF BrowserInStep
  <2>4. OnScreen(v, db)
    BY <1>1, <2>2, LoadedShows
  <2> QED BY <2>1, <2>2, <2>3, <2>4 DEF BrowserInStep
<1>6. CASE OtherProject
  <2>1. others' # 0
    BY <1>6 DEF OtherProject, AllTyped, SharedOK
  <2> QED BY <2>1 DEF BrowserInStep
<1>7. CASE UNCHANGED vars
  BY <1>7 DEF vars, BrowserInStep
<1> QED BY <1>2, <1>3, <1>4, <1>5, <1>6, <1>7 DEF Next, Mutate, Follow

(* The first state.                                                        *)
LEMMA InStepInit == Init => BrowserInStep
<1> SUFFICES ASSUME Init PROVE BrowserInStep
  OBVIOUS
<1>1. engine = EngineOf(db) /\ worker = EngineOf(db) /\ view = ProjectOf(db)
  BY DEF Init
<1>2. Agree(engine, db) /\ engine.rev = db.rev /\ RowsOK(db)
  BY OneProjectInit DEF OneProject, Agree
<1>3. InStep(EngineOf(db), db) /\ Follows(EngineOf(db), EngineOf(db))
  BY <1>2, LoadedFollows
<1>4. OnScreen(ProjectOf(db), db)
  BY <1>2, LoadedShows
<1> QED BY <1>1, <1>3, <1>4 DEF BrowserInStep

(* BrowserMatches, for every inventory: a worker that runs its browser's   *)
(* commands and replays what it makes of the patches of others', and a     *)
(* screen patched part by part, stay the project of the store, through     *)
(* refused and unsaved commands, rebuilds and reloads.                     *)
THEOREM BrowsersMatch == Spec => []BrowserMatches
<1>1. Init => PlacesShown
  BY DEF Init, PlacesShown, ProjectOf
<1>2. AllTyped /\ BrowserInStep => BrowserMatches
  <2> SUFFICES ASSUME AllTyped, BrowserInStep, others = 0
               PROVE  /\ <<worker.rev, worker.name, worker.assigned, worker.placed, worker.next>> =
                           <<db.rev, db.name, db.assigned, Placed(db.places), db.seq + 1>>
                      /\ SameCables(worker.conns, db.conns)
                      /\ ~behind => /\ <<view.rev, view.name, view.assigned, view.places>> =
                                         <<db.rev, db.name, db.assigned, db.places>>
                                    /\ SameCables(view.conns, db.conns)
    BY DEF BrowserMatches
  <2>1. Agree(engine, db) /\ engine.rev = db.rev /\ RowsOK(db)
    BY DEF AllTyped, OneProject, Agree
  <2>2. /\ InStep(engine, db) /\ Follows(worker, engine)
        /\ ~behind => OnScreen(view, db)
    BY DEF BrowserInStep
  <2>3. /\ engine.name = db.name /\ engine.assigned = db.assigned /\ engine.placed = Placed(db.places)
        /\ Mirrors(engine.conns, db.conns)
    BY <2>1, MatchesMirrors DEF Agree
  <2>4. /\ worker.rev = db.rev /\ worker.name = db.name /\ worker.assigned = db.assigned
        /\ worker.placed = Placed(db.places) /\ worker.next = db.seq + 1
        /\ Mirrors(worker.conns, engine.conns)
    BY <2>1, <2>2, <2>3 DEF Follows, InStep
  <2>5. worker.conns \in SUBSET Cable /\ view.conns \in SUBSET Cable
    BY DEF AllTyped, BrowserOK, Loaded, Engines, Views
  <2>6. SameCables(worker.conns, db.conns)
    <3>1. Mirrors(worker.conns, db.conns)
      BY <2>3, <2>4, MirrorsMirrored
    <3> QED BY <2>1, <2>5, <3>1, MirrorsAreSame
  <2>7. ASSUME ~behind
        PROVE  /\ view.rev = db.rev /\ view.name = db.name /\ view.assigned = db.assigned /\ view.places = db.places
               /\ SameCables(view.conns, db.conns)
    <3>1. OnScreen(view, db)
      BY <2>2, <2>7
    <3> QED BY <2>1, <2>5, <3>1, MirrorsAreSame DEF OnScreen, Shows
  <2> QED BY <2>4, <2>6, <2>7
<1> QED BY <1>1, <1>2, AllTypedInit, AllTypedNext, PlacesShownNext, InStepInit, InStepNext, PTL DEF Spec

=============================================================================
