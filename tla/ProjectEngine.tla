--------------------------- MODULE ProjectEngine ---------------------------
(***************************************************************************)
(* The commands of the Rust engine (domain-core, topology) and the patches *)
(* they answer with.  One committed command reaches four representations   *)
(* of the project: the engine handle of the server, the tables of the      *)
(* SQLite store (applyProjectPatch of sqlite-store.ts), the project a      *)
(* browser shows (applyProjectPatch of project-patches.ts) and the engine  *)
(* in the browser's worker, which runs the command itself or, for another  *)
(* browser's command, one rebuilt from the patch                           *)
(* (operationForCommittedPatch).                                           *)
(*                                                                         *)
(* A command is one step here; EngineSync has the interleavings.  The      *)
(* inventory is fixed: its changes do not go through the engine.  The name *)
(* changes by the engine's command only: the projects page renames a       *)
(* project without it and without a new revision, so a kept handle and a   *)
(* worker then have the older name until they are made again.  A label, a  *)
(* list of bends and a coordinate are numbers, 0 for none.                 *)
(***************************************************************************)
EXTENDS Integers, Sequences, FiniteSets, SequencesExt, FiniteSetsExt

CONSTANTS ItemType,   \* the inventory: item -> type
          Owner,      \* port -> item
          PortType,   \* port -> type
          Speed,      \* port -> advertised speed, 0 for none
          Face,       \* port -> the other face of a patch panel port
          FanOut,     \* items with allow_outlet_fan_out
          Bends,      \* lists of manual bends
          Labels, Positions,
          AssignmentIds, Slots,
          Routes,       \* bound: the routes a browser asks for
          Plugs,        \* bound: the pairs of ports it connects
          Movable,      \* bound: the items it moves
          Starts,       \* bound: the assignments of the project at the start
          MaxRevision,  \* u32::MAX
          MaxOthers     \* bound: connections made in other projects

Items == DOMAIN ItemType
Ports == DOMAIN Owner

HostTypes == {"server", "nas", "pcBuild"}
Components == {"nic", "ram", "powerSupply", "powerAdapter"}

Assignments ==
  [id : AssignmentIds, host : {i \in Items : ItemType[i] \in HostTypes},
   item : {i \in Items : ItemType[i] \in Components}, slot : Slots]

ASSUME InventoryAssumption ==
  /\ IsFiniteSet(Ports)
  /\ Owner \in [Ports -> Items]
  /\ Face \in [Ports -> Ports] /\ \A p \in Ports : Face[Face[p]] = p
  /\ Speed \in [Ports -> Nat]
  /\ FanOut \subseteq Items /\ Movable \subseteq Items
  /\ Plugs \subseteq Ports \X Ports
  /\ Starts \subseteq SUBSET Assignments
  /\ \A start \in Starts : \A a, b \in start : a.id = b.id \/ a.item = b.item => a = b
  /\ MaxRevision \in Nat \ {0} /\ MaxOthers \in Nat

VARIABLES engine,  \* the engine handle of the server
          db,      \* the rows of the project
          worker,  \* the engine of a browser
          view,    \* the project that browser shows
          behind,  \* its worker was rebuilt and its view was not
          taken,   \* connection ids in use in other projects
          others,  \* history: how many other projects have made
          issued   \* history: the ids this project's connections ever had

vars == <<engine, db, worker, view, behind, taken, others, issued>>

-----------------------------------------------------------------------------
(* Endpoints *)

Direct == {"server", "nas", "pcBuild", "switch", "patchPanel", "monitor",
           "ups", "powerStrip"}
Network == {"rj45", "sfp", "sfp-plus"}
Display == {"hdmi", "displayport", "mini-displayport"}

(* An EndpointRef: the host, and a port of the host or of a hosted item. *)
Refs == [item : Items, port : Ports]
Hosted(r) == Owner[r.port] # r.item
AssignedTo(t, r) ==
  \E a \in t.assigned : a.host = r.item /\ a.item = Owner[r.port]

Exposes(t, r) ==
  /\ PortType[r.port] # "barrel"
  /\ IF Hosted(r) THEN ItemType[r.item] \in HostTypes /\ AssignedTo(t, r)
     ELSE ItemType[r.item] \in Direct

(* power_endpoint, without the configurations of a NAS. *)
Power(r) ==
  LET host == ItemType[r.item]
      owner == ItemType[Owner[r.port]]
  IN IF PortType[r.port] = "ac-outlet" /\ owner \in {"ups", "powerStrip"}
       THEN "output"
     ELSE IF PortType[r.port] = "ac-input"
             /\ IF Hosted(r)
                  THEN <<host, owner>> \in {<<"pcBuild", "powerSupply">>,
                                            <<"server", "powerAdapter">>}
                  ELSE owner \in {"monitor", "powerStrip"}
       THEN "input"
     ELSE "none"

Cables(t, r) == {c \in t.conns : r \in {c.from, c.to}}
MayFanOut(r) == Power(r) = "output" /\ Owner[r.port] \in FanOut
Available(t, r) == Cables(t, r) = {} \/ MayFanOut(r)

PortsCompatible(r, s) ==
  LET types == {PortType[r.port], PortType[s.port]} IN
  Cardinality(types) = 1 \/ types \subseteq Display

ValidateConnection(t, r, s) ==
  /\ r # s
  /\ Exposes(t, r) /\ Exposes(t, s)
  /\ r.item # s.item
  /\ IF Power(r) = "none" /\ Power(s) = "none" THEN PortsCompatible(r, s)
     ELSE {Power(r), Power(s)} = {"input", "output"}
  /\ Available(t, r) /\ Available(t, s)

(* classify_connection *)
Classify(t, c) ==
  LET types == {PortType[c.from.port], PortType[c.to.port]} IN
  IF ~Exposes(t, c.from) \/ ~Exposes(t, c.to) THEN "other"
  ELSE IF "none" \notin {Power(c.from), Power(c.to)} THEN "power"
  ELSE IF Cardinality(types) = 1 /\ types \subseteq Network THEN "network"
  ELSE IF types \subseteq Display THEN "display"
  ELSE "other"

(* connection_derived_states: a network runs through cables and the two    *)
(* faces of patch panel ports, and has the lowest speed advertised on it.  *)
Neighbours(t, r) ==
  {c.to : c \in {d \in t.conns : d.from = r /\ Classify(t, d) = "network"}}
  \cup {c.from : c \in {d \in t.conns : d.to = r /\ Classify(t, d) = "network"}}
  \cup IF ItemType[r.item] = "patchPanel" /\ PortType[r.port] \in Network
         THEN {[r EXCEPT !.port = Face[@]]} ELSE {}

Segment(t, r) ==
  LET reach[n \in 0..Cardinality(Ports)] ==
        IF n = 0 THEN {r}
        ELSE LET seen == reach[n - 1]
             IN seen \cup UNION {Neighbours(t, s) : s \in seen}
  IN reach[Cardinality(Ports)]

Advertises(t, r) ==
  /\ Exposes(t, r)
  /\ ItemType[r.item] \in HostTypes \cup {"switch"}
  /\ Speed[r.port] # 0

Negotiated(t, c) ==
  LET speeds == {Speed[r.port] : r \in {s \in Segment(t, c.from) : Advertises(t, s)}}
  IN IF Classify(t, c) = "network" /\ speeds # {} THEN Min(speeds) ELSE 0

NormalizeDerived(t) ==
  [t EXCEPT !.conns = {[c EXCEPT !.type = Classify(t, c),
                                 !.speed = Negotiated(t, c)] : c \in @}]

(* TopologyIndex::build succeeds (TopologySnapshot::validate). *)
BuildsUnchecked(t) == TRUE

Builds(t) ==
  /\ \A a, b \in t.assigned : a.id = b.id \/ a.item = b.item => a = b
  /\ \A a \in t.assigned : ItemType[a.host] \in HostTypes
  /\ \A c, d \in t.conns : c.id = d.id => c = d
  /\ \A c \in t.conns : \A r \in {c.from, c.to} :
       IF Hosted(r) THEN AssignedTo(t, r) ELSE ItemType[r.item] \in Direct

-----------------------------------------------------------------------------
(* Commands and patches *)

Sides == {"left", "right", "top", "bottom"}
NoRoute == [src |-> "null", tgt |-> "null", bends |-> 0, avoid |-> FALSE]
EmptyRoute == [src |-> "none", tgt |-> "none", bends |-> 0, avoid |-> FALSE]
OrEmpty(route) == IF route = NoRoute THEN EmptyRoute ELSE route
NoAssignment == [id |-> 0]

RouteValues ==
  [src : Sides \cup {"none", "null"}, tgt : Sides \cup {"none", "null"},
   bends : Bends \cup {0}, avoid : BOOLEAN]

ASSUME ValueAssumption ==
  /\ Routes \subseteq RouteValues
  /\ AssignmentIds \subseteq Nat \ {0} /\ 0 \notin Positions

(* The members of a set in the order of their ids. *)
InIdOrder(S) ==
  CHOOSE s \in [1..Cardinality(S) -> S] : \A i, j \in DOMAIN s : i < j => s[i].id < s[j].id

(* A command gives the set of its replies: one, or none when it is refused.*)
(* commit_topology: t is e with the changes of the command.                *)
CommitTopology(e, t, forward, inverse) ==
  IF Builds(t)
    THEN {[engine |-> [t EXCEPT !.rev = e.rev + 1], forward |-> forward,
           inverse |-> inverse]}
    ELSE {}

Only(e, id) == CHOOSE c \in e.conns : c.id = id
Has(e, id) == \E c \in e.conns : c.id = id
WithConnection(e, id, c) ==
  [e EXCEPT !.conns = {IF d.id = id THEN c ELSE d : d \in @}]

(* connection_derived_changes, as the part of a batch that sets what a     *)
(* connection of before has in after.                                      *)
DerivedPatchOmitted(before, after) == <<>>

DerivedPatch(before, after) ==
  LET changed == {c \in after.conns :
                    \E d \in before.conns : /\ d.id = c.id
                                            /\ <<d.type, d.speed>> # <<c.type, c.speed>>}
  IN IF changed = {} THEN <<>>
     ELSE <<[kind |-> "derived",
             states |-> {[id |-> c.id, type |-> c.type, speed |-> c.speed] :
                         c \in changed}]>>

(* The id the engine keeps for the next connection is 0 for none. *)
ConnectionIdReused(e) == Max({1} \cup {c.id + 1 : c \in e.conns})

ConnectionId(e) == Max({1, e.next} \cup {c.id + 1 : c \in e.conns})

NewConnection(e, op) ==
  LET swap == Power(op.from) = "input" IN
  [id |-> ConnectionId(e), type |-> "other", speed |-> 0, label |-> 0, route |-> NoRoute,
   from |-> IF swap THEN op.to ELSE op.from, to |-> IF swap THEN op.from ELSE op.to]

CreateConnection(e, op) ==
  UNION {CommitTopology(e, t,
           <<[kind |-> "add", conn |-> Only(t, t.next - 1)]>> \o DerivedPatch(e, t),
           DerivedPatch(t, e) \o <<[kind |-> "remove", conn |-> Only(t, t.next - 1)]>>) :
         t \in {NormalizeDerived([e EXCEPT !.conns = @ \cup {c}, !.next = c.id + 1]) :
                c \in IF ValidateConnection(e, op.from, op.to)
                        THEN {NewConnection(e, op)} ELSE {}}}

RemoveConnectionForgetting(e, op) ==
  UNION {CommitTopology(e, t,
           <<[kind |-> "remove", conn |-> Only(e, op.id)]>> \o DerivedPatch(e, t),
           <<[kind |-> "add", conn |-> Only(e, op.id)]>>) :
         t \in {NormalizeDerived([e EXCEPT !.conns = @ \ {c}]) :
                c \in {d \in e.conns : d.id = op.id}}}

RemoveConnection(e, op) ==
  UNION {CommitTopology(e, t,
           <<[kind |-> "remove", conn |-> Only(e, op.id)]>> \o DerivedPatch(e, t),
           DerivedPatch(t, e) \o <<[kind |-> "add", conn |-> Only(e, op.id)]>>) :
         t \in {NormalizeDerived([e EXCEPT !.conns = @ \ {c}]) :
                c \in {d \in e.conns : d.id = op.id}}}

UpdateConnectionLabel(e, op) ==
  UNION {CommitTopology(e, WithConnection(e, op.id, [c EXCEPT !.label = op.label]),
           <<[kind |-> "label", id |-> op.id, label |-> op.label]>>,
           <<[kind |-> "label", id |-> op.id, label |-> c.label]>>) :
         c \in {d \in e.conns : d.id = op.id}}

RoutePatch(id, route) == [kind |-> "route", id |-> id, route |-> route]

UpdateConnectionRoute(e, op) ==
  UNION {CommitTopology(e, WithConnection(e, op.id, [c EXCEPT !.route = op.route]),
           <<RoutePatch(op.id, op.route)>>, <<RoutePatch(op.id, c.route)>>) :
         c \in {d \in e.conns : d.id = op.id}}

(* The end of the commands on several routes.  new[c] is the new route of  *)
(* connection c; the unchanged ones are left out of the batch.             *)
RouteBatch(e, new) ==
  UNION {CommitTopology(e, [e EXCEPT !.conns = {[c EXCEPT !.route = new[c]] : c \in @}],
           [i \in DOMAIN order |-> RoutePatch(order[i].id, new[order[i]])],
           Reverse([i \in DOMAIN order |-> RoutePatch(order[i].id, order[i].route)])) :
         order \in {InIdOrder({c \in e.conns : new[c] # c.route})} \ {<<>>}}

Ids(e) == {c.id : c \in e.conns}

ResolveConnectionRouteSides(e, op) ==
  LET new == [c \in e.conns |->
        IF c.id \notin op.ids THEN c.route
        ELSE [OrEmpty(c.route) EXCEPT !.src = IF @ = "none" THEN op.src ELSE @,
                                      !.tgt = IF @ = "none" THEN op.tgt ELSE @]]
  IN IF op.ids \subseteq Ids(e) THEN RouteBatch(e, new) ELSE {}

CanonicalizeConnectionRoutes(e, op) ==
  LET new == [c \in e.conns |->
        IF \E ch \in op.changes : ch.id = c.id
          THEN [OrEmpty(c.route) EXCEPT !.bends =
                 (CHOOSE ch \in op.changes : ch.id = c.id).bends]
          ELSE c.route]
  IN IF \A ch \in op.changes :
          \E c \in e.conns : c.id = ch.id /\ c.route.bends = ch.expected
       THEN RouteBatch(e, new) ELSE {}

ResetAllConnectionBends(e, op) ==
  LET new == [c \in e.conns |->
        IF c.route.bends = 0 THEN c.route
        ELSE IF [c.route EXCEPT !.bends = 0] = EmptyRoute THEN NoRoute
        ELSE [c.route EXCEPT !.bends = 0]]
  IN RouteBatch(e, new)

RestoreAutomaticConnectionRoutes(e, op) ==
  LET new == [c \in e.conns |->
        IF {c.route.src, c.route.tgt} \cap Sides = {} /\ c.route.bends = 0 THEN c.route
        ELSE IF c.route.avoid THEN [EmptyRoute EXCEPT !.avoid = TRUE]
        ELSE NoRoute]
  IN RouteBatch(e, new)

UpdateProjectMetadata(e, op) ==
  CommitTopology(e, [e EXCEPT !.name = op.name],
    <<[kind |-> "name", name |-> op.name]>>, <<[kind |-> "name", name |-> e.name]>>)

(* A change names the assignment it replaces, which must be the current    *)
(* one.                                                                    *)
AssignmentId(ch) == IF ch.prev = NoAssignment THEN ch.next.id ELSE ch.prev.id
CurrentAssignment(e, id) ==
  IF \E a \in e.assigned : a.id = id THEN CHOOSE a \in e.assigned : a.id = id
  ELSE NoAssignment

AssignmentPatch(old, new) ==
  [kind |-> "assignments", upsert |-> new \ {NoAssignment},
   remove |-> {a.id : a \in old} \ {a.id : a \in new \cup {NoAssignment}}]

UpdateAssignments(e, op) ==
  LET changes == {ch \in op.changes : ch.prev # ch.next}
      old == {ch.prev : ch \in changes}
      new == {ch.next : ch \in changes}
  IN IF /\ changes # {}
        /\ \A ch \in op.changes : CurrentAssignment(e, AssignmentId(ch)) = ch.prev
       THEN CommitTopology(e,
              [e EXCEPT !.assigned = (@ \ old) \cup (new \ {NoAssignment})],
              <<AssignmentPatch(old, new)>>, <<AssignmentPatch(new, old)>>)
       ELSE {}

(* The engine knows which items are placed and not where: the previous     *)
(* position of a change is what the browser says it was.                   *)
PlacementPatch(changes) ==
  [kind |-> "placements",
   upsert |-> {[item |-> ch.item, x |-> ch.next] : ch \in {c \in changes : c.next # 0}},
   remove |-> {ch.item : ch \in {c \in changes : c.next = 0}}]

UpdatePlacements(e, op) ==
  LET changes == {ch \in op.changes : ch.prev # ch.next}
      back == {[item |-> ch.item, prev |-> ch.next, next |-> ch.prev] : ch \in changes}
      patch == PlacementPatch(changes)
  IN IF changes = {} THEN {}
     ELSE CommitTopology(e,
            [e EXCEPT !.placed = (@ \cup {u.item : u \in patch.upsert}) \ patch.remove],
            <<patch>>, <<PlacementPatch(back)>>)

(* The nodes must be the placed items; planned is where they are snapped.  *)
SnapPlacementsToGrid(e, op) ==
  LET nodes == {i \in Items : op.nodes[i] # 0} IN
  IF nodes # e.placed THEN {}
  ELSE UpdatePlacements(e, [changes |->
         {[item |-> i, prev |-> op.nodes[i], next |-> op.planned] : i \in nodes}])

(* Engine::dispatch; no command advances the last revision. *)
Dispatch(e, op) ==
  IF e.rev = MaxRevision THEN {}
  ELSE CASE op.kind = "create"    -> CreateConnection(e, op)
         [] op.kind = "remove"    -> RemoveConnection(e, op)
         [] op.kind = "label"     -> UpdateConnectionLabel(e, op)
         [] op.kind = "route"     -> UpdateConnectionRoute(e, op)
         [] op.kind = "sides"     -> ResolveConnectionRouteSides(e, op)
         [] op.kind = "canonical" -> CanonicalizeConnectionRoutes(e, op)
         [] op.kind = "reset"     -> ResetAllConnectionBends(e, op)
         [] op.kind = "automatic" -> RestoreAutomaticConnectionRoutes(e, op)
         [] op.kind = "name"      -> UpdateProjectMetadata(e, op)
         [] op.kind = "assign"    -> UpdateAssignments(e, op)
         [] op.kind = "place"     -> UpdatePlacements(e, op)
         [] op.kind = "snap"      -> SnapPlacementsToGrid(e, op)

-----------------------------------------------------------------------------
(* The SQLite store: applyProjectPatch in one transaction.  The sequence   *)
(* of project_connections is shared by all projects, a port has at most    *)
(* one cable and the columns of the sides are NOT NULL.                    *)

(* insertConnection.  What a patch makes of the rows is a set again: none  *)
(* when a constraint fails.                                                *)
InsertConnectionAsGiven(d, c) ==
  IF c.id \in taken \cup Ids(d) THEN {}
  ELSE {[d EXCEPT !.conns = @ \cup {c}, !.seq = IF c.id > @ THEN c.id ELSE @]}

InsertConnection(d, c) ==
  LET side(s, default) == IF s \in Sides THEN s ELSE default
      row == [c EXCEPT !.route.src = side(@, "right"), !.route.tgt = side(@, "left")]
      ports == {c.from.port, c.to.port}
  IN IF \/ c.id \in taken \cup Ids(d)
        \/ \E other \in d.conns : {other.from.port, other.to.port} \cap ports # {}
       THEN {}
     ELSE {[d EXCEPT !.conns = @ \cup {row}, !.seq = IF c.id > @ THEN c.id ELSE @]}

(* upsertAssignment, one row after the other in the order of their ids     *)
(* (motherboards, which come first, are left out of the inventory).  The   *)
(* unique indexes on the component and on the slot hold after every row.   *)
UpsertAssignment(d, a) ==
  LET rest == {b \in d.assigned : b.id # a.id}
      clash(b) == b.item = a.item \/ (a.slot # 0 /\ b.host = a.host /\ b.slot = a.slot)
  IN IF \E b \in rest : clash(b) THEN {} ELSE {[d EXCEPT !.assigned = rest \cup {a}]}

PatchAssignments(d, p) ==
  IF ~(p.remove \subseteq {a.id : a \in d.assigned}) THEN {}
  ELSE FoldLeft(LAMBDA ds, a : UNION {UpsertAssignment(x, a) : x \in ds},
         {[d EXCEPT !.assigned = {a \in @ : a.id \notin p.remove}]},
         InIdOrder(p.upsert))

(* The position of every item after the patch, 0 for not placed. *)
PatchPlacements(places, p) ==
  [i \in Items |-> IF i \in p.remove THEN 0
                   ELSE IF \E u \in p.upsert : u.item = i
                     THEN (CHOOSE u \in p.upsert : u.item = i).x
                   ELSE places[i]]

PatchDerived(conns, p) ==
  {IF \E st \in p.states : st.id = c.id
     THEN LET st == CHOOSE x \in p.states : x.id = c.id
          IN [c EXCEPT !.type = st.type, !.speed = st.speed]
     ELSE c : c \in conns}

(* A route that names no side keeps the stored one. *)
PatchRowKeepingBends(d, p) ==
  IF p.kind = "label" THEN WithConnection(d, p.id, [Only(d, p.id) EXCEPT !.label = p.label])
  ELSE WithConnection(d, p.id, [Only(d, p.id) EXCEPT !.route.avoid = p.route.avoid])

PatchRow(d, p) ==
  LET c == Only(d, p.id)
      kept(new, old) == IF new \in Sides THEN new ELSE old
  IN IF p.kind = "label" THEN WithConnection(d, p.id, [c EXCEPT !.label = p.label])
     ELSE WithConnection(d, p.id, [c EXCEPT
            !.route = [p.route EXCEPT !.src = kept(@, c.route.src),
                                      !.tgt = kept(@, c.route.tgt)]])

StorePatch(d, p) ==
  CASE p.kind = "add"         -> InsertConnection(d, p.conn)
    [] p.kind = "remove"      -> {[d EXCEPT !.conns = @ \ {c}] :
                                  c \in {x \in d.conns : x.id = p.conn.id}}
    [] p.kind \in {"label", "route"} -> IF Has(d, p.id) THEN {PatchRow(d, p)} ELSE {}
    [] p.kind = "derived"     -> IF {st.id : st \in p.states} \subseteq Ids(d)
                                   THEN {[d EXCEPT !.conns = PatchDerived(@, p)]} ELSE {}
    [] p.kind = "placements"  -> {[d EXCEPT !.places = PatchPlacements(@, p)]}
    [] p.kind = "assignments" -> PatchAssignments(d, p)
    [] p.kind = "name"        -> {[d EXCEPT !.name = p.name]}

(* applyEnginePatch: all of the patch and the revision, or nothing. *)
ApplyEnginePatch(d, reply) ==
  {[x EXCEPT !.rev = reply.engine.rev] :
   x \in IF reply.engine.rev # d.rev + 1 THEN {}
         ELSE FoldLeft(LAMBDA ds, p : UNION {StorePatch(y, p) : y \in ds}, {d}, reply.forward)}

Placed(places) == {i \in Items : places[i] # 0}

(* createEngineSnapshot of the project loaded from the store. *)
EngineOf(d) ==
  [rev |-> d.rev, next |-> d.seq + 1, name |-> d.name, conns |-> d.conns,
   assigned |-> d.assigned, placed |-> Placed(d.places)]

(* What a browser gets when it loads the project. *)
ProjectOf(d) ==
  [rev |-> d.rev, name |-> d.name, conns |-> d.conns, assigned |-> d.assigned,
   places |-> d.places]

-----------------------------------------------------------------------------
(* The browser *)

(* runtimeRoute *)
RuntimeRouteOfBends(route) == IF route.bends = 0 THEN NoRoute ELSE route

RuntimeRoute(route) == IF OrEmpty(route) = EmptyRoute THEN NoRoute ELSE route

(* applyProjectPatch of project-patches.ts: what is not there is left out. *)
ViewPatch(v, p) ==
  CASE p.kind = "add"    -> [v EXCEPT !.conns = @ \cup
                               {[p.conn EXCEPT !.route = RuntimeRoute(@)]}]
    [] p.kind = "remove" -> [v EXCEPT !.conns = {c \in @ : c.id # p.conn.id}]
    [] p.kind = "label"  -> [v EXCEPT !.conns =
                               {IF c.id = p.id THEN [c EXCEPT !.label = p.label] ELSE c : c \in @}]
    [] p.kind = "route"  -> [v EXCEPT !.conns =
                               {IF c.id = p.id THEN [c EXCEPT !.route = RuntimeRoute(p.route)]
                                ELSE c : c \in @}]
    [] p.kind = "derived"    -> [v EXCEPT !.conns = PatchDerived(@, p)]
    [] p.kind = "placements" -> [v EXCEPT !.places = PatchPlacements(@, p)]
    [] p.kind = "assignments" ->
         [v EXCEPT !.assigned = {a \in @ : a.id \notin p.remove \cup {u.id : u \in p.upsert}}
                                  \cup p.upsert]
    [] p.kind = "name" -> [v EXCEPT !.name = p.name]

PatchView(v, patch, rev) == [FoldLeft(ViewPatch, v, patch) EXCEPT !.rev = rev]

(* operationForCommittedPatch.  A batch of routes is replayed when only    *)
(* bends changed; the first patch of another batch stands for all of it.   *)
NoOperation == [kind |-> "none"]

EqualExceptBends(a, b) ==
  IF NoRoute \in {a, b} THEN a = b ELSE [a EXCEPT !.bends = b.bends] = b

OperationFor(forward, inverse) ==
  LET p == Head(forward)
      q == Last(inverse)
      n == Len(forward)
      before(i) == inverse[n + 1 - i].route
      assignment(all, id) ==
        IF \E a \in all : a.id = id THEN CHOOSE a \in all : a.id = id ELSE NoAssignment
      position(all, i) ==
        IF \E u \in all : u.item = i THEN (CHOOSE u \in all : u.item = i).x ELSE 0
      ids == {a.id : a \in p.upsert \cup q.upsert} \cup p.remove \cup q.remove
      items == {u.item : u \in p.upsert \cup q.upsert} \cup p.remove \cup q.remove
  IN IF n > 1 /\ \A i \in 1..n : forward[i].kind = "route"
       THEN IF \A i \in 1..n : EqualExceptBends(before(i), forward[i].route)
              THEN [kind |-> "canonical",
                    changes |-> {[id |-> forward[i].id, expected |-> before(i).bends,
                                  bends |-> forward[i].route.bends] : i \in 1..n}]
              ELSE NoOperation
     ELSE CASE p.kind = "name"   -> p
            [] p.kind = "add"    -> [kind |-> "create", from |-> p.conn.from, to |-> p.conn.to]
            [] p.kind = "remove" -> [kind |-> "remove", id |-> p.conn.id]
            [] p.kind \in {"label", "route"} -> p
            [] p.kind = "assignments" ->
                 [kind |-> "assign",
                  changes |-> {[prev |-> assignment(q.upsert, id),
                                next |-> assignment(p.upsert, id)] : id \in ids}]
            [] p.kind = "placements" ->
                 [kind |-> "place",
                  changes |-> {[item |-> i, prev |-> position(q.upsert, i),
                                next |-> position(p.upsert, i)] : i \in items}]

-----------------------------------------------------------------------------
(* Steps *)

(* execute of command-service.mjs, answered with a patch: saved are the    *)
(* rows after it.                                                          *)
Commits(reply, saved) ==
  /\ engine' = reply.engine
  /\ db' = saved
  /\ issued' = issued \cup Ids(saved)
  /\ UNCHANGED <<taken, others>>

(* The engine refuses the command, or its patch cannot be saved: then the  *)
(* handle is loaded again.                                                 *)
Refuses(op) ==
  /\ Dispatch(engine, op) = {}
  /\ UNCHANGED <<engine, db, issued, taken, others>>

CannotSave(op) ==
  /\ \E reply \in Dispatch(engine, op) : ApplyEnginePatch(db, reply) = {}
  /\ engine' = EngineOf(db)
  /\ UNCHANGED <<db, issued, taken, others>>

(* mutate: the worker runs the command first, and is rebuilt when the      *)
(* server has not answered with the same revision.                         *)
OwnCommand(op) ==
  \E mine \in Dispatch(worker, op) :
    \/ \E reply \in Dispatch(engine, op) : \E saved \in ApplyEnginePatch(db, reply) :
         /\ Commits(reply, saved)
         /\ saved.rev = mine.engine.rev
         /\ worker' = mine.engine
         /\ view' = PatchView(view, reply.forward, saved.rev)
         /\ UNCHANGED behind
    \/ /\ Refuses(op) \/ CannotSave(op)
       /\ worker' = EngineOf(db)
       /\ UNCHANGED <<view, behind>>

(* The command of another browser and its event: a worker that cannot      *)
(* replay it is rebuilt, and only a replayed one changes what is shown.    *)
ReplayOf(reply) ==
  UNION {Dispatch(worker, op) : op \in {OperationFor(reply.forward, reply.inverse)} \ {NoOperation}}

ForeignCommand(op) ==
  \/ \E reply \in Dispatch(engine, op) : \E saved \in ApplyEnginePatch(db, reply) :
       /\ Commits(reply, saved)
       /\ \/ \E mine \in ReplayOf(reply) :
               /\ mine.engine.rev = saved.rev
               /\ worker' = mine.engine
               /\ view' = PatchView(view, reply.forward, saved.rev)
               /\ UNCHANGED behind
          \/ /\ \A mine \in ReplayOf(reply) : mine.engine.rev # saved.rev
             /\ worker' = EngineOf(saved)
             /\ behind' = TRUE
             /\ UNCHANGED view
  \/ CannotSave(op) /\ UNCHANGED <<worker, view, behind>>

(* The ports a browser offers: of an item, or of a component in a host. *)
Offered ==
  {r \in Refs : Hosted(r) => /\ ItemType[r.item] \in HostTypes
                             /\ ItemType[Owner[r.port]] \in Components}

ConnectionOperations ==
  {op \in [kind : {"create"}, from : Offered, to : Offered] :
     <<op.from.port, op.to.port>> \in Plugs}
  \cup [kind : {"remove"}, id : issued]
  \cup [kind : {"label"}, id : issued, label : Labels \cup {0}]

RouteOperations ==
  LET some == SUBSET issued \ {{}} IN
  [kind : {"route"}, id : issued, route : Routes]
  \cup [kind : {"sides"}, ids : some, src : {"top"}, tgt : {"left"}]
  \cup {[kind |-> "canonical",
         changes |-> {[id |-> id, expected |-> old, bends |-> new] : id \in ids}] :
        ids \in some, old \in Bends \cup {0}, new \in Bends \cup {0}}
  \cup [kind : {"reset", "automatic"}]

(* A component is put into a host, moved to another slot or taken out, or  *)
(* two of them change places (swapAssignedComponent).                      *)
AssignmentChange(id, next) ==
  [kind |-> "assign", changes |-> {[prev |-> CurrentAssignment(engine, id), next |-> next]}]

SwapOf(a, b) ==
  [kind |-> "assign",
   changes |-> {[prev |-> a, next |-> [a EXCEPT !.host = b.host, !.slot = b.slot]],
                [prev |-> b, next |-> [b EXCEPT !.host = a.host, !.slot = a.slot]]}]

Swaps == {SwapOf(a, b) : a, b \in engine.assigned}

AssignmentOperations ==
  {AssignmentChange(a.id, a) : a \in Assignments}
  \cup {AssignmentChange(id, NoAssignment) : id \in AssignmentIds}
  \cup Swaps

CanvasOperations ==
  {[kind |-> "place", changes |-> {[item |-> i, prev |-> db.places[i], next |-> x]}] :
     i \in Movable, x \in Positions \cup {0}}
  \cup [kind : {"snap"}, nodes : {view.places}, planned : Positions]
  \cup [kind : {"name"}, name : Labels]

Operations == ConnectionOperations \cup RouteOperations \cup AssignmentOperations
              \cup CanvasOperations

Mutate == \E op \in Operations : OwnCommand(op)
Follow == \E op \in Operations : ForeignCommand(op)

(* The server loads the handle again: a restart, a scoped request, or a    *)
(* change of the project that is not a command.                            *)
RebuildHandle == /\ engine' = EngineOf(db)
                 /\ UNCHANGED <<db, worker, view, behind, taken, others, issued>>

(* The browser loads the project. *)
Reload == /\ worker' = EngineOf(db)
          /\ view' = ProjectOf(db)
          /\ behind' = FALSE
          /\ UNCHANGED <<engine, db, taken, others, issued>>

(* Another project makes a connection, and keeps it or has it removed. *)
OtherProject == /\ others < MaxOthers
                /\ db' = [db EXCEPT !.seq = @ + 1]
                /\ taken' \in {taken, taken \cup {db.seq + 1}}
                /\ others' = others + 1
                /\ UNCHANGED <<engine, worker, view, behind, issued>>

Init ==
  /\ \E assigned \in Starts :
       db = [rev |-> 1, seq |-> 0, name |-> 0, conns |-> {}, assigned |-> assigned,
             places |-> [i \in Items |-> 0]]
  /\ engine = EngineOf(db) /\ worker = EngineOf(db) /\ view = ProjectOf(db)
  /\ behind = FALSE /\ taken = {} /\ others = 0 /\ issued = {}

Next ==
  \/ Mutate \/ Follow \/ RebuildHandle \/ Reload \/ OtherProject

Spec == Init /\ [][Next]_vars

-----------------------------------------------------------------------------
(* Properties *)

Cable == [id : Nat \ {0}, type : {"network", "display", "power", "other"},
          speed : Nat, label : Labels \cup {0}, from : Refs, to : Refs,
          route : RouteValues]

(* The types; the columns of a stored connection name both sides. *)
TypeOK ==
  /\ \A e \in {engine, worker} :
       /\ e.rev \in 1..MaxRevision /\ e.next \in Nat \ {0} /\ e.name \in Labels \cup {0}
       /\ e.conns \subseteq Cable /\ e.assigned \subseteq Assignments
       /\ e.placed \subseteq Items
  /\ \A p \in {db, view} :
       /\ p.rev \in 1..MaxRevision /\ p.name \in Labels \cup {0}
       /\ p.conns \subseteq Cable /\ p.assigned \subseteq Assignments
       /\ p.places \in [Items -> Positions \cup {0}]
  /\ db.seq \in Nat
  /\ \A c \in db.conns : {c.route.src, c.route.tgt} \subseteq Sides
  /\ behind \in BOOLEAN /\ others \in 0..MaxOthers /\ taken \subseteq 1..db.seq /\ issued \subseteq 1..db.seq

(* Every stored cable ends at two different hosts in ports that exist for  *)
(* the stored assignments, of types that go together, a power cable runs   *)
(* from an output to an input, and no port has two cables: removing or     *)
(* moving the component that has the port, or a race for it, never leaves  *)
(* a cable in the air (validate_connection, TopologySnapshot::validate).   *)
CablesSound ==
  LET t == EngineOf(db) IN
  \A c \in db.conns :
    /\ Exposes(t, c.from) /\ Exposes(t, c.to) /\ c.from.item # c.to.item
    /\ \/ <<Power(c.from), Power(c.to)>> = <<"output", "input">>
       \/ Power(c.from) = "none" /\ Power(c.to) = "none" /\ PortsCompatible(c.from, c.to)
    /\ \A d \in db.conns \ {c} : {c.from.port, c.to.port} \cap {d.from.port, d.to.port} = {}

(* The type and the speed a connection was stored with are those its       *)
(* network has now, whatever was plugged, unplugged or moved since: a      *)
(* batch patches every connection whose derived state a command changes    *)
(* (connection_derived_changes).                                           *)
DerivedCurrent == db.conns = NormalizeDerived(EngineOf(db)).conns

(* What two copies of a cable agree on, the sides of its route apart. *)
SameCable(c, d) ==
  /\ [c EXCEPT !.route = NoRoute] = [d EXCEPT !.route = NoRoute]
  /\ <<c.route.bends, c.route.avoid>> = <<d.route.bends, d.route.avoid>>

SameCables(conns, rows) ==
  /\ Cardinality(conns) = Cardinality(rows)
  /\ \A c \in conns : \E row \in rows : SameCable(c, row)

(* The patch the engine answers with says everything the command changed   *)
(* in it: the handle kept in memory is the project in the tables, after    *)
(* any commands, failed writes and reloads (execute, applyEnginePatch).    *)
(* A side the handle names is the stored one; where it names none the      *)
(* store has its default, or the side a cleared route had.                 *)
StoreMatchesEngine ==
  /\ <<engine.rev, engine.name, engine.assigned, engine.placed>> =
       <<db.rev, db.name, db.assigned, Placed(db.places)>>
  /\ SameCables(engine.conns, db.conns)
  /\ \A c \in engine.conns : LET row == Only(db, c.id).route IN
       /\ c.route.src \in {"none", "null", row.src}
       /\ c.route.tgt \in {"none", "null", row.tgt}

(* A browser that saw every event has the project of the server: in its    *)
(* worker, which replays commands guessed from patches, and on the screen, *)
(* which patches its own copy (mutate, applyCommittedResponse).  Excepted  *)
(* are the sides of routes, a view behind a rebuild and connection ids     *)
(* taken by another project.                                               *)
BrowserMatches ==
  others = 0 =>
    /\ <<worker.rev, worker.name, worker.assigned, worker.placed, worker.next>> =
         <<db.rev, db.name, db.assigned, Placed(db.places), db.seq + 1>>
    /\ SameCables(worker.conns, db.conns)
    /\ ~behind => /\ <<view.rev, view.name, view.assigned, view.places>> =
                       <<db.rev, db.name, db.assigned, db.places>>
                  /\ SameCables(view.conns, db.conns)

(* A new connection never gets an id that a connection of the project had  *)
(* before, which caches, links and undo still refer to: not after it was   *)
(* removed, a reload, or a write that failed.                              *)
IdsNeverReused == [][(Ids(db') \ Ids(db)) \cap issued = {}]_vars

(* The inverse of every patch an engine would answer with now takes the    *)
(* project back: the cables with their derived states and bends, the       *)
(* assignments, the positions and the name.  Undo and the replay of        *)
(* another browser's command read the state before a command from it.      *)
InverseRestores ==
  \A op \in Operations : \A reply \in Dispatch(engine, op) :
    LET there == PatchView(ProjectOf(db), reply.forward, db.rev)
        back == PatchView(there, reply.inverse, db.rev)
    IN /\ <<back.name, back.assigned, back.places>> = <<db.name, db.assigned, db.places>>
       /\ SameCables(back.conns, db.conns)

=============================================================================
