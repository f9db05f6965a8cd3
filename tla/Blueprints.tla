------------------------------ MODULE Blueprints ------------------------------
(***************************************************************************)
(* What an application and its blueprints declare, and what of it the      *)
(* application comes to have: Blueprint and `lazy' of sanic/blueprints.py, *)
(* Sanic.blueprint, the _apply_* operations, amend and _startup of         *)
(* sanic/app.py, and the names, prefixes and middleware of routes.         *)
(*                                                                         *)
(* A blueprint keeps futures, what was declared on it.  register() applies *)
(* those that the application's _future_registry does not know, and a      *)
(* blueprint that is registered is registered again by each declaration.   *)
(***************************************************************************)
EXTENDS Naturals, FiniteSets, Sequences, SequencesExt, Functions

CONSTANTS
    Apps, Bps,
    Items,        \* what may be declared: [kind, id, version]; version 0 is none
    Attributes,   \* of each blueprint that is made (not copied): [prefix, version]
    Paths,        \* set of sequences of groups, outermost first: how a blueprint is mounted
    Versions,     \* that a copy may be given
    MaxMounts     \* bound: mounts, after which app.blueprint is not called

NoName  == "none"
Kinds == {"route", "middleware", "exception", "listener", "signal"}
Item  == [kind : Kinds, id : STRING, version : Nat]
GroupType == [prefix : Seq(STRING), version : Nat, name : STRING]

ASSUME BlueprintsAssumption ==
    /\ Items \subseteq Item /\ MaxMounts \in Nat /\ Versions \subseteq Nat
    /\ Paths \subseteq Seq(GroupType)
    /\ \A b \in DOMAIN Attributes :
          b \in Bps /\ Attributes[b] \in [prefix : Seq(STRING), version : Nat]

VARIABLES
    made,        \* the blueprints there are: their prefix, version and copied_from
    futures,     \* _future_routes, _future_middleware, ...
    registered,  \* bp.apps
    app,         \* what each application has applied
    direct,      \* kinds whose decorator was once called with the function itself
    mounts,      \* history: the mounts of each blueprint, in each application
    late,        \* history: blueprints declared on after they were registered
    raised       \* history: blueprints whose registration raised RouteExists

bp_vars == <<made, futures, registered, app, direct, mounts, late, raised>>

RouteType == [bp : Bps, item : Item, uri : Seq(STRING), version : Nat, name : Seq(STRING)]

Fresh == [routes |-> {}, named |-> {}, times |-> [x \in Bps \X Items |-> 0], registry |-> {},
          phase |-> "declared"]

BlueprintsTypeOK ==
    /\ DOMAIN made \subseteq Bps
    /\ \A b \in DOMAIN made :
          made[b] \in [prefix : Seq(STRING), version : Nat, copied_from : Bps \cup {NoName}]
    /\ futures \in [Bps -> SUBSET Items] /\ registered \in [Bps -> SUBSET Apps]
    /\ direct \subseteq Kinds /\ late \cup raised \subseteq Bps
    /\ \A a \in Apps :
          /\ app[a].routes \subseteq RouteType
          /\ app[a].named \subseteq Seq(STRING) \X Items
          /\ app[a].times \in [Bps \X Items -> Nat]
          /\ app[a].phase \in {"declared", "started", "failed"}

BlueprintsInit ==
    /\ made = [b \in DOMAIN Attributes |->
                 [prefix |-> Attributes[b].prefix, version |-> Attributes[b].version, copied_from |-> NoName]]
    /\ futures = [b \in Bps |-> {}] /\ registered = [b \in Bps |-> {}]
    /\ app = [a \in Apps |-> Fresh] /\ direct = {}
    /\ mounts = [b \in Bps |-> <<>>] /\ late = {} /\ raised = {}

BlueprintsOff ==
    /\ made = <<>> /\ futures = [b \in Bps |-> {}] /\ registered = [b \in Bps |-> {}]
    /\ app = [a \in Apps |-> Fresh] /\ direct = {}
    /\ mounts = [b \in Bps |-> <<>>] /\ late = {} /\ raised = {}
-----------------------------------------------------------------------------
(* Where a blueprint's routes are mounted *)

First(x, y) == IF x # 0 THEN x ELSE y

NoOptions == [given |-> FALSE, prefix |-> <<>>, version |-> 0, name |-> NoName]

\* Sanic.blueprint for one item of a group: version is that of the item, of the group
\* or, from the outside, of an option; an option that is there is kept for an item
\* with a version of its own; the outermost name_prefix is the one that counts.
Merge(options, group, prefix, version) ==
    [given   |-> TRUE,
     prefix  |-> options.prefix \o group.prefix \o prefix,
     version |-> IF version = 0 THEN First(group.version, options.version) ELSE options.version,
     name    |-> IF options.name = NoName THEN group.name ELSE options.name]

\* as if a group nested in another forgot the prefix of the outer one
OptionsInner(b, path) ==
    IF path = <<>> THEN NoOptions ELSE Merge(NoOptions, Last(path), made[b].prefix, made[b].version)

\* the options a blueprint is registered with when it is reached through groups
Options(b, path) ==
    LET deeper(i) == IF i < Len(path) THEN [prefix |-> <<>>, version |-> path[i + 1].version] ELSE made[b]
        step(options, i) == Merge(options, path[i], deeper(i).prefix, deeper(i).version)
    IN FoldLeft(step, NoOptions, [i \in DOMAIN path |-> i])

\* register(): the FutureRoute that is applied for one of the blueprint's
RouteOf(b, own, options, item) ==
    [bp      |-> b, item |-> item,
     uri     |-> (IF options.given THEN options.prefix ELSE own.prefix) \o <<item.id>>,
     version |-> First(item.version, First(options.version, own.version)),
     name    |-> (IF options.name = NoName THEN <<>> ELSE <<options.name>>) \o <<b, item.id>>]
-----------------------------------------------------------------------------
(* Blueprint.register *)

Of(kinds, fs) == {f \in fs : f.kind \in kinds}

\* register_futures
Remember(b, fs, routes) == {<<b, r>> : r \in routes} \cup {<<b, f>> : f \in Of(Kinds \ {"route"}, fs)}

\* route_names, of the routes that are applied now
RouteNames(routes) == {r.name : r \in routes}

\* What may have become of the applications, and whether it raised.  A route that exists
\* raises RouteExists, which leaves those that came before it.  What is applied is
\* remembered for every application the blueprint is registered in.
Register(o, a, b, own, options, fs) ==
    LET s      == o.app[a]
        apps   == o.registered \cup {a}
        routes == {r \in {RouteOf(b, own, options, f) : f \in Of({"route"}, fs)} :
                     <<b, r>> \notin s.registry}
        exists == {r \in routes : \E q \in s.routes : q.uri = r.uri /\ q.version = r.version}
        new(kinds) == {f \in Of(kinds, fs) : <<b, f>> \notin s.registry}
        applied == [s EXCEPT
            !.routes = @ \cup routes,
            !.named  = @ \cup RouteNames(routes) \X new({"middleware", "exception"}),
            !.times  = [x \in DOMAIN @ |->
                          @[x] + IF x[1] = b /\ x[2] \in new({"listener", "signal"}) THEN 1 ELSE 0]]
        remembered(c, t) ==
            IF c \in apps THEN [t EXCEPT !.registry = @ \cup Remember(b, fs, routes)] ELSE t
    IN IF exists # {}
         THEN {[app |-> [o.app EXCEPT ![a].routes = @ \cup some],
                registered |-> apps, raised |-> TRUE] : some \in SUBSET (routes \ exists)}
         ELSE {[app |-> [c \in Apps |-> remembered(c, IF c = a THEN applied ELSE o.app[c])],
                registered |-> apps, raised |-> FALSE]}

\* `for app in apps', a set: an exception ends the loop.  Without apps, nothing.
RegisterIn(apps, b, own, options, fs) ==
    \E order \in SetToSeqs(apps) :
      LET next(outcomes, a) ==
              UNION {IF o.raised THEN {o} ELSE Register(o, a, b, own, options, fs) : o \in outcomes}
      IN \E o \in FoldLeft(next, {[app |-> app, registered |-> registered[b], raised |-> FALSE]}, order) :
            /\ app' = o.app
            /\ registered' = [registered EXCEPT ![b] = o.registered]
            /\ raised' = IF o.raised THEN raised \cup {b} ELSE raised
-----------------------------------------------------------------------------
(* Operations *)

\* `lazy': the future is added, and a blueprint that is registered registered again.  A
\* decorator that was once called with the function itself registers first ever after
\* when it is used as a decorator.
Declare(b, item, function) ==
    /\ b \in DOMAIN made /\ item \notin futures[b]
    /\ function => item.kind \in {"middleware", "listener"}
    /\ direct' = IF function THEN direct \cup {item.kind} ELSE direct
    /\ futures' = [futures EXCEPT ![b] = @ \cup {item}]
    /\ LET missed == item.kind \in direct /\ ~function
       IN RegisterIn(registered[b], b, made[b], NoOptions, IF missed THEN futures[b] ELSE futures'[b])
    /\ late' = IF registered[b] = {} THEN late ELSE late \cup {b}
    /\ UNCHANGED <<made, mounts>>

\* app.blueprint, of the blueprint or of the outermost of the groups that it is in
Mount(a, b, path) ==
    /\ b \in DOMAIN made /\ FoldFunction(LAMBDA m, n : Len(m) + n, 0, mounts) < MaxMounts
    /\ RegisterIn({a}, b, made[b], Options(b, path), futures[b])
    /\ mounts' = [mounts EXCEPT ![b] = Append(@, [app |-> a, path |-> path])]
    /\ UNCHANGED <<made, futures, direct, late>>

\* copy(): with_registration, where the original is registered
Copy(b, c, version, with_registration) ==
    /\ b \in DOMAIN made /\ c \in Bps \ DOMAIN made
    /\ LET own  == [made[b] EXCEPT !.version = First(version, @), !.copied_from = b]
           apps == IF with_registration THEN registered[b] ELSE {}
       IN /\ made' = [x \in DOMAIN made \cup {c} |-> IF x = c THEN own ELSE made[x]]
          /\ RegisterIn(apps, c, own, NoOptions, futures[b])
          /\ mounts' = [mounts EXCEPT ![c] =
                          [i \in 1..Cardinality(apps) |-> [app |-> SetToSeq(apps)[i], path |-> <<>>]]]
    /\ futures' = [futures EXCEPT ![c] = futures[b]]
    /\ UNCHANGED <<direct, late>>

\* _startup: what was applied is forgotten; without a route, or with two of one name, it
\* raises and the program ends
AppStartup(a) ==
    LET named == \A q, r \in app[a].routes : q.name = r.name => q = r
    IN /\ app[a].phase = "declared"
       /\ app' = [app EXCEPT ![a].registry = {},
                    ![a].phase = IF app[a].routes # {} /\ named THEN "started" ELSE "failed"]
       /\ UNCHANGED <<made, futures, registered, direct, mounts, late, raised>>

BlueprintsNext ==
    /\ made # <<>> /\ \A a \in Apps : app[a].phase # "failed"
    /\ \/ \E b \in Bps, item \in Items, function \in BOOLEAN : Declare(b, item, function)
       \/ \E a \in Apps, b \in Bps, path \in Paths : Mount(a, b, path)
       \/ \E b, c \in Bps, version \in Versions \cup {0}, with_registration \in BOOLEAN :
            Copy(b, c, version, with_registration)
       \/ \E a \in Apps : AppStartup(a)

BlueprintsSpec == BlueprintsInit /\ [][BlueprintsNext]_bp_vars
-----------------------------------------------------------------------------
(* Properties *)

\* However often a blueprint is mounted, declared on or copied, an application that has
\* not started yet calls each of its listeners and signal handlers once.  And "a Blueprint
\* may be registered before or after adding objects to it": everything is there, in a
\* blueprint of one application of which no route existed, and whose decorators are used
\* as such.  (FutureRegistry, lazy; guide/best-practices/blueprints.md)
AppliedOnce ==
    \A a \in Apps : app[a].phase = "declared" =>
        /\ \A x \in DOMAIN app[a].times : app[a].times[x] <= 1
        /\ \A b \in Bps \ raised : registered[b] = {a} /\ (direct = {} \/ b \notin late) =>
              /\ Of({"route"}, futures[b]) = {r.item : r \in {q \in app[a].routes : q.bp = b}}
              /\ \A f \in Of({"listener", "signal"}, futures[b]) : app[a].times[<<b, f>>] = 1

\* mounted once in the application, complete by then, and without an exception
Plainly(b, a) == b \notin late \cup raised /\ Len(SelectSeq(mounts[b], LAMBDA m : m.app = a)) = 1

\* Middleware of a blueprint is for its own routes only, and for all of them in every
\* application in which it was mounted once, complete before, with no route that existed.
\* (Blueprint.register: route_names)
MiddlewareOfItsRoutes ==
    \A a \in Apps : \A r \in app[a].routes :
        /\ \A pair \in app[a].named : pair[1] = r.name => pair[2] \in futures[r.bp]
        /\ Plainly(r.bp, a) =>
              \A f \in Of({"middleware", "exception"}, futures[r.bp]) : <<r.name, f>> \in app[a].named

\* A route is found under the prefixes of all groups its blueprint is in, outermost
\* first, and its version is the one named closest to it, at most one group being
\* involved.
\* ("a more pointed versioning specification", guide/advanced/versioning.md)
RoutesWhereNested ==
    \A a \in Apps : \A r \in app[a].routes :
      Plainly(r.bp, a) =>
        LET path == SelectSeq(mounts[r.bp], LAMBDA m : m.app = a)[1].path
        IN /\ r.uri = FlattenSeq([i \in DOMAIN path |-> path[i].prefix]) \o made[r.bp].prefix \o <<r.item.id>>
           /\ Len(path) <= 1 =>
                r.version = First(r.item.version, First(made[r.bp].version,
                              IF path = <<>> THEN 0 ELSE path[1].version))

\* What a blueprint declares takes effect where it was mounted, once, and nowhere else.
AsDeclared == AppliedOnce /\ MiddlewareOfItsRoutes /\ RoutesWhereNested
=============================================================================
