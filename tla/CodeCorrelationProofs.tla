----------------------- MODULE CodeCorrelationProofs ------------------------
(***************************************************************************)
(* Code correlation for any threads, directories, files and applications:  *)
(* what the lock of the resolver protects and that the requests use the    *)
(* resolver in no other way than its own specification allows, how often a *)
(* view is wrapped, and which names the spans of a request get.            *)
(***************************************************************************)
EXTENDS CodeCorrelation, FiniteSetTheorems, SequenceTheorems, WellFoundedInduction, TLAPS

Rebuilding == {"check", "collect", "assign"}

(* One thread at a time is inside of the lock.                             *)
HolderInv == \A t \in Threads : step[t] \in Rebuilding => lock = t

(* A thread knows what sys.path held when it took its hash, and holds it   *)
(* still, unless a directory was taken away since.                         *)
GrowInv ==
  \A t \in Threads :
    step[t] \in {"compare", "lock", "check"} /\ shrunk[t] = "no" => known[t] \subseteq path

(* Until it stores a hash the holder leaves hash and list as they were;    *)
(* the list that it is about to assign has what the hash stands for, if    *)
(* nothing was taken away.                                                 *)
RebuildInv ==
  \A t \in Threads :
    /\ step[t] = "check" /\ hash # NoHash /\ ~torn => hash \subseteq resolved
    /\ step[t] = "collect" => hash = known[t] /\ (shrunk[t] = "no" => hash \subseteq paths[t])
    /\ step[t] = "assign" /\ shrunk[t] = "no" => hash \subseteq paths[t]

ResolverInv == ResolverTypeOK /\ HolderInv /\ GrowInv /\ RebuildInv /\ NotBehind

LEMMA ResolverInitInv == ResolverInit => ResolverInv
<1> SUFFICES ASSUME ResolverInit PROVE ResolverInv
  OBVIOUS
<1> USE DEF ResolverInit
<1>1. ResolverTypeOK
  BY PathAssumption DEF ResolverTypeOK, Steps
<1>2. HolderInv /\ RebuildInv
  BY DEF HolderInv, RebuildInv, Rebuilding
<1>3. GrowInv /\ NotBehind
  BY DEF GrowInv, NotBehind
<1> QED
  BY <1>1, <1>2, <1>3 DEF ResolverInv

(* A hash is a set of directories, and so not NoHash.                      *)
LEMMA KnownIsHash ==
  ASSUME ResolverTypeOK, NEW t \in Threads
  PROVE  known[t] # NoHash
BY PathAssumption DEF ResolverTypeOK

LEMMA ResolverStepInv == ResolverInv /\ [ResolverNext]_resolverVars => ResolverInv'
<1> SUFFICES ASSUME ResolverInv, [ResolverNext]_resolverVars PROVE ResolverInv'
  OBVIOUS
<1> USE PathAssumption
    DEF ResolverInv, ResolverTypeOK, HolderInv, GrowInv, RebuildInv, NotBehind, Rebuilding, Steps, Go
<1>1. CASE UNCHANGED resolverVars
  BY <1>1 DEF resolverVars
<1>2. ASSUME NEW dirs \in SUBSET Dirs, Insert(dirs) \/ Remove(dirs) PROVE ResolverInv'
  <2>1. CASE Insert(dirs)
    BY <2>1 DEF Insert
  <2>2. CASE Remove(dirs)
    <3>1. \A t \in Threads : shrunk'[t] = Shrunk(t)
      BY <2>2 DEF Remove
    <3>2. \A t \in Threads : Shrunk(t) \in {"no", "hash", "list"} /\ (Shrunk(t) = "no" => shrunk[t] = "no")
      BY DEF Shrunk
    <3>3. \A t \in Threads : step[t] \in {"compare", "lock", "check"} => Shrunk(t) # "no"
      BY DEF Shrunk
    <3> QED
      BY <2>2, <3>1, <3>2, <3>3 DEF Remove
  <2> QED
    BY <1>2, <2>1, <2>2
<1>3. ASSUME NEW t \in Threads, Ask(t) PROVE ResolverInv'
  BY <1>3 DEF Ask
<1>4. ASSUME NEW t \in Threads, Compare(t) PROVE ResolverInv'
  BY <1>4 DEF Compare
<1>5. ASSUME NEW t \in Threads, Acquire(t) PROVE ResolverInv'
  BY <1>5 DEF Acquire
<1>6. ASSUME NEW t \in Threads, Same(t) PROVE ResolverInv'
  BY <1>6, KnownIsHash DEF Same
<1>7. ASSUME NEW t \in Threads, Store(t) PROVE ResolverInv'
  BY <1>7, KnownIsHash DEF Store
<1>8. ASSUME NEW t \in Threads, Collect(t) PROVE ResolverInv'
  BY <1>8 DEF Collect
<1>9. ASSUME NEW t \in Threads, Assign(t) PROVE ResolverInv'
  BY <1>9 DEF Assign
<1>10. ASSUME NEW t \in Threads, Read(t) PROVE ResolverInv'
  BY <1>10 DEF Read
<1>11. ASSUME NEW t \in Threads, Return(t) PROVE ResolverInv'
  BY <1>11 DEF Return
<1> QED
  BY <1>1, <1>2, <1>3, <1>4, <1>5, <1>6, <1>7, <1>8, <1>9, <1>10, <1>11 DEF ResolverNext, Inside

-----------------------------------------------------------------------------
(* The requests and the resolver.                                          *)

LEMMA StepResolves == app \in Apps /\ [Next]_vars => [ResolverNext]_resolverVars /\ (app \in Apps)'
<1> SUFFICES ASSUME app \in Apps, [Next]_vars PROVE [ResolverNext]_resolverVars /\ app' \in Apps
  OBVIOUS
<1>1. CASE UNCHANGED vars
  BY <1>1 DEF vars, appVars
<1>2. CASE Register
  BY <1>2 DEF Register, FlaskRule, FlaskEndpoint, ApiRoute, Route, ConsumerRule, PlainRule, Registers
<1>3. CASE Uninstrument \/ Instrument \/ Withdraw
  <2>1. CASE Uninstrument \/ Instrument
    BY <2>1 DEF Uninstrument, Instrument, Switch
  <2>2. CASE Withdraw
    BY <2>2, CorrelationAssumption DEF Withdraw, ResolverNext, appVars
  <2> QED
    BY <1>3, <2>1, <2>2
<1>4. ASSUME NEW t \in Threads, Arrive(t) \/ Work(t) PROVE [ResolverNext]_resolverVars /\ app' \in Apps
  <2>1. CASE Arrive(t) \/ StartInner(t) \/ Enter(t) \/ Dispatch(t) \/ Replace(t) \/ StartClient(t) \/ Leave(t)
    BY <2>1 DEF Arrive, StartInner, Enter, Dispatch, Replace, StartClient, Leave, NoLookup, appVars
  <2>2. CASE Run(t)
    BY <2>2, CorrelationAssumption DEF Run, ResolverNext, appVars
  <2>3. CASE HitUser(t) \/ FindStandard(t) \/ HitPackage(t) \/ FindSite(t) \/ StoreUser(t)
    BY <2>3 DEF HitUser, FindStandard, HitPackage, FindSite, StoreUser, appVars
  <2>4. CASE AskPaths(t)
    BY <2>4 DEF AskPaths, ResolverNext, appVars
  <2>5. CASE LookUp(t)
    BY <2>5 DEF LookUp, ResolverNext, appVars
  <2>6. CASE Inside(t) /\ UNCHANGED <<threadVars, cacheVars, appVars>>
    BY <2>6 DEF ResolverNext, appVars
  <2> QED
    BY <1>4, <2>1, <2>2, <2>3, <2>4, <2>5, <2>6 DEF Work, OnStart
<1> QED
  BY <1>1, <1>2, <1>3, <1>4 DEF Next

(* What the threads do with the variables of the resolver is what its own  *)
(* specification allows: nothing but _resolve_system_paths touches them.   *)
THEOREM Resolves == Spec => ResolverSpec
<1>1. Init => ResolverInit /\ app \in Apps
  BY DEF Init
<1> QED
  BY <1>1, StepResolves, PTL DEF Spec, ResolverSpec

(* The lock of packages_resolver.py is held by one thread at a time, and   *)
(* whoever does not hold it but finds it free may trust the hash, if no    *)
(* directory was taken out of sys.path while the list was made: the        *)
(* program may add and remove directories at any time.                     *)
THEOREM ResolverInductive == ResolverSpec => []ResolverInv
BY ResolverInitInv, ResolverStepInv, PTL DEF ResolverSpec

(* A hit on the fast path misses no directory while no rebuild goes on, in *)
(* every run of the requests, unless one was taken out of sys.path between *)
(* the hash and the list of the last rebuild.                              *)
THEOREM HitMissesNothing == Spec => []NotBehind
<1>1. ResolverInv => NotBehind
  BY DEF ResolverInv
<1> QED
  BY <1>1, Resolves, ResolverInductive, PTL

-----------------------------------------------------------------------------
(* Wrappers.  A wrapped view bears the mark, but for aio_pika, which never *)
(* decorates a view that it has decorated.                                 *)

ViewInv(v) ==
  /\ v.layers \in {0, 1}
  /\ v.marked \in BOOLEAN
  /\ v = [id |-> v.id, layers |-> v.layers, marked |-> v.marked]
  /\ v.layers = 1 => v.marked \/ app.framework = "aio_pika"

LayerInv == mine = [t \in Threads |-> mine[t]] /\ ViewInv(view) /\ \A t \in Threads : ViewInv(mine[t])

LEMMA RawView == ViewInv(Raw) /\ ViewInv(NoView) /\ Raw.layers = 0
BY DEF ViewInv, Raw, NoView

(* Decoration keeps it, whether the view has been decorated before or not. *)
LEMMA DecorateView ==
  ASSUME NEW v, ViewInv(v), app.framework # "aio_pika"
  PROVE  ViewInv(Decorate(v)) /\ ViewInv(Decorated(v))
<1>1. ViewInv(Decorate(v))
  <2>1. CASE v.marked
    BY <2>1 DEF Decorate
  <2>2. CASE ~v.marked /\ Decoratable
    <3>1. v.layers = 0
      BY <2>2 DEF ViewInv
    <3>2. Decorate(v) = [id |-> made + 1, layers |-> 0 + 1, marked |-> TRUE]
      BY <2>2, <3>1 DEF Decorate
    <3> QED
      BY <3>2 DEF ViewInv
  <2>3. CASE ~v.marked /\ ~Decoratable
    <3>1. Decorate(v) = [id |-> v.id, layers |-> v.layers, marked |-> TRUE]
      BY <2>3 DEF Decorate, ViewInv
    <3> QED
      BY <3>1 DEF ViewInv
  <2> QED
    BY <2>1, <2>2, <2>3
<1> QED
  BY <1>1 DEF Decorated

LEMMA ConsumerView ==
  ASSUME app.framework = "aio_pika"
  PROVE  ViewInv([id |-> Decorate(Raw).id, layers |-> Decorate(Raw).layers, marked |-> FALSE])
<1>1. Decorate(Raw).layers \in {0, 1}
  <2>1. CASE Decoratable
    BY <2>1 DEF Decorate, Raw
  <2>2. CASE ~Decoratable
    <3>1. Decorate(Raw) = [id |-> 0, layers |-> 0, marked |-> TRUE]
      <4>1. Decorate(Raw) = [Raw EXCEPT !.marked = TRUE]
        BY <2>2, Zenon DEF Decorate, Raw
      <4> QED
        BY <4>1 DEF Raw
    <3> QED
      BY <3>1
  <2> QED
    BY <2>1, <2>2
<1> QED
  BY <1>1 DEF ViewInv

LEMMA LayerStep == LayerInv /\ [Next]_vars => LayerInv'
<1> SUFFICES ASSUME LayerInv, [Next]_vars PROVE LayerInv'
  OBVIOUS
<1>1. CASE UNCHANGED <<app, view, mine>>
  BY <1>1 DEF LayerInv, ViewInv
<1>2. ASSUME NEW v, ViewInv(v), Registers(v) PROVE LayerInv'
  BY <1>2 DEF Registers, threadVars, LayerInv, ViewInv
<1>3. CASE Register
  <2>1. CASE FlaskRule
    <3>1. PICK v \in {view, Decorated(Raw)} : Registers(v)
      BY <2>1 DEF FlaskRule
    <3> QED
      BY <1>2, <2>1, <3>1, RawView, DecorateView DEF FlaskRule, LayerInv
  <2>2. CASE FlaskEndpoint \/ PlainRule
    BY <1>2, <2>2, RawView DEF FlaskEndpoint, PlainRule
  <2>3. CASE ApiRoute
    <3>1. PICK v \in {view, Raw} : Registers(Decorated(v))
      BY <2>3 DEF ApiRoute
    <3>2. ViewInv(Decorated(v))
      BY <2>3, RawView, DecorateView DEF ApiRoute, LayerInv
    <3> QED
      BY <1>2, <3>1, <3>2
  <2>4. CASE Route
    BY <1>2, <2>4, RawView, DecorateView DEF Route
  <2>5. CASE ConsumerRule
    BY <1>2, <2>5, ConsumerView DEF ConsumerRule
  <2> QED
    BY <1>3, <2>1, <2>2, <2>3, <2>4, <2>5 DEF Register
<1>4. ASSUME NEW t \in Threads, Dispatch(t) PROVE LayerInv'
  <2> DEFINE new == IF app.framework = "flask" THEN Decorated(view) ELSE view
  <2>1. ViewInv(new)
    BY DecorateView DEF LayerInv
  <2>2. mine' = [mine EXCEPT ![t] = new] /\ app' = app /\ view' = view
    BY <1>4 DEF Dispatch
  <2> HIDE DEF new
  <2>3. \A u \in Threads : mine'[u] = IF u = t THEN new ELSE mine[u]
    BY <2>2 DEF LayerInv
  <2>4. mine' = [u \in Threads |-> mine'[u]]
    BY <2>2 DEF LayerInv
  <2> QED
    BY <2>1, <2>2, <2>3, <2>4 DEF LayerInv, ViewInv
<1>5. ASSUME NEW t \in Threads, Replace(t) PROVE LayerInv'
  BY <1>5 DEF Replace, LayerInv, ViewInv
<1>6. CASE Uninstrument \/ Instrument \/ Withdraw
  BY <1>1, <1>6 DEF Uninstrument, Instrument, Switch, Withdraw, appVars, threadVars
<1>7. ASSUME NEW t \in Threads, Arrive(t) \/ Work(t) PROVE LayerInv'
  <2>1. CASE Arrive(t) \/ StartInner(t) \/ Enter(t) \/ Run(t) \/ StartClient(t) \/ Leave(t)
    BY <1>1, <2>1 DEF Arrive, StartInner, Enter, Run, StartClient, Leave, Starts, appVars
  <2>2. CASE OnStart(t)
    <3>1. UNCHANGED <<app, view>>
      BY <2>2 DEF OnStart, HitUser, FindStandard, HitPackage, FindSite, AskPaths, LookUp, StoreUser, appVars
    <3>2. UNCHANGED mine
      BY <2>2 DEF OnStart, HitUser, FindStandard, HitPackage, FindSite, AskPaths, LookUp, StoreUser, Judged, Finds, threadVars
    <3> QED
      BY <1>1, <3>1, <3>2
  <2> QED
    BY <1>4, <1>5, <1>7, <2>1, <2>2 DEF Work
<1> QED
  BY <1>1, <1>3, <1>6, <1>7 DEF Next, vars, appVars, threadVars

(* No view is ever wrapped twice, for any application, any number of rules *)
(* and threads, and however often instrumentation is removed and put back. *)
THEOREM WrappedOnce == Spec => []OneLayer
<1>1. Init => LayerInv
  BY RawView DEF Init, LayerInv, ViewInv, NoView
<1>2. LayerInv => OneLayer
  BY DEF LayerInv, ViewInv, OneLayer
<1> QED
  BY <1>1, <1>2, LayerStep, PTL DEF Spec

-----------------------------------------------------------------------------
(* Requests and the looks at their stacks.                                 *)

Phases == {"none", "entry", "inner", "dispatch", "replace", "run", "call", "client", "over"}

AppInv ==
  /\ app \in Apps /\ registered \in 0..Len(app.rules) /\ made \in Nat
  /\ switches \in 0..MaxSwitches /\ refused \in BOOLEAN /\ hooked \in BOOLEAN
  /\ switches = 0 => hooked

Top(a, p) == IF Len(a.stacks[p]) < MaxFrames THEN Len(a.stacks[p]) ELSE MaxFrames

(* A look is part of the start of a span, at one of the frames on top; the *)
(* resolver is called, and a verdict stands, in the middle of a look.      *)
LookInv ==
  /\ phase \in [Threads -> Phases] /\ at \in [Threads -> Nat]
  /\ found \in [Threads -> {"nothing", "user", "library"}]
  /\ DOMAIN code = Threads /\ \A t \in Threads : DOMAIN code[t] = Spans
  /\ \A t \in Threads :
       /\ phase[t] # "none" => registered = Len(app.rules)
       /\ at[t] > 0 => phase[t] \in Spans /\ at[t] <= Top(app, phase[t])
       /\ found[t] # "nothing" => at[t] > 0 /\ step[t] = "idle"
       /\ step[t] # "idle" => at[t] > 0

RequestInv == ResolverTypeOK /\ AppInv /\ LookInv

LEMMA FrameFacts ==
  ASSUME RequestInv
  PROVE  /\ \A p \in Spans : Top(app, p) \in 1..Len(app.stacks[p]) /\ Top(app, p) <= MaxFrames
         /\ \A t \in Threads : Last(t) = Top(app, phase[t])
         /\ \A t \in Threads : at[t] > 0 => at[t] \in DOMAIN Stack(t) /\ Frame(t).file \in DOMAIN Files
<1>1. \A p \in Spans : /\ Len(app.stacks[p]) \in Nat \ {0} /\ DOMAIN app.stacks[p] = 1..Len(app.stacks[p])
                       /\ \A n \in DOMAIN app.stacks[p] : app.stacks[p][n].file \in DOMAIN Files
  BY CorrelationAssumption DEF RequestInv, AppInv
<1>2. \A p \in Spans : Top(app, p) \in 1..Len(app.stacks[p]) /\ Top(app, p) <= MaxFrames
  BY <1>1, CorrelationAssumption DEF Top
<1>3. \A t \in Threads : Last(t) = Top(app, phase[t])
  BY DEF Last, Top, Stack
<1>4. ASSUME NEW t \in Threads, at[t] > 0 PROVE at[t] \in DOMAIN Stack(t) /\ Frame(t).file \in DOMAIN Files
  <2>1. phase[t] \in Spans /\ at[t] <= Top(app, phase[t]) /\ at[t] \in Nat
    BY <1>4 DEF RequestInv, LookInv
  <2>2. at[t] \in DOMAIN app.stacks[phase[t]]
    BY <1>1, <1>2, <1>4, <2>1
  <2> QED
    BY <1>1, <2>1, <2>2 DEF Stack, Frame
<1> QED
  BY <1>2, <1>3, <1>4

(* Each wrapper has a number of its own.                                   *)
IdInv == made \in Nat /\ view.id \in -1..made /\ \A t \in Threads : mine[t].id \in -1..made

LEMMA DecorateId ==
  ASSUME made \in Nat, NEW v, ViewInv(v), v.id \in -1..made
  PROVE  /\ Decorate(v).id \in -1..(made + 1) /\ Decorated(v).id \in -1..(made + 1)
         /\ Decorate(v).id # v.id => Decorate(v).id = made + 1
<1>1. Decorate(v).id \in {v.id, made + 1}
  <2>1. CASE v.marked
    BY <2>1 DEF Decorate
  <2>2. CASE ~v.marked /\ Decoratable
    <3>1. Decorate(v) = [id |-> made + 1, layers |-> v.layers + 1, marked |-> TRUE]
      BY <2>2 DEF Decorate
    <3> QED
      BY <3>1
  <2>3. CASE ~v.marked /\ ~Decoratable
    <3>1. Decorate(v) = [id |-> v.id, layers |-> v.layers, marked |-> TRUE]
      BY <2>3 DEF Decorate, ViewInv
    <3> QED
      BY <3>1
  <2> QED
    BY <2>1, <2>2, <2>3
<1>2. Decorated(v) = v \/ Decorated(v) = Decorate(v)
  BY DEF Decorated
<1> QED
  BY <1>1, <1>2

LEMMA RegisterFacts ==
  ASSUME LayerInv, IdInv, refused \in BOOLEAN, Register
  PROVE  /\ view'.id \in -1..(made + 1) /\ made' = IF view'.id > made THEN view'.id ELSE made
         /\ registered < Len(app.rules) /\ registered' = registered + 1 /\ refused' \in BOOLEAN
         /\ UNCHANGED <<app, hooked, switches, resolverVars, threadVars, cacheVars>>
<1>1. \A v : Registers(v) =>
        /\ view' = v /\ made' = (IF v.id > made THEN v.id ELSE made) /\ registered' = registered + 1
        /\ UNCHANGED <<app, hooked, switches, resolverVars, threadVars, cacheVars>>
  BY DEF Registers
<1>2. /\ view.id \in -1..(made + 1) /\ Raw.id \in -1..(made + 1) /\ Decorated(Raw).id \in -1..(made + 1)
      /\ Decorate(Raw).id \in -1..(made + 1) /\ Decorated(view).id \in -1..(made + 1)
  BY RawView, DecorateId DEF IdInv, LayerInv, Raw
<1>3. ASSUME NEW v, v.id \in -1..(made + 1), Registers(v), refused' \in BOOLEAN
      PROVE  /\ view'.id \in -1..(made + 1) /\ made' = IF view'.id > made THEN view'.id ELSE made
             /\ registered' = registered + 1 /\ refused' \in BOOLEAN
             /\ UNCHANGED <<app, hooked, switches, resolverVars, threadVars, cacheVars>>
  BY <1>1, <1>3
<1>4. registered < Len(app.rules)
  BY DEF Register
<1>5. CASE FlaskRule
  <2>1. PICK v \in {view, Decorated(Raw)} : Registers(v)
    BY <1>5 DEF FlaskRule
  <2>2. refused' \in BOOLEAN
    BY <1>5 DEF FlaskRule
  <2> QED
    BY <1>2, <1>3, <1>4, <2>1, <2>2
<1>6. CASE FlaskEndpoint \/ PlainRule
  BY <1>2, <1>3, <1>4, <1>6 DEF FlaskEndpoint, PlainRule
<1>7. CASE ApiRoute
  <2>1. PICK v \in {view, Raw} : Registers(Decorated(v))
    BY <1>7 DEF ApiRoute
  <2> QED
    BY <1>2, <1>3, <1>4, <1>7, <2>1 DEF ApiRoute
<1>8. CASE Route
  BY <1>2, <1>3, <1>4, <1>8 DEF Route
<1>9. CASE ConsumerRule
  <2> DEFINE v == [id |-> Decorate(Raw).id, layers |-> Decorate(Raw).layers, marked |-> FALSE]
  <2>1. Registers(v) /\ v.id = Decorate(Raw).id /\ UNCHANGED refused
    BY <1>9 DEF ConsumerRule
  <2> HIDE DEF v
  <2> QED
    BY <1>2, <1>3, <1>4, <2>1
<1> QED
  BY <1>5, <1>6, <1>7, <1>8, <1>9 DEF Register

(* What a request, and a look of it, may do to what the threads share.     *)
LEMMA WorkFacts ==
  ASSUME LayerInv, IdInv, NEW t \in Threads, Arrive(t) \/ Work(t)
  PROVE  /\ UNCHANGED <<app, registered, refused, hooked, switches>>
         /\ \/ UNCHANGED <<view, made, mine>>
            \/ Replace(t) /\ UNCHANGED <<made, mine>> /\ view' = mine[t]
            \/ /\ Dispatch(t) /\ UNCHANGED view
               /\ \E v : /\ mine' = [mine EXCEPT ![t] = v] /\ v.id \in -1..(made + 1)
                         /\ made' = (IF v.id > made THEN v.id ELSE made)
                         /\ v.id # view.id => v.id = made + 1
                         /\ phase' = [phase EXCEPT ![t] = IF v.id = view.id THEN "run" ELSE "replace"]
                         /\ v = IF app.framework = "flask" THEN Decorated(view) ELSE view
<1>1. CASE Arrive(t) \/ StartInner(t) \/ Enter(t) \/ Run(t) \/ StartClient(t) \/ Leave(t)
  BY <1>1 DEF Arrive, StartInner, Enter, Run, StartClient, Leave, Starts, appVars
<1>2. CASE OnStart(t)
  BY <1>2 DEF OnStart, HitUser, FindStandard, HitPackage, FindSite, AskPaths, LookUp, StoreUser, Judged, Finds, threadVars, appVars
<1>3. CASE Replace(t)
  BY <1>3 DEF Replace
<1>4. CASE Dispatch(t)
  <2> DEFINE v == IF app.framework = "flask" THEN Decorated(view) ELSE view
  <2>1. /\ mine' = [mine EXCEPT ![t] = v] /\ made' = (IF v.id > made THEN v.id ELSE made)
        /\ phase' = [phase EXCEPT ![t] = IF v.id = view.id THEN "run" ELSE "replace"]
        /\ UNCHANGED <<app, registered, view, refused, hooked, switches>>
    BY <1>4 DEF Dispatch, Enters
  <2>2. v.id \in -1..(made + 1) /\ (v.id # view.id => v.id = made + 1)
    <3>1. ViewInv(view) /\ view.id \in -1..made /\ made \in Nat
      BY DEF LayerInv, IdInv
    <3>2. /\ Decorate(view).id \in -1..(made + 1) /\ Decorated(view).id \in -1..(made + 1)
          /\ Decorate(view).id # view.id => Decorate(view).id = made + 1
      BY <3>1, DecorateId
    <3> QED
      BY <3>1, <3>2 DEF Decorated
  <2> HIDE DEF v
  <2>3. v = IF app.framework = "flask" THEN Decorated(view) ELSE view
    BY DEF v
  <2> QED
    BY <1>4, <2>1, <2>2, <2>3
<1> QED
  BY <1>1, <1>2, <1>3, <1>4 DEF Work

LEMMA AppStep == LayerInv /\ IdInv /\ AppInv /\ [Next]_vars => AppInv' /\ IdInv' /\ app' = app
<1> SUFFICES ASSUME LayerInv, IdInv, AppInv, [Next]_vars PROVE AppInv' /\ IdInv' /\ app' = app
  OBVIOUS
<1>1. CASE UNCHANGED <<appVars, mine>>
  BY <1>1 DEF appVars, AppInv, IdInv
<1>2. CASE Register
  <2>1. /\ view'.id \in -1..(made + 1) /\ made' = IF view'.id > made THEN view'.id ELSE made
        /\ registered < Len(app.rules) /\ registered' = registered + 1 /\ refused' \in BOOLEAN
        /\ UNCHANGED <<app, hooked, switches, mine>>
    BY <1>2, RegisterFacts DEF AppInv, threadVars
  <2>2. Len(app.rules) \in Nat
    BY CorrelationAssumption DEF AppInv
  <2>3. IdInv'
    BY <2>1 DEF IdInv
  <2> QED
    BY <2>1, <2>2, <2>3 DEF AppInv, IdInv
<1>3. CASE Uninstrument \/ Instrument
  <2>1. /\ switches' = switches + 1 /\ switches < MaxSwitches /\ hooked' \in BOOLEAN
        /\ UNCHANGED <<app, registered, view, made, refused, mine>>
    BY <1>3 DEF Uninstrument, Instrument, Switch, Withdraw, appVars, threadVars
  <2> QED
    BY <2>1, CorrelationAssumption DEF AppInv, IdInv
<1>4. ASSUME NEW t \in Threads, Arrive(t) \/ Work(t) PROVE AppInv' /\ IdInv' /\ app' = app
  <2>1. UNCHANGED <<app, registered, refused, hooked, switches>>
    BY <1>4, WorkFacts
  <2>2. IdInv'
    <3>1. DOMAIN mine = Threads
      BY DEF LayerInv
    <3>2. CASE UNCHANGED <<view, made, mine>>
      BY <3>2 DEF IdInv
    <3>3. CASE UNCHANGED <<made, mine>> /\ view' = mine[t]
      BY <3>3 DEF IdInv
    <3>4. ASSUME NEW v, UNCHANGED view, mine' = [mine EXCEPT ![t] = v], v.id \in -1..(made + 1),
                 made' = (IF v.id > made THEN v.id ELSE made)
          PROVE  IdInv'
      <4>1. \A u \in Threads : mine'[u] = IF u = t THEN v ELSE mine[u]
        BY <3>1, <3>4
      <4> QED
        BY <3>4, <4>1 DEF IdInv
    <3> QED
      BY <1>4, <3>2, <3>3, <3>4, WorkFacts
  <2> QED
    BY <2>1, <2>2 DEF AppInv, IdInv
<1>5. CASE Withdraw
  BY <1>1, <1>5 DEF Withdraw, appVars, threadVars
<1> QED
  BY <1>1, <1>2, <1>3, <1>4, <1>5 DEF Next, vars, threadVars

(* A phase begins, without a look at the stack.                            *)
LEMMA PhaseKeeps ==
  ASSUME RequestInv, NEW t \in Threads, NEW p \in Phases, at[t] = 0, phase' = [phase EXCEPT ![t] = p],
         UNCHANGED <<app, registered, at, found, step>>, p = "none" \/ phase[t] # "none",
         code' = code \/ \E span \in Spans : \E name : Names(t, span, name)
  PROVE  LookInv'
<1>1. DOMAIN code' = Threads /\ \A u \in Threads : DOMAIN code'[u] = Spans
  BY DEF RequestInv, LookInv, Names
<1>2. phase' \in [Threads -> Phases] /\ \A u \in Threads : phase'[u] = IF u = t THEN p ELSE phase[u]
  BY DEF RequestInv, LookInv
<1> QED
  BY <1>1, <1>2 DEF RequestInv, LookInv

(* A span starts.                                                          *)
LEMMA StartsKeeps ==
  ASSUME RequestInv, NEW t \in Threads, NEW which \in Spans, at[t] = 0, Starts(t, which),
         UNCHANGED <<app, registered, step>>, registered = Len(app.rules)
  PROVE  LookInv'
<1>1. DOMAIN code' = Threads /\ \A u \in Threads : DOMAIN code'[u] = Spans
  BY DEF RequestInv, LookInv, Starts
<1>2. phase' \in [Threads -> Phases] /\ \A u \in Threads : phase'[u] = IF u = t THEN which ELSE phase[u]
  BY DEF RequestInv, LookInv, Starts, Phases, Spans
<1>3. /\ at' \in [Threads -> Nat] /\ UNCHANGED found
      /\ \A u \in Threads : u # t => at'[u] = at[u]
      /\ at'[t] \in {0, 1}
  BY DEF RequestInv, LookInv, Starts
<1>4. Top(app, which) \in Int /\ Top(app, which) >= 1
  BY FrameFacts
<1>6. found[t] = "nothing" /\ step[t] = "idle"
  BY DEF RequestInv, LookInv
<1>7. ASSUME NEW u \in Threads
      PROVE  /\ phase'[u] # "none" => registered' = Len(app'.rules)
             /\ at'[u] > 0 => phase'[u] \in Spans /\ at'[u] <= Top(app', phase'[u])
             /\ found'[u] # "nothing" => at'[u] > 0 /\ step'[u] = "idle"
             /\ step'[u] # "idle" => at'[u] > 0
  <2>1. CASE u = t
    <3>1. at'[u] <= Top(app', phase'[u])
      BY <1>2, <1>3, <1>4, <2>1
    <3> QED
      BY <1>2, <1>3, <1>6, <2>1, <3>1
  <2>2. CASE u # t
    BY <1>2, <1>3, <2>2 DEF RequestInv, LookInv
  <2> QED
    BY <2>1, <2>2
<1> QED
  BY <1>1, <1>2, <1>3, <1>7 DEF RequestInv, LookInv

LEMMA JudgedKeeps ==
  ASSUME RequestInv, NEW t \in Threads, NEW user \in BOOLEAN, at[t] > 0, step[t] = "idle", Judged(t, user),
         UNCHANGED <<app, registered, step>>
  PROVE  LookInv'
<1>1. phase[t] \in Spans /\ at[t] <= Top(app, phase[t]) /\ at[t] \in Nat
  BY DEF RequestInv, LookInv
<1>2. DOMAIN code' = Threads /\ \A u \in Threads : DOMAIN code'[u] = Spans
  BY <1>1 DEF RequestInv, LookInv, Judged
<1>3. UNCHANGED phase /\ found' = [found EXCEPT ![t] = "nothing"]
  BY DEF Judged
<1>4. at' = [at EXCEPT ![t] = IF user \/ at[t] = Top(app, phase[t]) THEN 0 ELSE at[t] + 1]
  BY FrameFacts DEF Judged, RequestInv, LookInv
<1>5. Top(app, phase[t]) \in Nat
  BY <1>1, FrameFacts DEF RequestInv, LookInv
<1>6. /\ at' \in [Threads -> Nat] /\ at'[t] <= Top(app, phase[t]) /\ \A u \in Threads : u # t => at'[u] = at[u]
  BY <1>1, <1>4, <1>5 DEF RequestInv, LookInv
<1>7. /\ found' \in [Threads -> {"nothing", "user", "library"}] /\ found'[t] = "nothing"
      /\ \A u \in Threads : u # t => found'[u] = found[u]
  BY <1>3 DEF RequestInv, LookInv
<1> QED
  BY <1>1, <1>2, <1>3, <1>6, <1>7 DEF RequestInv, LookInv

LEMMA FindsKeeps ==
  ASSUME RequestInv, NEW t \in Threads, NEW user \in BOOLEAN, at[t] > 0, Finds(t, user),
         UNCHANGED <<app, registered>>, step'[t] = "idle", \A u \in Threads : u # t => step'[u] = step[u]
  PROVE  LookInv'
<1>1. UNCHANGED <<phase, at, code>> /\ found' \in [Threads -> {"nothing", "user", "library"}]
      /\ \A u \in Threads : u # t => found'[u] = found[u]
  BY DEF Finds, RequestInv, LookInv
<1> QED
  BY <1>1 DEF RequestInv, LookInv

(* The resolver is asked, and answers later.                               *)
LEMMA ResolverKeeps ==
  ASSUME RequestInv, NEW t \in Threads, at[t] > 0, found[t] = "nothing", UNCHANGED <<app, registered, threadVars>>,
         \A u \in Threads : u # t => step'[u] = step[u]
  PROVE  LookInv'
<1> QED
  BY DEF RequestInv, LookInv, threadVars

LEMMA LookStep == RequestInv /\ [Next]_vars => LookInv'
<1> SUFFICES ASSUME RequestInv, [Next]_vars PROVE LookInv'
  OBVIOUS
<1>1. CASE UNCHANGED <<app, registered, threadVars, step>>
  BY <1>1 DEF threadVars, RequestInv, LookInv
<1>2. CASE Register
  <2>1. registered < Len(app.rules) /\ registered \in Nat /\ Len(app.rules) \in Nat
    BY <1>2, CorrelationAssumption DEF Register, RequestInv, AppInv
  <2>2. \A t \in Threads : phase[t] = "none" /\ at[t] = 0 /\ found[t] = "nothing" /\ step[t] = "idle"
    BY <2>1 DEF RequestInv, LookInv, Spans
  <2>3. UNCHANGED <<app, threadVars, step>>
    BY <1>2 DEF Register, FlaskRule, FlaskEndpoint, ApiRoute, Route, ConsumerRule, PlainRule, Registers, resolverVars
  <2> QED
    BY <2>2, <2>3 DEF threadVars, RequestInv, LookInv
<1>3. CASE Uninstrument \/ Instrument \/ Withdraw
  BY <1>1, <1>3 DEF Uninstrument, Instrument, Switch, Withdraw, Remove, appVars, resolverVars
<1>4. ASSUME NEW t \in Threads, Arrive(t) \/ StartInner(t) \/ StartClient(t) PROVE LookInv'
  <2>1. at[t] = 0 /\ UNCHANGED <<app, registered, step>>
    BY <1>4 DEF Arrive, StartInner, StartClient, At, appVars, NoLookup, resolverVars
  <2>2. registered = Len(app.rules)
    BY <1>4 DEF Arrive, StartInner, StartClient, At, RequestInv, LookInv
  <2>3. PICK which \in Spans : Starts(t, which)
    BY <1>4 DEF Arrive, StartInner, StartClient, Spans
  <2> QED
    BY <2>1, <2>2, <2>3, StartsKeeps
<1>5. ASSUME NEW t \in Threads, Enter(t) \/ Dispatch(t) \/ Replace(t) \/ Run(t) \/ Leave(t) PROVE LookInv'
  <2>1. at[t] = 0 /\ phase[t] # "none" /\ UNCHANGED <<app, registered, at, found, step>>
    BY <1>5 DEF Enter, Dispatch, Replace, Run, Leave, At, Current, appVars, NoLookup, resolverVars, Insert
  <2>2. Current \in Spans
    BY DEF Current, Spans
  <2>3. code' = code \/ \E span \in Spans : \E name : Names(t, span, name)
    <3>1. CASE Enter(t)
      BY <3>1 DEF Enter, Spans
    <3>2. CASE Run(t) \/ Leave(t)
      BY <2>2, <3>2 DEF Run, Leave
    <3>3. CASE Dispatch(t) \/ Replace(t)
      BY <3>3 DEF Dispatch, Replace
    <3> QED
      BY <1>5, <3>1, <3>2, <3>3
  <2>4. PICK p \in Phases : phase' = [phase EXCEPT ![t] = p]
    <3>1. "dispatch" \in Phases /\ "replace" \in Phases /\ "run" \in Phases /\ "call" \in Phases /\ "over" \in Phases
      BY DEF Phases
    <3> QED
      BY <1>5, <3>1 DEF Enter, Dispatch, Replace, Run, Leave, Enters
  <2> QED
    BY <2>1, <2>3, <2>4, PhaseKeeps
<1>6. ASSUME NEW t \in Threads, HitUser(t) \/ StoreUser(t) PROVE LookInv'
  <2>1. at[t] > 0 /\ step[t] = "idle" /\ UNCHANGED <<app, registered, step>>
    BY <1>6 DEF HitUser, StoreUser, Looking, RequestInv, LookInv, appVars, resolverVars
  <2>2. PICK user : Judged(t, user)
    BY <1>6 DEF HitUser, StoreUser
  <2>3. \E bool \in BOOLEAN : Judged(t, bool)
    <3>1. CASE user
      <4>1. Judged(t, TRUE)
        BY <2>2, <3>1 DEF Judged
      <4> QED
        BY <4>1
    <3>2. CASE ~user
      <4>1. Judged(t, FALSE)
        BY <2>2, <3>2 DEF Judged
      <4> QED
        BY <4>1
    <3> QED
      BY <3>1, <3>2
  <2> QED
    BY <2>1, <2>3, JudgedKeeps
<1>7. ASSUME NEW t \in Threads, FindStandard(t) \/ HitPackage(t) \/ FindSite(t) \/ LookUp(t) PROVE LookInv'
  <2>1. UNCHANGED <<app, registered>>
    BY <1>7 DEF FindStandard, HitPackage, FindSite, LookUp, appVars
  <2>2. \E user \in BOOLEAN : Finds(t, user)
    <3>1. \A n : User(n) \in BOOLEAN
      BY DEF User
    <3> QED
      BY <1>7, <3>1 DEF FindStandard, HitPackage, FindSite, LookUp
  <2>3. at[t] > 0 /\ step'[t] = "idle" /\ \A u \in Threads : u # t => step'[u] = step[u]
    <3>1. CASE FindStandard(t) \/ HitPackage(t) \/ FindSite(t)
      BY <3>1 DEF FindStandard, HitPackage, FindSite, Unjudged, Looking, resolverVars
    <3>2. CASE LookUp(t)
      BY <3>2 DEF LookUp, Return, Go, RequestInv, LookInv, ResolverTypeOK
    <3> QED
      BY <1>7, <3>1, <3>2
  <2> QED
    BY <2>1, <2>2, <2>3, FindsKeeps
<1>8. ASSUME NEW t \in Threads, AskPaths(t) \/ (Inside(t) /\ UNCHANGED <<threadVars, cacheVars, appVars>>) PROVE LookInv'
  <2>1. UNCHANGED <<app, registered, threadVars>>
    BY <1>8 DEF AskPaths, appVars
  <2>2. at[t] > 0 /\ found[t] = "nothing"
    <3>1. CASE AskPaths(t)
      BY <3>1 DEF AskPaths, Unjudged, Looking
    <3>2. CASE Inside(t)
      <4>1. step[t] # "idle"
        BY <3>2 DEF Inside, Compare, Acquire, Same, Store, Collect, Assign, Read, Go
      <4> QED
        BY <4>1 DEF RequestInv, LookInv
    <3> QED
      BY <1>8, <3>1, <3>2
  <2>3. \A u \in Threads : u # t => step'[u] = step[u]
    BY <1>8 DEF AskPaths, Ask, Inside, Compare, Acquire, Same, Store, Collect, Assign, Read, Go, RequestInv, ResolverTypeOK
  <2> QED
    BY <2>1, <2>2, <2>3, ResolverKeeps
<1> QED
  <2>1. UNCHANGED vars => UNCHANGED <<app, registered, threadVars, step>>
    BY DEF vars, appVars, resolverVars
  <2> QED
    BY <1>1, <1>2, <1>3, <1>4, <1>5, <1>6, <1>7, <1>8, <2>1 DEF Next, Work, OnStart

-----------------------------------------------------------------------------
(* The caches.                                                             *)

LEMMA FirstFacts == ASSUME NEW S \in SUBSET Nat, S # {} PROVE First(S) \in S /\ \A n \in S : First(S) <= n
<1> DEFINE R == OpToRel(<, Nat)
<1>1. IsWellFoundedOn(R, Nat)
  BY NatLessThanWellFounded
<1>2. \A m \in Nat, n \in Nat : m < n => <<m, n>> \in R
  BY Zenon DEF OpToRel
<1> HIDE DEF R
<1>3. PICK n \in S : \A m \in S : ~(<<m, n>> \in R)
  BY <1>1, WFMin
<1>4. \A m \in S : ~(m < n)
  BY <1>2, <1>3, Zenon
<1>5. \A m \in S : n <= m
  BY <1>4
<1> QED
  BY <1>5 DEF First

(* A root belongs to one of the distributions, or to none.                 *)
LEMMA PackageFacts == \A root : PackageOf(root) \in 0..Len(Distributions)
<1> SUFFICES ASSUME NEW root PROVE PackageOf(root) \in 0..Len(Distributions)
  OBVIOUS
<1> DEFINE namesakes == { n \in Mapped : <<Distributions[n].name>> = root }
<1>1. DOMAIN Distributions \subseteq Nat /\ DOMAIN Distributions = 1..Len(Distributions)
  BY CorrelationAssumption
<1>2. \A r : Owners(r) \subseteq DOMAIN Distributions
  BY DEF Owners
<1>3. \A r : Owners(r) # {} => First(Owners(r)) \in DOMAIN Distributions
  BY <1>1, <1>2, FirstFacts
<1>4. Mapped \subseteq DOMAIN Distributions
  <2>1. ASSUME NEW r \in UNION { MappedRoots(n) : n \in DOMAIN Distributions } PROVE Owners(r) # {}
    BY DEF Owners
  <2> QED
    BY <1>3, <2>1 DEF Mapped
<1>5. namesakes # {} => First(namesakes) \in DOMAIN Distributions
  <2>1. namesakes \subseteq DOMAIN Distributions
    BY <1>4
  <2> QED
    BY <1>1, <2>1, FirstFacts
<1>6. PackageOf(root) = IF Owners(root) # {} THEN First(Owners(root)) ELSE IF namesakes # {} THEN First(namesakes) ELSE 0
  BY DEF PackageOf
<1> HIDE DEF namesakes
<1> QED
  BY <1>1, <1>3, <1>5, <1>6, CorrelationAssumption

Distinct(s) == \A m \in DOMAIN s, n \in DOMAIN s : s[m][1] = s[n][1] => m = n

LEMMA DistinctAppend ==
  ASSUME NEW S, NEW s \in Seq(S), Distinct(s), NEW e \in S, \A n \in DOMAIN s : s[n][1] # e[1]
  PROVE  /\ Append(s, e) \in Seq(S) /\ Len(Append(s, e)) = Len(s) + 1 /\ Distinct(Append(s, e))
         /\ \A n \in DOMAIN Append(s, e) : Append(s, e)[n] = e \/ \E m \in DOMAIN s : Append(s, e)[n] = s[m]
<1>1. Len(s) \in Nat /\ DOMAIN s = 1..Len(s)
  BY LenProperties
<1>2. /\ Append(s, e) \in Seq(S) /\ Len(Append(s, e)) = Len(s) + 1
      /\ \A n \in 1..Len(s) : Append(s, e)[n] = s[n]
      /\ Append(s, e)[Len(s) + 1] = e
  BY AppendProperties
<1>3. DOMAIN Append(s, e) = 1..(Len(s) + 1)
  BY <1>2, LenProperties
<1>4. Distinct(Append(s, e))
  <2> SUFFICES ASSUME NEW m \in 1..(Len(s) + 1), NEW n \in 1..(Len(s) + 1), Append(s, e)[m][1] = Append(s, e)[n][1]
               PROVE  m = n
    BY <1>3 DEF Distinct
  <2>1. CASE m \in 1..Len(s) /\ n \in 1..Len(s)
    BY <1>1, <1>2, <2>1 DEF Distinct
  <2>2. CASE m = Len(s) + 1 /\ n \in 1..Len(s)
    BY <1>1, <1>2, <2>2
  <2>3. CASE n = Len(s) + 1 /\ m \in 1..Len(s)
    BY <1>1, <1>2, <2>3
  <2> QED
    BY <1>1, <2>1, <2>2, <2>3
<1> QED
  BY <1>1, <1>2, <1>3, <1>4

LEMMA DistinctTail ==
  ASSUME NEW S, NEW s \in Seq(S), s # <<>>, Distinct(s)
  PROVE  /\ Tail(s) \in Seq(S) /\ Len(Tail(s)) = Len(s) - 1 /\ Distinct(Tail(s))
         /\ \A n \in DOMAIN Tail(s) : \E m \in DOMAIN s : Tail(s)[n] = s[m]
<1>1. Len(s) \in Nat \ {0} /\ DOMAIN s = 1..Len(s)
  BY LenProperties, EmptySeq
<1>2. /\ Tail(s) \in Seq(S) /\ Len(Tail(s)) = Len(s) - 1
      /\ \A n \in 1..Len(Tail(s)) : Tail(s)[n] = s[n + 1]
  BY HeadTailProperties
<1>3. DOMAIN Tail(s) = 1..(Len(s) - 1)
  BY <1>2, LenProperties
<1>4. \A n \in DOMAIN Tail(s) : n + 1 \in DOMAIN s /\ Tail(s)[n] = s[n + 1]
  BY <1>1, <1>2, <1>3
<1>5. Distinct(Tail(s))
  <2> SUFFICES ASSUME NEW m \in DOMAIN Tail(s), NEW n \in DOMAIN Tail(s), Tail(s)[m][1] = Tail(s)[n][1] PROVE m = n
    BY DEF Distinct
  <2>1. m + 1 = n + 1
    BY <1>4 DEF Distinct
  <2> QED
    BY <1>1, <1>3, <2>1
<1> QED
  BY <1>2, <1>4, <1>5

(* The sequence without its n-th element.                                  *)
LEMMA DistinctWithout ==
  ASSUME NEW S, NEW s \in Seq(S), Distinct(s), NEW n \in DOMAIN s
  PROVE  LET w == SubSeq(s, 1, n - 1) \o SubSeq(s, n + 1, Len(s))
         IN  /\ w \in Seq(S) /\ Len(w) = Len(s) - 1 /\ Distinct(w)
             /\ \A m \in DOMAIN w : \E k \in DOMAIN s \ {n} : w[m] = s[k]
<1> DEFINE a == SubSeq(s, 1, n - 1)
           b == SubSeq(s, n + 1, Len(s))
           w == a \o b
<1>1. Len(s) \in Nat /\ DOMAIN s = 1..Len(s) /\ \A m \in 1..Len(s) : s[m] \in S
  BY LenProperties, ElementOfSeq
<1>2. n \in 1..Len(s)
  BY <1>1
<1>3. a \in Seq(S) /\ Len(a) = n - 1 /\ \A m \in 1..(n - 1) : a[m] = s[m]
  <2>1. 1 \in Int /\ n - 1 \in Int /\ \A m \in 1..(n - 1) : s[m] \in S
    BY <1>1, <1>2
  <2>2. /\ a \in Seq(S) /\ Len(a) = IF 1 <= n - 1 THEN n - 1 - 1 + 1 ELSE 0
        /\ \A m \in 1..(n - 1 - 1 + 1) : a[m] = s[1 + m - 1]
    BY <2>1, SubSeqProperties
  <2> QED
    BY <1>2, <2>2
<1>4. b \in Seq(S) /\ Len(b) = Len(s) - n /\ \A m \in 1..(Len(s) - n) : b[m] = s[n + m]
  <2>1. n + 1 \in Int /\ Len(s) \in Int /\ \A m \in (n + 1)..Len(s) : s[m] \in S
    BY <1>1, <1>2
  <2>2. /\ b \in Seq(S) /\ Len(b) = IF n + 1 <= Len(s) THEN Len(s) - (n + 1) + 1 ELSE 0
        /\ \A m \in 1..(Len(s) - (n + 1) + 1) : b[m] = s[n + 1 + m - 1]
    BY <2>1, SubSeqProperties
  <2> QED
    BY SMTT(30), <1>1, <1>2, <2>2
<1> HIDE DEF a, b
<1>5. /\ w \in Seq(S) /\ Len(w) = Len(a) + Len(b)
      /\ \A m \in 1..(Len(a) + Len(b)) : w[m] = IF m <= Len(a) THEN a[m] ELSE b[m - Len(a)]
  BY <1>3, <1>4, ConcatProperties
<1>6. DOMAIN w = 1..(Len(s) - 1) /\ Len(w) = Len(s) - 1
  <2>1. Len(w) = Len(s) - 1
    BY <1>1, <1>2, <1>3, <1>4, <1>5
  <2>2. DOMAIN w = 1..Len(w)
    BY <1>5, LenProperties
  <2> QED
    BY <2>1, <2>2
<1> HIDE DEF w
<1>7. \A m \in DOMAIN w : w[m] = IF m < n THEN s[m] ELSE s[m + 1]
  <2> SUFFICES ASSUME NEW m \in 1..(Len(s) - 1) PROVE w[m] = IF m < n THEN s[m] ELSE s[m + 1]
    BY <1>6
  <2>1. CASE m < n
    BY <1>1, <1>2, <1>3, <1>4, <1>5, <2>1
  <2>2. CASE ~(m < n)
    <3>1. m - (n - 1) \in 1..(Len(s) - n) /\ n + (m - (n - 1)) = m + 1
      BY <1>1, <1>2, <2>2
    <3>2. w[m] = b[m - (n - 1)]
      BY <1>1, <1>2, <1>3, <1>4, <1>5, <2>2
    <3>3. b[m - (n - 1)] = s[n + (m - (n - 1))]
      BY <1>4, <3>1
    <3> QED
      BY <2>2, <3>1, <3>2, <3>3
  <2> QED
    BY <2>1, <2>2
<1>8. Distinct(w)
  <2> SUFFICES ASSUME NEW m \in DOMAIN w, NEW k \in DOMAIN w, w[m][1] = w[k][1] PROVE m = k
    BY DEF Distinct
  <2> DEFINE p(x) == IF x < n THEN x ELSE x + 1
  <2>1. w[m] = s[p(m)] /\ w[k] = s[p(k)] /\ p(m) \in DOMAIN s /\ p(k) \in DOMAIN s
    BY <1>1, <1>2, <1>6, <1>7
  <2>2. p(m) = p(k)
    <3> HIDE DEF p
    <3> QED
      BY <2>1 DEF Distinct
  <2> QED
    BY <1>1, <1>2, <1>6, <2>2
<1>9. ASSUME NEW m \in DOMAIN w PROVE \E k \in DOMAIN s \ {n} : w[m] = s[k]
  <2>1. CASE m < n
    <3>1. m \in DOMAIN s \ {n} /\ w[m] = s[m]
      BY <1>1, <1>2, <1>6, <1>7, <2>1
    <3> QED
      BY <3>1
  <2>2. CASE ~(m < n)
    <3>1. m + 1 \in DOMAIN s \ {n} /\ w[m] = s[m + 1]
      BY <1>1, <1>2, <1>6, <1>7, <2>2
    <3> QED
      BY <3>1
  <2> QED
    BY <2>1, <2>2
<1> QED
  BY <1>5, <1>6, <1>8, <1>9 DEF w, a, b

Rows == (DOMAIN Files) \X BOOLEAN

UsersInv(u) == u \in Seq(Rows) /\ Len(u) <= UserSize /\ Distinct(u)

Among(u, row) == \E n \in DOMAIN u : u[n] = row

(* A hit moves its row to the end.                                         *)
LEMMA HitUsers ==
  ASSUME UsersInv(users), NEW n \in DOMAIN users
  PROVE  LET new == Append(Without(n), users[n])
         IN  UsersInv(new) /\ \A m \in DOMAIN new : Among(users, new[m])
<1> DEFINE w == Without(n)
           new == Append(w, users[n])
<1>1. users \in Seq(Rows) /\ Distinct(users) /\ Len(users) <= UserSize /\ Len(users) \in Nat /\ users[n] \in Rows
  BY LenProperties, ElementOfSeq DEF UsersInv
<1>2. w \in Seq(Rows) /\ Len(w) = Len(users) - 1 /\ Distinct(w) /\ \A m \in DOMAIN w : \E k \in DOMAIN users \ {n} : w[m] = users[k]
  BY <1>1, DistinctWithout DEF Without
<1> HIDE DEF w
<1>3. \A m \in DOMAIN w : w[m][1] # users[n][1]
  BY <1>1, <1>2 DEF Distinct
<1>4. /\ new \in Seq(Rows) /\ Len(new) = Len(w) + 1 /\ Distinct(new)
      /\ \A m \in DOMAIN new : new[m] = users[n] \/ \E k \in DOMAIN w : new[m] = w[k]
  BY <1>1, <1>2, <1>3, DistinctAppend
<1> HIDE DEF new
<1>5. \A m \in DOMAIN new : Among(users, new[m])
  BY <1>2, <1>4 DEF Among
<1>6. UsersInv(new)
  BY <1>1, <1>2, <1>4 DEF UsersInv
<1> QED
  BY <1>5, <1>6 DEF new, w

(* A new row takes the place of the one that was used least recently.      *)
LEMMA StoreUsers ==
  ASSUME UsersInv(users), NEW f \in DOMAIN Files, NEW user \in BOOLEAN, Cached(f) = {}
  PROVE  LET new == Append(IF Len(users) = UserSize THEN Tail(users) ELSE users, <<f, user>>)
         IN  UsersInv(new) /\ \A m \in DOMAIN new : new[m] = <<f, user>> \/ Among(users, new[m])
<1> DEFINE room == IF Len(users) = UserSize THEN Tail(users) ELSE users
           new  == Append(room, <<f, user>>)
<1>1. users \in Seq(Rows) /\ Distinct(users) /\ Len(users) <= UserSize /\ Len(users) \in Nat /\ <<f, user>> \in Rows
  BY LenProperties DEF UsersInv, Rows
<1>2. /\ room \in Seq(Rows) /\ Len(room) < UserSize /\ Len(room) \in Nat /\ Distinct(room)
      /\ \A n \in DOMAIN room : Among(users, room[n])
  <2>1. CASE Len(users) = UserSize
    <3>1. users # <<>>
      BY <2>1, EmptySeq, CorrelationAssumption
    <3>2. /\ Tail(users) \in Seq(Rows) /\ Len(Tail(users)) = Len(users) - 1 /\ Distinct(Tail(users))
          /\ \A n \in DOMAIN Tail(users) : \E m \in DOMAIN users : Tail(users)[n] = users[m]
      BY <1>1, <3>1, DistinctTail
    <3>3. \A n \in DOMAIN Tail(users) : Among(users, Tail(users)[n])
      BY <3>2 DEF Among
    <3>4. Len(Tail(users)) \in Nat
      BY <3>2, LenProperties
    <3> QED
      BY <1>1, <2>1, <3>2, <3>3, <3>4
  <2>2. CASE Len(users) # UserSize
    BY <1>1, <2>2, CorrelationAssumption DEF Among
  <2> QED
    BY <2>1, <2>2
<1> HIDE DEF room
<1>3. \A n \in DOMAIN room : room[n][1] # f
  BY <1>2 DEF Among, Cached
<1>4. /\ new \in Seq(Rows) /\ Len(new) = Len(room) + 1 /\ Distinct(new)
      /\ \A m \in DOMAIN new : new[m] = <<f, user>> \/ \E k \in DOMAIN room : new[m] = room[k]
  <2> DEFINE row == <<f, user>>
  <2>1. row \in Rows /\ row[1] = f
    BY <1>1
  <2> HIDE DEF row
  <2>2. /\ Append(room, row) \in Seq(Rows) /\ Len(Append(room, row)) = Len(room) + 1 /\ Distinct(Append(room, row))
        /\ \A m \in DOMAIN Append(room, row) : Append(room, row)[m] = row \/ \E k \in DOMAIN room : Append(room, row)[m] = room[k]
    BY <1>2, <1>3, <2>1, DistinctAppend
  <2> QED
    BY <2>2 DEF row
<1> HIDE DEF new
<1>5. \A m \in DOMAIN new : new[m] = <<f, user>> \/ Among(users, new[m])
  BY <1>2, <1>4
<1>6. UsersInv(new)
  BY <1>1, <1>2, <1>4, CorrelationAssumption DEF UsersInv
<1> QED
  BY <1>5, <1>6 DEF new, room

CacheInv ==
  /\ UsersInv(users)
  /\ packages \in [DOMAIN Files -> -1..Len(Distributions)] /\ raced \subseteq DOMAIN Files

(* What the actions do to the caches.                                      *)
LEMMA CacheFacts ==
  ASSUME RequestInv, CacheInv, [Next]_vars
  PROVE  \/ UNCHANGED cacheVars
         \/ \E t \in Threads : HitUser(t) /\ UNCHANGED <<packages, raced>> /\ UsersInv(users')
                               /\ \A m \in DOMAIN users' : Among(users, users'[m])
         \/ \E t \in Threads : StoreUser(t) /\ UNCHANGED <<packages, raced>> /\ UsersInv(users')
                               /\ \A m \in DOMAIN users' : users'[m] = <<Frame(t).file, found[t] = "user">> \/ Among(users, users'[m])
         \/ \E t \in Threads : (FindSite(t) \/ LookUp(t)) /\ UNCHANGED users
<1>1. CASE UNCHANGED cacheVars
  BY <1>1
<1>2. CASE UNCHANGED vars \/ Register \/ Uninstrument \/ Instrument \/ Withdraw
  <2>1. UNCHANGED cacheVars
    BY <1>2 DEF vars, cacheVars, Register, FlaskRule, FlaskEndpoint, ApiRoute, Route, ConsumerRule, PlainRule, Registers,
                Uninstrument, Instrument, Switch, Withdraw, appVars
  <2> QED
    BY <2>1
<1>3. ASSUME NEW t \in Threads, HitUser(t)
      PROVE  UNCHANGED <<packages, raced>> /\ UsersInv(users') /\ \A m \in DOMAIN users' : Among(users, users'[m])
  <2>1. PICK n \in Cached(Frame(t).file) : users' = Append(Without(n), users[n])
    BY <1>3 DEF HitUser
  <2>2. n \in DOMAIN users
    BY DEF Cached
  <2> QED
    BY <1>3, <2>1, <2>2, HitUsers DEF HitUser, CacheInv
<1>4. ASSUME NEW t \in Threads, StoreUser(t)
      PROVE  /\ UNCHANGED <<packages, raced>> /\ UsersInv(users')
             /\ \A m \in DOMAIN users' : users'[m] = <<Frame(t).file, found[t] = "user">> \/ Among(users, users'[m])
  <2>1. Frame(t).file \in DOMAIN Files
    BY <1>4, FrameFacts DEF StoreUser, RequestInv, LookInv
  <2>2. CASE Cached(Frame(t).file) # {}
    <3>1. users' = users
      BY <1>4, <2>2 DEF StoreUser
    <3> QED
      BY <1>4, <3>1 DEF StoreUser, CacheInv, Among
  <2>3. CASE Cached(Frame(t).file) = {}
    <3> DEFINE f == Frame(t).file
               user == found[t] = "user"
    <3>1. users' = Append(IF Len(users) = UserSize THEN Tail(users) ELSE users, <<f, user>>)
      BY <1>4, <2>3 DEF StoreUser
    <3>2. f \in DOMAIN Files /\ user \in BOOLEAN /\ Cached(f) = {} /\ UsersInv(users)
      BY <2>1, <2>3 DEF CacheInv
    <3>3. f = Frame(t).file /\ user = (found[t] = "user")
      OBVIOUS
    <3> HIDE DEF f, user
    <3>4. UsersInv(users') /\ \A m \in DOMAIN users' : users'[m] = <<f, user>> \/ Among(users, users'[m])
      BY <3>1, <3>2, StoreUsers
    <3> QED
      BY <1>4, <3>3, <3>4 DEF StoreUser
  <2> QED
    BY <2>2, <2>3
<1>5. ASSUME NEW t \in Threads, FindSite(t) \/ LookUp(t) PROVE UNCHANGED users
  BY <1>5 DEF FindSite, LookUp
<1>6. ASSUME NEW t \in Threads,
             Arrive(t) \/ StartInner(t) \/ Enter(t) \/ Dispatch(t) \/ Replace(t) \/ Run(t) \/ StartClient(t) \/ Leave(t)
      PROVE  UNCHANGED cacheVars
  BY <1>6 DEF Arrive, StartInner, Enter, Dispatch, Replace, Run, StartClient, Leave, NoLookup, cacheVars
<1>7. ASSUME NEW t \in Threads,
             FindStandard(t) \/ HitPackage(t) \/ AskPaths(t) \/ (Inside(t) /\ UNCHANGED <<threadVars, cacheVars, appVars>>)
      PROVE  UNCHANGED cacheVars
  BY <1>7 DEF FindStandard, HitPackage, AskPaths, cacheVars
<1> QED
  BY <1>1, <1>2, <1>3, <1>4, <1>5, <1>6, <1>7 DEF Next, Work, OnStart

LEMMA CacheStep == RequestInv /\ CacheInv /\ [Next]_vars => CacheInv'
<1> SUFFICES ASSUME RequestInv, CacheInv, [Next]_vars PROVE CacheInv'
  OBVIOUS
<1>1. CASE UNCHANGED cacheVars
  BY <1>1 DEF cacheVars, CacheInv, UsersInv
<1>2. CASE UNCHANGED <<packages, raced>> /\ UsersInv(users')
  BY <1>2 DEF CacheInv, UsersInv
<1>3. ASSUME NEW t \in Threads, FindSite(t) \/ LookUp(t), UNCHANGED users PROVE CacheInv'
  <2> DEFINE f == Frame(t).file
  <2>1. at[t] > 0
    BY <1>3 DEF FindSite, LookUp, Unjudged, Looking, Return, Go, RequestInv, LookInv
  <2>2. f \in DOMAIN Files
    BY <2>1, FrameFacts
  <2>3. raced' = raced \/ raced' = raced \cup {f}
    BY <1>3 DEF FindSite, LookUp
  <2>4. PICK root : StorePackage(f, PackageOf(root))
    BY <1>3 DEF FindSite, LookUp
  <2>5. packages' \in [DOMAIN Files -> -1..Len(Distributions)]
    <3>1. PackageOf(root) \in -1..Len(Distributions)
      BY PackageFacts, CorrelationAssumption
    <3> QED
      BY <2>2, <2>4, <3>1 DEF StorePackage, CacheInv
  <2> QED
    BY <1>3, <2>2, <2>3, <2>5 DEF CacheInv, UsersInv
<1> QED
  BY <1>1, <1>2, <1>3, CacheFacts

-----------------------------------------------------------------------------
(* The type invariant.                                                     *)

(* The phases from the point on at which a thread has asked for the view.  *)
Dispatched == {"replace", "run", "call", "client", "over"}
Past == { t \in Threads : phase[t] \in Dispatched }

LEMMA OnStartLooks ==
  ASSUME RequestInv, NEW t \in Threads, OnStart(t)
  PROVE  at[t] > 0 /\ at[t] # 0
<1>1. CASE Inside(t)
  <2>1. step[t] # "idle"
    BY <1>1 DEF Inside, Compare, Acquire, Same, Store, Collect, Assign, Read, Go
  <2> QED
    BY <2>1 DEF RequestInv, LookInv
<1>2. CASE LookUp(t) \/ StoreUser(t)
  <2>1. step[t] # "idle" \/ found[t] # "nothing"
    BY <1>2 DEF LookUp, StoreUser, Return, Go
  <2> QED
    BY <2>1 DEF RequestInv, LookInv
<1>3. CASE HitUser(t) \/ FindStandard(t) \/ HitPackage(t) \/ FindSite(t) \/ AskPaths(t)
  <2>1. Looking(t)
    BY <1>3 DEF HitUser, FindStandard, HitPackage, FindSite, AskPaths, Unjudged
  <2> QED
    BY <2>1 DEF Looking
<1> QED
  BY <1>1, <1>2, <1>3 DEF OnStart

LEMMA PhaseFacts ==
  ASSUME RequestInv, NEW t \in Threads, Arrive(t) \/ Work(t)
  PROVE  \/ UNCHANGED phase /\ ~Dispatch(t)
         \/ \E p : /\ phase' = [phase EXCEPT ![t] = p] /\ (phase[t] \in Dispatched => p \in Dispatched)
                   /\ Dispatch(t) => phase[t] = "dispatch" /\ p \in Dispatched
<1>1. CASE OnStart(t)
  <2>1. UNCHANGED phase
    BY <1>1 DEF OnStart, HitUser, FindStandard, HitPackage, FindSite, AskPaths, LookUp, StoreUser, Judged, Finds, threadVars
  <2>2. at[t] # 0
    BY <1>1, OnStartLooks
  <2> QED
    BY <2>1, <2>2 DEF Dispatch, At
<1>2. CASE Dispatch(t)
  <2>1. phase[t] = "dispatch" /\ \E p \in {"run", "replace"} : phase' = [phase EXCEPT ![t] = p]
    BY <1>2 DEF Dispatch, At, Enters
  <2> QED
    BY <1>2, <2>1 DEF Dispatched
<1>3. CASE Arrive(t) \/ StartInner(t) \/ StartClient(t)
  <2>1. ~Dispatch(t)
    BY <1>3 DEF Arrive, StartInner, StartClient, Dispatch, At
  <2>2. \E p : phase' = [phase EXCEPT ![t] = p] /\ (phase[t] \in Dispatched => p \in Dispatched)
    <3>1. phase[t] \in Dispatched => StartClient(t)
      BY <1>3 DEF Arrive, StartInner, StartClient, At, Dispatched
    <3>2. StartClient(t) => phase' = [phase EXCEPT ![t] = "client"] /\ "client" \in Dispatched
      BY DEF StartClient, Starts, Dispatched
    <3>3. \E p : phase' = [phase EXCEPT ![t] = p]
      BY <1>3 DEF Arrive, StartInner, StartClient, Starts
    <3> QED
      BY <3>1, <3>2, <3>3
  <2> QED
    BY <2>1, <2>2
<1>4. CASE Enter(t)
  <2>1. phase[t] \in {"entry", "inner"} /\ phase' = [phase EXCEPT ![t] = "dispatch"]
    BY <1>4 DEF Enter, At, Current, Enters
  <2> QED
    BY <2>1 DEF Dispatched, Dispatch, At
<1>5. CASE Replace(t) \/ Run(t) \/ Leave(t)
  <2>1. phase[t] # "dispatch" /\ \E p \in {"run", "call", "over"} : phase' = [phase EXCEPT ![t] = p]
    BY <1>5 DEF Replace, Run, Leave, At, Enters
  <2> QED
    BY <2>1 DEF Dispatched, Dispatch, At
<1> QED
  BY <1>1, <1>2, <1>3, <1>4, <1>5 DEF Work

(* A wrapper is made for a rule, or by the request of a thread: once, when *)
(* it is dispatched.                                                       *)
MadeInv == made <= registered + Cardinality(Past)

LEMMA MadeStep == LayerInv /\ IdInv /\ RequestInv /\ MadeInv /\ [Next]_vars => MadeInv'
<1> SUFFICES ASSUME LayerInv, IdInv, RequestInv, MadeInv, [Next]_vars PROVE MadeInv'
  OBVIOUS
<1>1. registered \in Nat /\ made \in Nat /\ Len(app.rules) \in Nat
  BY CorrelationAssumption DEF RequestInv, AppInv
<1>2. IsFiniteSet(Past) /\ Cardinality(Past) \in Nat
  <2>1. Past \subseteq Threads
    BY DEF Past
  <2>2. IsFiniteSet(Past)
    BY <2>1, CorrelationAssumption, FS_Subset
  <2> QED
    BY <2>2, FS_CardinalityType
<1>3. CASE UNCHANGED <<made, registered, phase>>
  <2>1. Past' = Past
    BY <1>3 DEF Past
  <2> QED
    BY <1>3, <2>1 DEF MadeInv
<1>4. CASE Register
  <2>1. view'.id \in -1..(made + 1) /\ made' = (IF view'.id > made THEN view'.id ELSE made) /\ registered' = registered + 1
    BY <1>4, RegisterFacts DEF RequestInv, AppInv
  <2>2. UNCHANGED phase
    BY <1>4, RegisterFacts DEF RequestInv, AppInv, threadVars
  <2>3. Past' = Past
    BY <2>2 DEF Past
  <2>4. made' <= made + 1
    BY <1>1, <2>1
  <2>5. made' \in Int
    BY <1>1, <2>1
  <2> QED
    BY <1>1, <1>2, <2>1, <2>3, <2>4, <2>5 DEF MadeInv
<1>5. CASE Uninstrument \/ Instrument \/ Withdraw
  BY <1>3, <1>5 DEF Uninstrument, Instrument, Switch, Withdraw, appVars, threadVars
<1>6. ASSUME NEW t \in Threads, Arrive(t) \/ Work(t) PROVE MadeInv'
  <2>1. registered' = registered
    BY <1>6, WorkFacts
  <2>2. DOMAIN phase = Threads
    BY DEF RequestInv, LookInv
  <2>3. CASE Dispatch(t)
    <3>1. PICK p : phase' = [phase EXCEPT ![t] = p] /\ phase[t] = "dispatch" /\ p \in Dispatched
      BY <1>6, <2>3, PhaseFacts
    <3>2. Past' = Past \cup {t} /\ t \notin Past
      BY <2>2, <3>1 DEF Past, Dispatched
    <3>3. Cardinality(Past') = Cardinality(Past) + 1
      BY <1>2, <3>2, FS_AddElement
    <3>4. made' \in Int /\ made' <= made + 1
      <4>1. PICK v : v.id \in -1..(made + 1) /\ made' = (IF v.id > made THEN v.id ELSE made)
        <5>1. /\ ~Replace(t)
              /\ UNCHANGED <<view, made, mine>> => made' = (IF view.id > made THEN view.id ELSE made) /\ view.id \in -1..(made + 1)
          BY <1>1, <3>1 DEF Replace, At, IdInv
        <5> QED
          BY <1>6, <5>1, WorkFacts
      <4> QED
        BY <1>1, <4>1
    <3> QED
      BY <1>1, <1>2, <2>1, <3>3, <3>4 DEF MadeInv
  <2>4. CASE ~Dispatch(t)
    <3>1. made' = made
      BY <1>6, <2>4, WorkFacts
    <3>2. Past \subseteq Past'
      <4>1. CASE UNCHANGED phase
        BY <4>1 DEF Past
      <4>2. ASSUME NEW p, phase' = [phase EXCEPT ![t] = p], phase[t] \in Dispatched => p \in Dispatched PROVE Past \subseteq Past'
        BY <2>2, <4>2 DEF Past
      <4> QED
        BY <1>6, <4>1, <4>2, PhaseFacts
    <3>3. IsFiniteSet(Past') /\ Cardinality(Past') \in Nat
      <4>1. Past' \subseteq Threads
        BY DEF Past
      <4>2. IsFiniteSet(Past')
        BY <4>1, CorrelationAssumption, FS_Subset
      <4> QED
        BY <4>2, FS_CardinalityType
    <3>4. Cardinality(Past) <= Cardinality(Past')
      BY <3>2, <3>3, FS_Subset
    <3> QED
      BY <1>1, <1>2, <2>1, <3>1, <3>3, <3>4 DEF MadeInv
  <2> QED
    BY <2>3, <2>4
<1> QED
  BY <1>3, <1>4, <1>5, <1>6 DEF Next, vars, appVars, threadVars

TInv == LayerInv /\ IdInv /\ AppInv /\ LookInv /\ CacheInv /\ MadeInv

LEMMA InitTypes == Init => TInv
<1> SUFFICES ASSUME Init PROVE TInv
  OBVIOUS
<1>1. LayerInv
  BY RawView DEF Init, LayerInv, ViewInv, NoView
<1>2. IdInv /\ AppInv
  <2>1. Len(app.rules) \in Nat /\ MaxSwitches \in Nat
    BY CorrelationAssumption DEF Init
  <2>2. IdInv
    <3>1. view.id = -1 /\ \A t \in Threads : mine[t].id = -1
      BY DEF Init, NoView
    <3> QED
      BY <3>1 DEF Init, IdInv
  <2>3. registered \in 0..Len(app.rules) /\ switches \in 0..MaxSwitches /\ made \in Nat
    BY <2>1 DEF Init
  <2>4. AppInv
    BY <2>3 DEF Init, AppInv
  <2> QED
    BY <2>2, <2>4
<1>3. LookInv
  BY DEF Init, ResolverInit, LookInv, Phases
<1>4. CacheInv
  <2>1. <<>> \in Seq(Rows) /\ Len(<<>>) = 0 /\ DOMAIN <<>> = {}
    BY EmptySeq
  <2>2. UsersInv(<<>>)
    BY <2>1, CorrelationAssumption DEF UsersInv, Distinct
  <2>3. -1 \in -1..Len(Distributions)
    BY CorrelationAssumption
  <2> QED
    BY <2>2, <2>3 DEF Init, CacheInv
<1>5. MadeInv
  <2>1. Past = {}
    BY DEF Init, Past, Dispatched
  <2> QED
    BY <2>1, FS_EmptySet DEF Init, MadeInv
<1> QED
  BY <1>1, <1>2, <1>3, <1>4, <1>5 DEF TInv

LEMMA TypesStep == ResolverInv /\ TInv /\ [Next]_vars => TInv'
<1> SUFFICES ASSUME ResolverInv, TInv, [Next]_vars PROVE TInv'
  OBVIOUS
<1>1. RequestInv /\ LayerInv /\ IdInv /\ AppInv /\ CacheInv /\ MadeInv
  BY DEF TInv, RequestInv, ResolverInv
<1> QED
  BY <1>1, LayerStep, AppStep, LookStep, CacheStep, MadeStep DEF TInv

LEMMA TypesHold == Spec => [](ResolverInv /\ TInv)
<1>1. Spec => []ResolverInv
  BY Resolves, ResolverInductive, PTL
<1> QED
  BY <1>1, InitTypes, TypesStep, PTL DEF Spec

LEMMA ViewTypes ==
  ASSUME TInv, NEW v, ViewInv(v), v.id \in -1..made
  PROVE  v \in Views
<1>1. registered <= Len(app.rules) /\ registered \in Nat /\ Len(app.rules) \in Nat /\ made \in Nat
  BY CorrelationAssumption DEF TInv, AppInv
<1>2. Cardinality(Past) <= Cardinality(Threads) /\ Cardinality(Past) \in Nat /\ Cardinality(Threads) \in Nat
  <2>1. Past \subseteq Threads
    BY DEF Past
  <2> QED
    BY <2>1, CorrelationAssumption, FS_Subset, FS_CardinalityType
<1>3. made <= registered + Cardinality(Past)
  BY DEF TInv, MadeInv
<1>4. v.id \in -1..(Len(app.rules) + Cardinality(Threads))
  BY <1>1, <1>2, <1>3
<1> QED
  BY <1>4 DEF Views, ViewInv

(* The types of all variables, for any number of threads, rules, files and *)
(* distributions: no more wrappers are made than there are rules and       *)
(* requests, the bounded cache of is_user_code keeps to its size and has   *)
(* one row for a file, and the resolver is called during a look only.      *)
THEOREM TypeCorrect == Spec => []TypeOK
<1>1. ResolverInv /\ TInv => TypeOK
  <2> SUFFICES ASSUME ResolverInv, TInv PROVE TypeOK
    OBVIOUS
  <2>1. RequestInv /\ AppInv /\ LookInv
    BY DEF TInv, RequestInv, ResolverInv
  <2>2. view \in Views /\ mine \in [Threads -> Views]
    <3>1. view \in Views /\ \A t \in Threads : mine[t] \in Views
      BY ViewTypes DEF TInv, LayerInv, IdInv
    <3>2. mine = [t \in Threads |-> mine[t]]
      BY DEF TInv, LayerInv
    <3> QED
      BY <3>1, <3>2
  <2>3. Len(users) <= UserSize /\ \A n \in DOMAIN users : Cached(users[n][1]) = {n}
    BY DEF TInv, CacheInv, UsersInv, Distinct, Cached
  <2>4. \A t \in Threads : at[t] > 0 => at[t] <= Last(t)
    BY <2>1, FrameFacts DEF LookInv
  <2>5. \A t \in Threads : step[t] # "idle" => at[t] > 0 /\ found[t] = "nothing"
    BY <2>1 DEF LookInv
  <2> QED
    BY <2>1, <2>2, <2>3, <2>4, <2>5 DEF TypeOK, RequestInv, AppInv, TInv, CacheInv
<1> QED
  BY <1>1, TypesHold, PTL

-----------------------------------------------------------------------------
(* The name of the handler.                                                *)

(* A step of a thread changes the phase and the code of its own request,   *)
(* and only spans that have just been started, or of the phase.            *)
Keeps(t, span) == code'[t][span] = code[t][span]

LEMMA CodeFacts ==
  ASSUME RequestInv, NEW t \in Threads, Arrive(t) \/ Work(t)
  PROVE  /\ \A u \in Threads : u # t => phase'[u] = phase[u] /\ code'[u] = code[u]
         /\ \/ phase[t] \in Spans /\ phase'[t] = phase[t] /\ \A span \in Spans : span # phase[t] => Keeps(t, span)
            \/ phase'[t] \in {"entry", "inner"}
            \/ /\ Enter(t) /\ phase'[t] = "dispatch"
               /\ HookNames /\ app.framework # "drf" => code'[t]["entry"] = FullName(app.view)
            \/ /\ Dispatch(t) \/ Replace(t)
               /\ phase[t] \in {"dispatch", "replace"} /\ phase'[t] \in {"replace", "run"} /\ code'[t] = code[t]
            \/ /\ phase[t] = "run" /\ phase'[t] = "call"
               /\ view.layers > 0 => code'[t][Current] = FullName(app.view)
               /\ Keeps(t, "entry") \/ code'[t]["entry"] = FullName(app.view)
            \/ phase[t] = "call" /\ phase'[t] = "client" /\ Keeps(t, "entry") /\ Keeps(t, "inner")
            \/ /\ phase[t] = "client" /\ phase'[t] = "over"
               /\ app.framework = "drf" => code'[t][Current] = FullName(app.view)
               /\ app.framework # "drf" => code'[t] = code[t]
<1>1. DOMAIN phase = Threads /\ DOMAIN code = Threads /\ \A u \in Threads : DOMAIN code[u] = Spans
  BY DEF RequestInv, LookInv
<1>2. ASSUME NEW p, phase' = [phase EXCEPT ![t] = p]
      PROVE  phase'[t] = p /\ \A u \in Threads : u # t => phase'[u] = phase[u]
  BY <1>1, <1>2
<1>3. ASSUME NEW span \in Spans, NEW name, Names(t, span, name)
      PROVE  /\ \A u \in Threads : u # t => code'[u] = code[u]
             /\ code'[t][span] = name /\ \A s \in Spans : s # span => Keeps(t, s)
  BY <1>1, <1>3 DEF Names, Keeps
<1>4. "entry" \in Spans /\ "inner" \in Spans /\ "client" \in Spans /\ Current \in {"entry", "inner"}
  BY DEF Spans, Current
<1>5. CASE OnStart(t)
  <2>1. phase' = phase
    BY <1>5 DEF OnStart, HitUser, FindStandard, HitPackage, FindSite, AskPaths, LookUp, StoreUser, Judged, Finds, threadVars
  <2>2. code' = code \/ \E name : Names(t, phase[t], name)
    BY <1>5 DEF OnStart, HitUser, FindStandard, HitPackage, FindSite, AskPaths, LookUp, StoreUser, Judged, Finds, threadVars, Names
  <2>3. phase[t] \in Spans
    BY <1>5, OnStartLooks DEF RequestInv, LookInv
  <2>4. CASE code' = code
    BY <2>1, <2>3, <2>4 DEF Keeps
  <2>5. ASSUME NEW name, Names(t, phase[t], name)
        PROVE  /\ \A u \in Threads : u # t => code'[u] = code[u]
               /\ \A span \in Spans : span # phase[t] => Keeps(t, span)
    BY <1>3, <2>3, <2>5
  <2> QED
    BY <2>1, <2>2, <2>3, <2>4, <2>5
<1>6. CASE Arrive(t) \/ StartInner(t)
  <2>1. PICK which \in {"entry", "inner"} : Starts(t, which)
    BY <1>6 DEF Arrive, StartInner
  <2>2. phase' = [phase EXCEPT ![t] = which] /\ Names(t, which, Span(which).code)
    BY <2>1 DEF Starts, Names
  <2> QED
    BY <1>2, <1>3, <1>4, <2>2
<1>7. CASE Enter(t)
  <2>1. phase' = [phase EXCEPT ![t] = "dispatch"]
    BY <1>7 DEF Enter, Enters
  <2>2. CASE HookNames
    <3>1. PICK name : Names(t, "entry", name) /\ (app.framework # "drf" => name = FullName(app.view))
      BY <1>7, <2>2 DEF Enter
    <3> QED
      BY <1>2, <1>3, <1>4, <1>7, <2>1, <3>1
  <2>3. CASE ~HookNames
    <3>1. code' = code
      BY <1>7, <2>3 DEF Enter
    <3> QED
      BY <1>2, <1>7, <2>1, <2>3, <3>1
  <2> QED
    BY <2>2, <2>3
<1>8. CASE Dispatch(t) \/ Replace(t)
  <2>1. /\ phase[t] \in {"dispatch", "replace"} /\ code' = code
        /\ \E p \in {"replace", "run"} : phase' = [phase EXCEPT ![t] = p]
    BY <1>8 DEF Dispatch, Replace, At, Enters
  <2> QED
    BY <1>2, <1>8, <2>1
<1>9. CASE Run(t)
  <2>1. phase[t] = "run" /\ phase' = [phase EXCEPT ![t] = "call"]
    BY <1>9 DEF Run, At, Enters
  <2>2. CASE view.layers > 0
    <3>1. Names(t, Current, FullName(app.view))
      BY <1>9, <2>2 DEF Run
    <3>2. /\ \A u \in Threads : u # t => code'[u] = code[u]
          /\ code'[t][Current] = FullName(app.view)
          /\ Current # "entry" => Keeps(t, "entry")
      BY <1>3, <1>4, <3>1
    <3> QED
      BY <1>2, <2>1, <3>2
  <2>3. CASE ~(view.layers > 0)
    <3>1. code' = code
      BY <1>9, <2>3 DEF Run
    <3> QED
      BY <1>2, <2>1, <2>3, <3>1 DEF Keeps
  <2> QED
    BY <2>2, <2>3
<1>10. CASE StartClient(t)
  <2>1. phase[t] = "call" /\ phase' = [phase EXCEPT ![t] = "client"] /\ Names(t, "client", Span("client").code)
    BY <1>10 DEF StartClient, Starts, At, Names
  <2> QED
    BY <1>2, <1>3, <1>4, <2>1
<1>11. CASE Leave(t)
  <2>1. phase[t] = "client" /\ phase' = [phase EXCEPT ![t] = "over"]
    BY <1>11 DEF Leave, At, Enters
  <2>2. CASE app.framework = "drf"
    <3>1. Names(t, Current, FullName(app.view))
      BY <1>11, <2>2 DEF Leave
    <3> QED
      BY <1>2, <1>3, <1>4, <2>1, <2>2, <3>1
  <2>3. CASE app.framework # "drf"
    <3>1. code' = code
      BY <1>11, <2>3 DEF Leave
    <3> QED
      BY <1>2, <2>1, <2>3, <3>1
  <2> QED
    BY <2>2, <2>3
<1> QED
  BY <1>5, <1>6, <1>7, <1>8, <1>9, <1>10, <1>11 DEF Work

(* A function that has been through the patch of its framework has a       *)
(* wrapper; Flask gives one to a view that comes past it.                  *)
KeepMark(v) == Decoratable /\ v.marked => v.layers > 0
MarkInv     == KeepMark(view) /\ \A t \in Threads : KeepMark(mine[t])

PerRequest == {"flask", "django", "drf", "celery", "pika"}

WrapInv ==
  /\ \A t \in Threads : phase[t] = "replace" => app.framework = "flask"
  /\ switches = 0 /\ Decoratable =>
       /\ registered > 0 /\ app.framework \notin PerRequest => view.layers > 0
       /\ app.framework = "flask" =>
            \A t \in Threads : /\ phase[t] = "run" => view.layers > 0
                               /\ phase[t] = "replace" => mine[t].layers > 0

LEMMA DecorateMark ==
  ASSUME NEW v, ViewInv(v), KeepMark(v)
  PROVE  /\ KeepMark(Decorate(v)) /\ KeepMark(Decorated(v))
         /\ Decoratable => Decorate(v).layers > 0
<1>1. KeepMark(Decorate(v)) /\ (Decoratable => Decorate(v).layers > 0)
  <2>1. CASE v.marked
    BY <2>1 DEF Decorate, KeepMark
  <2>2. CASE ~v.marked /\ Decoratable
    <3>1. Decorate(v) = [id |-> made + 1, layers |-> v.layers + 1, marked |-> TRUE]
      BY <2>2 DEF Decorate
    <3>2. v.layers + 1 > 0
      BY DEF ViewInv
    <3> QED
      BY <3>1, <3>2 DEF KeepMark
  <2>3. CASE ~v.marked /\ ~Decoratable
    BY <2>3 DEF KeepMark
  <2> QED
    BY <2>1, <2>2, <2>3
<1> QED
  BY <1>1 DEF Decorated

(* What a rule leaves to the framework.                                    *)
LEMMA RuleMarks ==
  ASSUME LayerInv, MarkInv, Register
  PROVE  /\ Decoratable /\ view'.marked => view'.layers > 0
         /\ hooked /\ Decoratable /\ app.framework \notin PerRequest => view'.layers > 0
<1>1. /\ \A v : Registers(v) => view' = v
      /\ ViewInv(view) /\ KeepMark(view) /\ ViewInv(Raw) /\ ~Raw.marked /\ KeepMark(Raw)
  BY RawView DEF Registers, LayerInv, MarkInv, Raw, KeepMark
<1>2. /\ KeepMark(Decorated(view)) /\ KeepMark(Decorated(Raw))
      /\ Decoratable /\ hooked => Decorated(view).layers > 0 /\ Decorated(Raw).layers > 0
      /\ Decoratable => Decorate(Raw).layers > 0
  <2>1. /\ KeepMark(Decorated(view)) /\ (Decoratable => Decorate(view).layers > 0)
        /\ KeepMark(Decorated(Raw)) /\ (Decoratable => Decorate(Raw).layers > 0)
    BY <1>1, DecorateMark
  <2> QED
    BY <2>1 DEF Decorated
<1>3. CASE FlaskRule
  <2>1. app.framework = "flask" /\ \E v \in {view, Decorated(Raw)} : Registers(v)
    BY <1>3 DEF FlaskRule
  <2> QED
    BY <1>1, <1>2, <2>1 DEF PerRequest, KeepMark
<1>4. CASE FlaskEndpoint \/ PlainRule
  <2>1. app.framework \in PerRequest /\ Registers(Raw)
    BY <1>4 DEF FlaskEndpoint, PlainRule, PerRequest
  <2> QED
    BY <1>1, <2>1
<1>5. CASE ApiRoute \/ Route
  <2>1. \E v \in {view, Raw} : Registers(Decorated(v))
    BY <1>5 DEF ApiRoute, Route
  <2> QED
    BY <1>1, <1>2, <2>1 DEF KeepMark
<1>6. CASE ConsumerRule
  <2> DEFINE v == [id |-> Decorate(Raw).id, layers |-> Decorate(Raw).layers, marked |-> FALSE]
  <2>1. Registers(v) /\ v.layers = Decorate(Raw).layers /\ ~v.marked
    BY <1>6 DEF ConsumerRule
  <2> HIDE DEF v
  <2> QED
    BY <1>1, <1>2, <2>1
<1> QED
  BY <1>3, <1>4, <1>5, <1>6 DEF Register

ViewStepInv == LayerInv /\ IdInv /\ RequestInv /\ MarkInv /\ WrapInv

LEMMA WrapStep == ViewStepInv /\ [Next]_vars => MarkInv' /\ WrapInv'
<1> SUFFICES ASSUME ViewStepInv, [Next]_vars PROVE MarkInv' /\ WrapInv'
  OBVIOUS
<1>0. LayerInv /\ IdInv /\ RequestInv /\ MarkInv /\ WrapInv /\ AppInv /\ LookInv
  BY DEF ViewStepInv, RequestInv
<1>1. CASE UNCHANGED <<app, view, mine, phase, switches, registered>>
  BY <1>0, <1>1 DEF MarkInv, WrapInv, KeepMark, Decoratable
<1>2. CASE Register
  <2>1. /\ registered < Len(app.rules) /\ registered \in Nat /\ registered' = registered + 1
        /\ UNCHANGED <<app, hooked, switches, threadVars>>
    BY <1>0, <1>2, RegisterFacts DEF AppInv
  <2>2. \A t \in Threads : phase[t] = "none"
    BY <1>0, <2>1, CorrelationAssumption DEF LookInv, AppInv
  <2>3. UNCHANGED <<phase, mine>>
    BY <2>1 DEF threadVars
  <2>4. /\ Decoratable /\ view'.marked => view'.layers > 0
        /\ switches = 0 /\ Decoratable /\ app.framework \notin PerRequest => view'.layers > 0
    BY <1>0, <1>2, RuleMarks DEF AppInv
  <2>5. MarkInv'
    BY <1>0, <2>1, <2>3, <2>4 DEF MarkInv, KeepMark, Decoratable
  <2>6. WrapInv'
    BY <1>0, <2>1, <2>2, <2>3, <2>4 DEF WrapInv, Decoratable
  <2> QED
    BY <2>5, <2>6
<1>3. CASE Uninstrument \/ Instrument
  <2>1. switches' = switches + 1 /\ UNCHANGED <<app, view, mine, phase, registered>>
    BY <1>3 DEF Uninstrument, Instrument, Switch, appVars, threadVars
  <2>2. switches' # 0
    BY <1>0, <2>1, CorrelationAssumption DEF AppInv
  <2> QED
    BY <1>0, <2>1, <2>2 DEF MarkInv, WrapInv, KeepMark, Decoratable
<1>4. ASSUME NEW t \in Threads, Arrive(t) \/ Work(t) PROVE MarkInv' /\ WrapInv'
  <2>0. UNCHANGED <<app, registered, refused, hooked, switches>>
    BY <1>0, <1>4, WorkFacts
  <2>1. /\ DOMAIN phase = Threads /\ DOMAIN mine = Threads
        /\ \A u \in Threads : u # t => phase'[u] = phase[u]
    BY <1>0, <1>4, CodeFacts DEF LookInv, LayerInv
  <2>2. CASE Replace(t)
    <3>1. view' = mine[t] /\ mine' = mine /\ phase[t] = "replace" /\ phase'[t] = "run"
      BY <1>0, <2>1, <2>2 DEF Replace, At, Enters
    <3>2. MarkInv'
      BY <1>0, <2>0, <3>1 DEF MarkInv, KeepMark, Decoratable
    <3>3. \A u \in Threads : phase'[u] = "replace" => u # t /\ phase[u] = "replace"
      BY <2>1, <3>1
    <3>4. WrapInv'
      BY <1>0, <2>0, <3>1, <3>3 DEF WrapInv, Decoratable, PerRequest
    <3> QED
      BY <3>2, <3>4
  <2>3. CASE Dispatch(t)
    <3>1. phase[t] = "dispatch"
      BY <2>3 DEF Dispatch, At
    <3>2. PICK v : /\ v = IF app.framework = "flask" THEN Decorated(view) ELSE view
                   /\ mine' = [mine EXCEPT ![t] = v] /\ phase' = [phase EXCEPT ![t] = IF v.id = view.id THEN "run" ELSE "replace"]
                   /\ view' = view
      BY <2>3 DEF Dispatch, Enters
    <3>3. /\ mine'[t] = v /\ phase'[t] = (IF v.id = view.id THEN "run" ELSE "replace")
          /\ \A u \in Threads : u # t => mine'[u] = mine[u]
      BY <2>1, <3>2
    <3>4. KeepMark(v) /\ (app.framework = "flask" /\ hooked /\ Decoratable => v.layers > 0)
      <4>1. ViewInv(view) /\ KeepMark(view)
        BY <1>0 DEF LayerInv, MarkInv
      <4>2. KeepMark(Decorated(view)) /\ (Decoratable => Decorate(view).layers > 0)
        BY <4>1, DecorateMark
      <4> QED
        BY <3>2, <4>1, <4>2 DEF Decorated
    <3>5. Decoratable /\ hooked /\ app.framework = "flask" /\ v.id = view.id => view.layers > 0
      <4>1. CASE view.marked
        BY <1>0, <4>1 DEF MarkInv, KeepMark
      <4>2. CASE ~view.marked /\ Decoratable /\ hooked /\ app.framework = "flask"
        <5>1. v = [id |-> made + 1, layers |-> view.layers + 1, marked |-> TRUE]
          BY <3>2, <4>2 DEF Decorated, Decorate
        <5>2. v.id # view.id
          BY <1>0, <5>1 DEF IdInv
        <5> QED
          BY <5>2
      <4> QED
        BY <4>1, <4>2
    <3>6. v.id # view.id => app.framework = "flask"
      BY <3>2
    <3>7. switches = 0 => hooked
      BY <1>0 DEF AppInv
    <3>8. MarkInv'
      BY <1>0, <2>0, <3>2, <3>3, <3>4 DEF MarkInv, KeepMark, Decoratable
    <3>9. WrapInv'
      BY <1>0, <2>0, <2>1, <3>1, <3>2, <3>3, <3>4, <3>5, <3>6, <3>7 DEF WrapInv, Decoratable
    <3> QED
      BY <3>8, <3>9
  <2>4. CASE ~Replace(t) /\ ~Dispatch(t)
    <3>1. UNCHANGED <<view, mine>>
      BY <1>0, <1>4, <2>4, WorkFacts
    <3>2. phase'[t] \notin {"run", "replace"} \/ phase'[t] = phase[t]
      BY <1>0, <1>4, <2>4, CodeFacts
    <3>3. MarkInv'
      BY <1>0, <2>0, <3>1 DEF MarkInv, KeepMark, Decoratable
    <3>4. \A u \in Threads : phase'[u] \in {"run", "replace"} => phase[u] = phase'[u]
      BY <2>1, <3>2
    <3>5. WrapInv'
      BY <1>0, <2>0, <3>1, <3>4 DEF WrapInv, Decoratable
    <3> QED
      BY <3>3, <3>5
  <2> QED
    BY <2>2, <2>3, <2>4
<1>5. CASE Withdraw
  BY <1>1, <1>5 DEF Withdraw, appVars, threadVars
<1> QED
  BY <1>0, <1>1, <1>2, <1>3, <1>4, <1>5 DEF Next, vars, appVars, threadVars

Instrumented == {"django", "celery", "pika"}    \* their patches name the span of the instrumentation

Named(t) ==
  /\ app.framework \in Instrumented /\ HookNames /\ phase[t] \in Dispatched \cup {"dispatch"}
       => code[t]["entry"] = FullName(app.view)
  /\ app.framework \notin PerRequest \ {"flask"} /\ Decoratable /\ phase[t] \in {"call", "client", "over"}
       => code[t][Current] = FullName(app.view)
  /\ app.framework = "drf" /\ phase[t] = "over" => code[t][Current] = FullName(app.view)

NameInv == switches = 0 => \A t \in Threads : Named(t)

LEMMA NameStep == ViewStepInv /\ NameInv /\ [Next]_vars => NameInv'
<1> SUFFICES ASSUME ViewStepInv, NameInv, [Next]_vars PROVE NameInv'
  OBVIOUS
<1>0. LayerInv /\ IdInv /\ RequestInv /\ MarkInv /\ WrapInv /\ AppInv /\ LookInv
  BY DEF ViewStepInv, RequestInv
<1>1. CASE UNCHANGED <<app, hooked, switches, phase, code>>
  BY <1>1 DEF NameInv, Named, HookNames, ProcessView, ConsumeHook, TracePrerun, TaskFunction, FullName, Unnamed, Current, Decoratable
<1>2. CASE Register
  BY <1>0, <1>1, <1>2, RegisterFacts DEF AppInv, threadVars
<1>3. CASE Uninstrument \/ Instrument
  <2>1. switches' = switches + 1 /\ switches \in Nat
    BY <1>0, <1>3, CorrelationAssumption DEF Uninstrument, Instrument, Switch, appVars, AppInv
  <2> QED
    BY <2>1 DEF NameInv
<1>4. ASSUME NEW t \in Threads, Arrive(t) \/ Work(t) PROVE NameInv'
  <2>1. UNCHANGED <<app, registered, hooked, switches>>
    BY <1>0, <1>4, WorkFacts
  <2>2. \A u \in Threads : u # t => phase'[u] = phase[u] /\ code'[u] = code[u]
    BY <1>0, <1>4, CodeFacts
  <2>3. /\ HookNames' = HookNames /\ Decoratable' = Decoratable /\ Current' = Current
        /\ FullName(app'.view) = FullName(app.view)
    BY <2>1 DEF HookNames, ProcessView, ConsumeHook, TracePrerun, TaskFunction, FullName, Unnamed, Current, Decoratable
  <2> SUFFICES ASSUME switches = 0 PROVE \A u \in Threads : Named(u)'
    BY <2>1 DEF NameInv
  <2>4. ASSUME NEW u \in Threads, u # t PROVE Named(u)'
    <3>1. Named(u)
      BY DEF NameInv
    <3> QED
      BY <2>1, <2>2, <2>3, <2>4, <3>1 DEF Named
  <2>5. Named(t)'
    <3> DEFINE name == FullName(app.view)
    <3>0. /\ Named(t) /\ Current \in {"entry", "inner"} /\ "inner" \in Spans /\ "entry" \in Spans
          /\ app'.framework = app.framework
      BY <2>1 DEF NameInv, Current, Spans
    <3>1. CASE phase[t] \in Spans /\ phase'[t] = phase[t] /\ \A span \in Spans : span # phase[t] => Keeps(t, span)
      <4>1. CASE phase[t] = "client"
        <5>1. Keeps(t, "entry") /\ Keeps(t, "inner")
          BY <3>0, <3>1, <4>1
        <5>2. code'[t]["entry"] = code[t]["entry"] /\ code'[t][Current] = code[t][Current]
          BY <3>0, <5>1 DEF Keeps
        <5> QED
          BY <2>1, <2>3, <3>0, <3>1, <4>1, <5>2 DEF Named
      <4>2. CASE phase[t] \in {"entry", "inner"}
        BY <3>1, <4>2 DEF Named, Dispatched
      <4> QED
        BY <3>1, <4>1, <4>2 DEF Spans
    <3>2. CASE phase'[t] \in {"entry", "inner"}
      BY <3>2 DEF Named, Dispatched
    <3>3. CASE Enter(t) /\ phase'[t] = "dispatch" /\ (HookNames /\ app.framework # "drf" => code'[t]["entry"] = name)
      BY <2>3, <3>0, <3>3 DEF Named, Instrumented
    <3>4. CASE phase[t] \in {"dispatch", "replace"} /\ phase'[t] \in {"replace", "run"} /\ code'[t] = code[t]
      BY <2>3, <3>0, <3>4 DEF Named, Dispatched
    <3>5. CASE /\ phase[t] = "run" /\ phase'[t] = "call" /\ (view.layers > 0 => code'[t][Current] = name)
               /\ Keeps(t, "entry") \/ code'[t]["entry"] = name
      <4>1. app.framework \notin PerRequest \ {"flask"} /\ Decoratable => view.layers > 0
        <5>1. registered > 0
          BY <1>0, <3>5, CorrelationAssumption DEF LookInv, AppInv
        <5> QED
          BY <1>0, <3>5, <5>1 DEF WrapInv, PerRequest
      <4> QED
        BY <2>3, <3>0, <3>5, <4>1 DEF Named, Dispatched, Keeps
    <3>6. CASE phase[t] = "call" /\ phase'[t] = "client" /\ Keeps(t, "entry") /\ Keeps(t, "inner")
      <4>1. code'[t]["entry"] = code[t]["entry"] /\ code'[t][Current] = code[t][Current]
        BY <3>0, <3>6 DEF Keeps
      <4> QED
        BY <2>3, <3>0, <3>6, <4>1 DEF Named, Dispatched
    <3>7. CASE /\ phase[t] = "client" /\ phase'[t] = "over"
               /\ app.framework = "drf" => code'[t][Current] = name
               /\ app.framework # "drf" => code'[t] = code[t]
      <4>1. CASE app.framework = "drf"
        BY <2>3, <3>0, <3>7, <4>1 DEF Named, Instrumented, PerRequest
      <4>2. CASE app.framework # "drf"
        BY <2>3, <3>0, <3>7, <4>2 DEF Named, Dispatched
      <4> QED
        BY <4>1, <4>2
    <3> QED
      BY <1>0, <1>4, <3>1, <3>2, <3>3, <3>4, <3>5, <3>6, <3>7, CodeFacts
  <2> QED
    BY <2>4, <2>5
<1>5. CASE Withdraw
  BY <1>1, <1>5 DEF Withdraw, appVars, threadVars
<1> QED
  BY <1>1, <1>2, <1>3, <1>4, <1>5 DEF Next, vars, appVars, threadVars

(* The handler's name, for every application, any number of threads and    *)
(* whatever the processor named the span at its start: Flask's view is     *)
(* wrapped before it runs, by its rule or by the request, and no later     *)
(* step of the request takes the name away.                                *)
THEOREM HandlersNamed == Spec => []HandlerNamed
<1> DEFINE I == MarkInv /\ WrapInv /\ NameInv
<1>1. Init => I
  <2> SUFFICES ASSUME Init PROVE I
    OBVIOUS
  <2>1. MarkInv
    BY DEF Init, MarkInv, KeepMark, NoView
  <2>2. registered = 0 /\ \A t \in Threads : phase[t] = "none"
    BY DEF Init
  <2>3. WrapInv
    BY <2>2 DEF WrapInv
  <2>4. NameInv
    BY <2>2 DEF NameInv, Named, Dispatched
  <2> QED
    BY <2>1, <2>3, <2>4
<1>2. ResolverInv /\ TInv /\ I /\ [Next]_vars => I'
  <2> SUFFICES ASSUME ResolverInv, TInv, I, [Next]_vars PROVE I'
    OBVIOUS
  <2>1. ViewStepInv /\ NameInv
    BY DEF TInv, ViewStepInv, RequestInv, ResolverInv
  <2> QED
    BY <2>1, WrapStep, NameStep
<1>3. TInv /\ I => HandlerNamed
  <2> SUFFICES ASSUME TInv, I, NEW t \in Threads, phase[t] = "over", switches = 0, Decoratable \/ HookNames
               PROVE  code[t][NamedSpan] = FullName(app.view)
    BY DEF HandlerNamed
  <2>1. Named(t) /\ hooked /\ app \in Apps
    BY DEF NameInv, TInv, AppInv
  <2>2. CASE app.framework \in Instrumented
    <3>1. HookNames
      <4>1. CASE app.framework \in {"django", "pika"}
        BY <2>1, <4>1 DEF HookNames, ProcessView, ConsumeHook
      <4>2. CASE app.framework = "celery"
        <5>1. CASE Decoratable
          <6>1. TaskFunction(app.view) = FullName(app.view) /\ FullName(app.view) # Unnamed
            BY <2>1, <5>1, NamesAssumption DEF TaskFunction, Decoratable
          <6> QED
            BY <4>2, <6>1 DEF HookNames, TracePrerun
        <5> QED
          BY <5>1
      <4> QED
        BY <2>2, <4>1, <4>2 DEF Instrumented
    <3> QED
      BY <2>1, <2>2, <3>1 DEF Named, NamedSpan, Instrumented, Dispatched
  <2>3. CASE app.framework = "drf"
    BY <2>1, <2>3 DEF Named, NamedSpan
  <2>4. CASE app.framework \notin Instrumented \cup {"drf"}
    <3>1. Decoratable
      BY <2>4 DEF HookNames, ProcessView, ConsumeHook, TracePrerun, Instrumented
    <3> QED
      BY <2>1, <2>4, <3>1 DEF Named, NamedSpan, Instrumented, PerRequest
  <2> QED
    BY <2>2, <2>3, <2>4
<1> HIDE DEF I
<1> QED
  BY <1>1, <1>2, <1>3, TypesHold, PTL DEF Spec

-----------------------------------------------------------------------------
(* The name of the user's function.                                        *)

(* What is known of a file is the user's account of it, unless the file    *)
(* has been looked up in a list, or while sys.path was one, that lacked a  *)
(* directory.                                                              *)
Right(f, user) == f \notin raced => (user <=> f \in app.own)

(* Only a file elsewhere is looked up in the list of directories.          *)
PathInv == \A t \in Threads : step[t] # "idle" => Files[Frame(t).file].home = "elsewhere"

RowsInv ==
  /\ \A n \in DOMAIN users : Right(users[n][1], users[n][2])
  /\ \A f \in DOMAIN Files : packages[f] # -1 => Right(f, User(packages[f]))
  /\ \A t \in Threads : found[t] # "nothing" => Right(Frame(t).file, found[t] = "user")

Clean == \A n \in DOMAIN app.stacks.client : app.stacks.client[n].file \notin raced

(* The frames that the look has passed are not the user's.                 *)
Scanned(t) ==
  /\ phase[t] = "client" /\ at[t] > 0 =>
       /\ code[t]["client"] = Unnamed
       /\ Clean => \A n \in 1..(at[t] - 1) : app.stacks.client[n].file \notin app.own
  /\ phase[t] \in {"client", "over"} /\ at[t] = 0 =>
       (Clean => code[t]["client"] = FirstUser(app.stacks.client))

ScanInv == \A t \in Threads : Scanned(t)

(* The frames that the looks of the other threads are at.                  *)
LEMMA OthersLook ==
  ASSUME NEW t \in Threads, NEW u \in Threads, u # t, UNCHANGED app, phase'[u] = phase[u], at'[u] = at[u]
  PROVE  Frame(u)' = Frame(u)
BY DEF Frame, Stack

LEMMA PathStep == RequestInv /\ PathInv /\ [Next]_vars => PathInv'
<1> SUFFICES ASSUME RequestInv, PathInv, [Next]_vars PROVE PathInv'
  OBVIOUS
<1>0. DOMAIN phase = Threads /\ DOMAIN at = Threads /\ DOMAIN step = Threads
  BY DEF RequestInv, AppInv, LookInv, ResolverTypeOK
<1>1. CASE UNCHANGED <<app, phase, at, step>>
  BY <1>1 DEF PathInv, Frame, Stack
<1>2. CASE Register \/ Uninstrument \/ Instrument \/ Withdraw
  <2>1. UNCHANGED <<app, step, threadVars>>
    BY <1>2 DEF Register, FlaskRule, FlaskEndpoint, ApiRoute, Route, ConsumerRule, PlainRule, Registers,
                Uninstrument, Instrument, Switch, Withdraw, Remove, appVars, resolverVars
  <2> QED
    BY <1>1, <2>1 DEF threadVars
<1>3. ASSUME NEW t \in Threads,
             Arrive(t) \/ StartInner(t) \/ Enter(t) \/ Dispatch(t) \/ Replace(t) \/ Run(t) \/ StartClient(t) \/ Leave(t)
      PROVE  PathInv'
  <2>1. UNCHANGED <<app, step>> /\ at[t] = 0
    BY <1>3 DEF Arrive, StartInner, Enter, Dispatch, Replace, Run, Insert, StartClient, Leave, At, NoLookup, resolverVars, appVars
  <2>2. \A u \in Threads : u # t => phase'[u] = phase[u] /\ at'[u] = at[u]
    BY <1>0, <1>3 DEF Arrive, StartInner, Enter, Dispatch, Replace, Run, StartClient, Leave, Enters, Starts
  <2>3. step[t] = "idle"
    BY <2>1 DEF RequestInv, LookInv
  <2>4. \A u \in Threads : u # t => Frame(u)' = Frame(u)
    BY <2>1, <2>2, OthersLook
  <2> QED
    BY <2>1, <2>3, <2>4 DEF PathInv
<1>4. ASSUME NEW t \in Threads, HitUser(t) \/ StoreUser(t) PROVE PathInv'
  <2>1. UNCHANGED <<app, step, phase>>
    BY <1>4 DEF HitUser, StoreUser, Judged, appVars, resolverVars
  <2>2. step[t] = "idle"
    BY <1>4 DEF HitUser, StoreUser, Looking, RequestInv, LookInv
  <2>3. \A u \in Threads : u # t => at'[u] = at[u]
    BY <1>0, <1>4 DEF HitUser, StoreUser, Judged
  <2>4. \A u \in Threads : u # t => Frame(u)' = Frame(u)
    BY <2>1, <2>3, OthersLook
  <2> QED
    BY <2>1, <2>2, <2>4 DEF PathInv
<1>5. ASSUME NEW t \in Threads, FindStandard(t) \/ HitPackage(t) \/ FindSite(t) PROVE PathInv'
  BY <1>1, <1>5 DEF FindStandard, HitPackage, FindSite, Finds, appVars, resolverVars
<1>6. ASSUME NEW t \in Threads, AskPaths(t) PROVE PathInv'
  <2>1. /\ UNCHANGED <<app, phase, at>> /\ Files[Frame(t).file].home = "elsewhere"
        /\ \A u \in Threads : u # t => step'[u] = step[u]
    BY <1>0, <1>6 DEF AskPaths, Ask, Go, appVars, threadVars, Unjudged, Looking
  <2>2. \A u \in Threads : Frame(u)' = Frame(u)
    BY <2>1 DEF Frame, Stack
  <2> QED
    BY <2>1, <2>2 DEF PathInv
<1>7. ASSUME NEW t \in Threads, LookUp(t) \/ (Inside(t) /\ UNCHANGED <<threadVars, cacheVars, appVars>>) PROVE PathInv'
  <2>1. UNCHANGED <<app, phase, at>> /\ step[t] # "idle" /\ \A u \in Threads : u # t => step'[u] = step[u]
    <3>1. CASE LookUp(t)
      BY <1>0, <3>1 DEF LookUp, Return, Go, Finds, appVars
    <3>2. CASE Inside(t) /\ UNCHANGED <<threadVars, cacheVars, appVars>>
      <4>1. step[t] # "idle" /\ \A u \in Threads : u # t => step'[u] = step[u]
        BY <1>0, <3>2 DEF Inside, Compare, Acquire, Same, Store, Collect, Assign, Read, Go
      <4> QED
        BY <3>2, <4>1 DEF threadVars, appVars
    <3> QED
      BY <1>7, <3>1, <3>2
  <2>2. \A u \in Threads : Frame(u)' = Frame(u)
    BY <2>1 DEF Frame, Stack
  <2> QED
    BY <2>1, <2>2 DEF PathInv
<1> QED
  <2>1. UNCHANGED vars => UNCHANGED <<app, phase, at, step>>
    BY DEF vars, appVars, resolverVars, threadVars
  <2> QED
    BY <1>1, <1>2, <1>3, <1>4, <1>5, <1>6, <1>7, <2>1 DEF Next, Work, OnStart

LEMMA AccountFacts ==
  ASSUME PathsSettle, RequestInv, NEW t \in Threads, at[t] > 0
  PROVE  LET f == Frame(t).file
         IN  /\ Files[f].home = "std" => f \notin app.own
             /\ Files[f].home = "site" => (User(PackageOf(RootFrom(f, {"site"}))) <=> f \in app.own)
             /\ Files[f].home = "elsewhere" =>
                  \A dirs \in SUBSET Dirs : Base(app, phase[t]) \subseteq dirs
                                            => (User(PackageOf(RootFrom(f, dirs))) <=> f \in app.own)
<1>1. at[t] \in DOMAIN Stack(t) /\ phase[t] \in Spans /\ app \in Apps
  BY FrameFacts DEF RequestInv, LookInv, AppInv
<1>2. Frame(t) = app.stacks[phase[t]][at[t]] /\ at[t] \in DOMAIN app.stacks[phase[t]]
  BY <1>1 DEF Frame, Stack
<1> QED
  BY <1>1, <1>2 DEF PathsSettle, Agrees, User

(* A verdict is found, and perhaps the package that it rests on.           *)
LEMMA FindsKeepsRows ==
  ASSUME RequestInv, CacheInv, RowsInv, NEW t \in Threads, at[t] > 0, NEW user \in BOOLEAN, Finds(t, user),
         UNCHANGED <<app, users>>, raced \subseteq raced',
         Frame(t).file \notin raced' => (user <=> Frame(t).file \in app.own),
         \/ packages' = packages
         \/ \E n : /\ StorePackage(Frame(t).file, n)
                   /\ Frame(t).file \notin raced' => (User(n) <=> Frame(t).file \in app.own)
  PROVE  RowsInv'
<1>1. /\ UNCHANGED <<phase, at>> /\ DOMAIN found = Threads
      /\ found' = [found EXCEPT ![t] = IF user THEN "user" ELSE "library"]
  BY DEF Finds, RequestInv, LookInv
<1>2. \A u \in Threads : Frame(u)' = Frame(u)
  BY <1>1 DEF Frame, Stack
<1>3. /\ \A u \in Threads : u # t => found'[u] = found[u]
      /\ found'[t] = "user" <=> user
  BY <1>1
<1>4. (\A n \in DOMAIN users : Right(users[n][1], users[n][2]))'
  BY DEF RowsInv, Right
<1>5. ASSUME NEW u \in Threads, found'[u] # "nothing" PROVE Right(Frame(u).file, found[u] = "user")'
  <2>1. CASE u = t
    BY <1>2, <1>3, <2>1 DEF Right
  <2>2. CASE u # t
    <3>1. Right(Frame(u).file, found[u] = "user")
      BY <1>3, <1>5, <2>2 DEF RowsInv
    <3> QED
      BY <1>2, <1>3, <2>2, <3>1 DEF Right
  <2> QED
    BY <2>1, <2>2
<1>6. ASSUME NEW f \in DOMAIN Files, packages'[f] # -1 PROVE Right(f, User(packages[f]))'
  <2>1. CASE packages'[f] = packages[f]
    <3>1. Right(f, User(packages[f]))
      BY <1>6, <2>1 DEF RowsInv
    <3> QED
      BY <2>1, <3>1 DEF Right, User
  <2>2. CASE packages'[f] # packages[f]
    <3>1. PICK n : /\ StorePackage(Frame(t).file, n)
                   /\ Frame(t).file \notin raced' => (User(n) <=> Frame(t).file \in app.own)
      BY <2>2
    <3>2. packages' = [packages EXCEPT ![Frame(t).file] = n] /\ DOMAIN packages = DOMAIN Files
      BY <2>2, <3>1 DEF StorePackage, CacheInv
    <3>3. f = Frame(t).file /\ packages'[f] = n
      BY <2>2, <3>2
    <3> QED
      BY <3>1, <3>3 DEF Right, User
  <2> QED
    BY <2>1, <2>2
<1> QED
  BY <1>4, <1>5, <1>6 DEF RowsInv

(* The look takes a verdict, after the cache of is_user_code has.          *)
LEMMA JudgedKeepsRows ==
  ASSUME RequestInv, RowsInv, NEW t \in Threads, NEW user \in BOOLEAN, Judged(t, user), UNCHANGED <<app, packages, raced>>,
         \A n \in DOMAIN users' : Right(users'[n][1], users'[n][2])
  PROVE  RowsInv'
<1>1. DOMAIN found = Threads /\ DOMAIN at = Threads
  BY DEF RequestInv, LookInv
<1>2. /\ UNCHANGED phase /\ found'[t] = "nothing"
      /\ \A u \in Threads : u # t => at'[u] = at[u] /\ found'[u] = found[u]
  BY <1>1 DEF Judged
<1>3. ASSUME NEW u \in Threads, found'[u] # "nothing" PROVE Right(Frame(u).file, found[u] = "user")'
  <2>1. u # t
    BY <1>2, <1>3
  <2>2. Frame(u)' = Frame(u)
    BY <1>2, <2>1, OthersLook
  <2>3. Right(Frame(u).file, found[u] = "user")
    BY <1>2, <1>3, <2>1 DEF RowsInv
  <2> QED
    BY <1>2, <2>1, <2>2, <2>3 DEF Right
<1>4. (\A n \in DOMAIN users : Right(users[n][1], users[n][2]))'
  BY DEF Right
<1>5. \A f \in DOMAIN Files : packages'[f] # -1 => Right(f, User(packages[f]))'
  BY DEF RowsInv, Right, User
<1> QED
  BY <1>3, <1>4, <1>5 DEF RowsInv

LEMMA RowsStep == PathsSettle /\ ResolverTypeOK /\ RequestInv /\ CacheInv /\ PathInv /\ RowsInv /\ [Next]_vars => RowsInv'
<1> SUFFICES ASSUME PathsSettle, ResolverTypeOK, RequestInv, CacheInv, PathInv, RowsInv, [Next]_vars PROVE RowsInv'
  OBVIOUS
<1>0. DOMAIN phase = Threads /\ DOMAIN at = Threads /\ DOMAIN found = Threads
  BY DEF RequestInv, LookInv
<1>1. CASE UNCHANGED <<app, cacheVars, phase, at, found>>
  BY <1>1 DEF cacheVars, RowsInv, Right, Frame, Stack, User
<1>2. CASE UNCHANGED vars \/ Register \/ Uninstrument \/ Instrument \/ Withdraw
  <2>1. UNCHANGED <<app, cacheVars, threadVars>>
    BY <1>2 DEF vars, appVars, Register, FlaskRule, FlaskEndpoint, ApiRoute, Route, ConsumerRule, PlainRule, Registers,
                Uninstrument, Instrument, Switch, Withdraw, appVars
  <2> QED
    BY <1>1, <2>1 DEF threadVars
<1>3. ASSUME NEW t \in Threads,
             Arrive(t) \/ StartInner(t) \/ Enter(t) \/ Dispatch(t) \/ Replace(t) \/ Run(t) \/ StartClient(t) \/ Leave(t)
      PROVE  RowsInv'
  <2>1. UNCHANGED <<app, users, packages, raced, found>> /\ at[t] = 0
    BY <1>3 DEF Arrive, StartInner, Enter, Dispatch, Replace, Run, StartClient, Leave, Starts, At, NoLookup, cacheVars, appVars
  <2>2. \A u \in Threads : u # t => phase'[u] = phase[u] /\ at'[u] = at[u]
    BY <1>0, <1>3 DEF Arrive, StartInner, Enter, Dispatch, Replace, Run, StartClient, Leave, Enters, Starts
  <2>3. found[t] = "nothing"
    BY <2>1 DEF RequestInv, LookInv
  <2>4. \A u \in Threads : u # t => Frame(u)' = Frame(u)
    BY <2>1, <2>2, OthersLook
  <2>5. \A u \in Threads : found[u] # "nothing" => Right(Frame(u).file, found[u] = "user") /\ Frame(u)' = Frame(u)
    BY <2>3, <2>4 DEF RowsInv
  <2> QED
    BY <2>1, <2>5 DEF RowsInv, Right, User
<1>4. ASSUME NEW t \in Threads, HitUser(t) PROVE RowsInv'
  <2>1. \A m \in DOMAIN users' : Among(users, users'[m])
    <3>1. PICK n \in Cached(Frame(t).file) : users' = Append(Without(n), users[n])
      BY <1>4 DEF HitUser
    <3>2. n \in DOMAIN users
      BY DEF Cached
    <3> QED
      BY <3>1, <3>2, HitUsers DEF CacheInv
  <2>2. \A n \in DOMAIN users' : Right(users'[n][1], users'[n][2])
    BY <2>1 DEF Among, RowsInv
  <2>3. PICK n \in Cached(Frame(t).file) : Judged(t, users[n][2])
    BY <1>4 DEF HitUser
  <2>4. users[n][2] \in BOOLEAN
    <3>1. n \in DOMAIN users /\ users \in Seq(Rows)
      BY DEF Cached, CacheInv, UsersInv
    <3>2. users[n] \in Rows
      BY <3>1, ElementOfSeq, LenProperties
    <3> QED
      BY <3>2 DEF Rows
  <2>5. UNCHANGED <<app, packages, raced>>
    BY <1>4 DEF HitUser, appVars
  <2> QED
    BY <2>2, <2>3, <2>4, <2>5, JudgedKeepsRows
<1>5. ASSUME NEW t \in Threads, StoreUser(t) PROVE RowsInv'
  <2> DEFINE user == found[t] = "user"
  <2>1. user \in BOOLEAN /\ Judged(t, user) /\ UNCHANGED <<app, packages, raced>> /\ found[t] # "nothing"
    BY <1>5 DEF StoreUser, appVars
  <2>2. Right(Frame(t).file, user)
    BY <2>1 DEF RowsInv
  <2>3. Frame(t).file \in DOMAIN Files
    BY <2>1, FrameFacts DEF RequestInv, LookInv
  <2>4. \A m \in DOMAIN users' : users'[m] = <<Frame(t).file, user>> \/ Among(users, users'[m])
    <3>1. CASE Cached(Frame(t).file) # {}
      <4>1. users' = users
        BY <1>5, <3>1 DEF StoreUser
      <4> QED
        BY <4>1 DEF Among
    <3>2. CASE Cached(Frame(t).file) = {}
      <4> DEFINE f == Frame(t).file
      <4>1. users' = Append(IF Len(users) = UserSize THEN Tail(users) ELSE users, <<f, user>>)
        BY <1>5, <3>2 DEF StoreUser
      <4>2. f \in DOMAIN Files /\ user \in BOOLEAN /\ Cached(f) = {} /\ UsersInv(users)
        BY <2>1, <2>3, <3>2 DEF CacheInv
      <4>3. f = Frame(t).file
        OBVIOUS
      <4> HIDE DEF f, user
      <4>4. \A m \in DOMAIN users' : users'[m] = <<f, user>> \/ Among(users, users'[m])
        BY <4>1, <4>2, StoreUsers
      <4> QED
        BY <4>3, <4>4
    <3> QED
      BY <3>1, <3>2
  <2> HIDE DEF user
  <2>5. ASSUME NEW m \in DOMAIN users' PROVE Right(users'[m][1], users'[m][2])
    <3>1. CASE users'[m] = <<Frame(t).file, user>>
      BY <2>2, <3>1
    <3>2. CASE Among(users, users'[m])
      BY <3>2 DEF Among, RowsInv
    <3> QED
      BY <2>4, <3>1, <3>2
  <2> QED
    BY <2>1, <2>5, JudgedKeepsRows
<1>6. ASSUME NEW t \in Threads, FindStandard(t) \/ HitPackage(t) \/ FindSite(t) PROVE RowsInv'
  <2>1. at[t] > 0 /\ UNCHANGED <<app, users, raced>>
    BY <1>6 DEF FindStandard, HitPackage, FindSite, Unjudged, Looking, cacheVars, appVars
  <2>2. Frame(t).file \in DOMAIN Files
    BY <2>1, FrameFacts
  <2>3. CASE FindStandard(t)
    <3>1. Frame(t).file \notin app.own
      BY <2>1, <2>3, AccountFacts DEF FindStandard
    <3>2. Finds(t, FALSE) /\ packages' = packages
      BY <2>3 DEF FindStandard, cacheVars
    <3> QED
      BY <2>1, <3>1, <3>2, FindsKeepsRows
  <2>4. CASE HitPackage(t)
    <3> DEFINE user == User(packages[Frame(t).file])
    <3>1. Finds(t, user) /\ packages' = packages /\ packages[Frame(t).file] # -1
      BY <2>4 DEF HitPackage, cacheVars
    <3>2. user \in BOOLEAN
      BY DEF User
    <3>3. Right(Frame(t).file, user)
      BY <2>2, <3>1 DEF RowsInv
    <3> HIDE DEF user
    <3> QED
      BY <2>1, <3>1, <3>2, <3>3, FindsKeepsRows DEF Right
  <2>5. CASE FindSite(t)
    <3> DEFINE n == PackageOf(RootFrom(Frame(t).file, {"site"}))
    <3>1. StorePackage(Frame(t).file, n) /\ Finds(t, User(n)) /\ Files[Frame(t).file].home = "site"
      BY <2>5 DEF FindSite
    <3>2. User(n) <=> Frame(t).file \in app.own
      BY <2>1, <3>1, AccountFacts
    <3>3. User(n) \in BOOLEAN
      BY DEF User
    <3> HIDE DEF n
    <3> QED
      BY <2>1, <3>1, <3>2, <3>3, FindsKeepsRows
  <2> QED
    BY <1>6, <2>3, <2>4, <2>5
<1>7. ASSUME NEW t \in Threads, LookUp(t) PROVE RowsInv'
  <2> DEFINE n == PackageOf(RootFrom(Frame(t).file, paths[t]))
  <2>1. /\ StorePackage(Frame(t).file, n) /\ Finds(t, User(n)) /\ step[t] # "idle" /\ UNCHANGED <<app, users>>
        /\ raced' = IF known[t] \subseteq paths[t] /\ Base(app, phase[t]) \subseteq known[t]
                      THEN raced ELSE raced \cup {Frame(t).file}
    BY <1>7 DEF LookUp, Return, Go, appVars
  <2>2. at[t] > 0
    BY <2>1 DEF RequestInv, LookInv
  <2>3. Files[Frame(t).file].home = "elsewhere" /\ paths[t] \in SUBSET Dirs
    BY <2>1 DEF PathInv, ResolverTypeOK
  <2>4. Frame(t).file \notin raced' => (User(n) <=> Frame(t).file \in app.own)
    <3>1. CASE known[t] \subseteq paths[t] /\ Base(app, phase[t]) \subseteq known[t]
      <4>1. Base(app, phase[t]) \subseteq paths[t]
        BY <3>1
      <4> QED
        BY <2>2, <2>3, <4>1, AccountFacts
    <3>2. CASE ~(known[t] \subseteq paths[t] /\ Base(app, phase[t]) \subseteq known[t])
      BY <2>1, <3>2
    <3> QED
      BY <3>1, <3>2
  <2>5. User(n) \in BOOLEAN
    BY DEF User
  <2> HIDE DEF n
  <2> QED
    BY <2>1, <2>2, <2>4, <2>5, FindsKeepsRows
<1>8. ASSUME NEW t \in Threads, AskPaths(t) \/ (Inside(t) /\ UNCHANGED <<threadVars, cacheVars, appVars>>) PROVE RowsInv'
  <2>1. UNCHANGED <<app, cacheVars, threadVars>>
    BY <1>8 DEF AskPaths, appVars
  <2> QED
    BY <1>1, <2>1 DEF threadVars
<1> QED
  BY <1>2, <1>3, <1>4, <1>5, <1>6, <1>7, <1>8 DEF Next, Work, OnStart

(* A look of MaxFrames frames that are not the user's has nothing to say,  *)
(* and one that meets a frame of the user's stops at the first.            *)
LEMMA ScanEnds ==
  ASSUME RequestInv, NEW t \in Threads, phase[t] = "client", at[t] > 0,
         \A n \in 1..(at[t] - 1) : app.stacks.client[n].file \notin app.own
  PROVE  /\ Frame(t).file \in app.own => FirstUser(app.stacks.client) = FrameName(Frame(t))
         /\ Frame(t).file \notin app.own =>
              /\ at[t] = Last(t) => FirstUser(app.stacks.client) = Unnamed
              /\ \A n \in 1..at[t] : app.stacks.client[n].file \notin app.own
<1> DEFINE s == app.stacks["client"]
           theirs == { n \in DOMAIN s : n <= MaxFrames /\ s[n].file \in app.own }
<1>1. /\ at[t] \in DOMAIN s /\ at[t] \in Nat /\ at[t] <= Top(app, "client") /\ Last(t) = Top(app, "client")
      /\ Top(app, "client") <= MaxFrames /\ "client" \in Spans
  BY FrameFacts DEF RequestInv, LookInv, Stack, Spans
<1>2. Len(s) \in Nat /\ DOMAIN s = 1..Len(s) /\ MaxFrames \in Nat
  BY <1>1, CorrelationAssumption DEF RequestInv, AppInv
<1>3. Frame(t) = s[at[t]] /\ s = app.stacks.client
  BY DEF Frame, Stack
<1>4. FirstUser(s) = IF theirs = {} THEN Unnamed ELSE FrameName(s[First(theirs)])
  BY DEF FirstUser
<1>5. Top(app, "client") = IF Len(s) < MaxFrames THEN Len(s) ELSE MaxFrames
  BY DEF Top
<1> HIDE DEF s
<1>6. theirs \subseteq Nat /\ \A n \in theirs : n >= at[t]
  BY <1>1, <1>2, <1>3
<1>7. ASSUME Frame(t).file \in app.own PROVE FirstUser(s) = FrameName(Frame(t))
  <2>1. at[t] \in theirs
    BY <1>1, <1>2, <1>3, <1>5, <1>7
  <2> HIDE DEF theirs
  <2>2. First(theirs) \in theirs /\ First(theirs) <= at[t] /\ First(theirs) >= at[t] /\ First(theirs) \in Nat
    BY <1>6, <2>1, FirstFacts
  <2>3. First(theirs) = at[t]
    BY <1>1, <2>2
  <2> QED
    BY <1>3, <1>4, <2>1, <2>3
<1>8. ASSUME Frame(t).file \notin app.own
      PROVE  \A n \in 1..at[t] : s[n].file \notin app.own
  BY <1>1, <1>3, <1>8
<1>9. ASSUME Frame(t).file \notin app.own, at[t] = Last(t) PROVE FirstUser(s) = Unnamed
  <2>1. theirs = {}
    <3>1. ASSUME NEW n \in theirs PROVE FALSE
      <4>1. n \in 1..at[t]
        BY <1>1, <1>2, <1>5, <1>9
      <4> QED
        BY <1>8, <1>9, <4>1
    <3> QED
      BY <3>1
  <2> QED
    BY <1>4, <2>1
<1> QED
  BY <1>3, <1>7, <1>8, <1>9

LEMMA ScanKeeps ==
  ASSUME NEW t \in Threads, Scanned(t), UNCHANGED app, raced \subseteq raced',
         \/ phase'[t] \notin {"client", "over"}
         \/ /\ code'[t]["client"] = code[t]["client"]
            /\ \/ phase'[t] = phase[t] /\ at'[t] = at[t]
               \/ phase[t] = "client" /\ phase'[t] = "over" /\ at[t] = 0 /\ at'[t] = 0
  PROVE  Scanned(t)'
<1>1. Clean' => Clean
  BY DEF Clean
<1>2. FirstUser(app.stacks.client)' = FirstUser(app.stacks.client)
  BY DEF FirstUser
<1>3. CASE phase'[t] \notin {"client", "over"}
  BY <1>3 DEF Scanned
<1>4. CASE code'[t]["client"] = code[t]["client"] /\ phase'[t] = phase[t] /\ at'[t] = at[t]
  BY <1>1, <1>2, <1>4 DEF Scanned, Unnamed
<1>5. CASE code'[t]["client"] = code[t]["client"] /\ phase[t] = "client" /\ phase'[t] = "over" /\ at[t] = 0 /\ at'[t] = 0
  BY <1>1, <1>2, <1>5 DEF Scanned, Unnamed
<1> QED
  BY <1>3, <1>4, <1>5

LEMMA ScanJudged ==
  ASSUME RequestInv, NEW t \in Threads, Scanned(t), NEW user \in BOOLEAN, at[t] > 0, Judged(t, user),
         Right(Frame(t).file, user), UNCHANGED <<app, raced>>
  PROVE  Scanned(t)'
<1>1. DOMAIN at = Threads /\ DOMAIN code = Threads /\ DOMAIN code[t] = Spans /\ at[t] \in Nat /\ phase[t] \in Spans
  BY DEF RequestInv, LookInv
<1>2. phase' = phase /\ at'[t] = IF user \/ at[t] = Last(t) THEN 0 ELSE at[t] + 1
  BY <1>1 DEF Judged
<1>3. CASE phase[t] # "client"
  BY <1>1, <1>2, <1>3 DEF Scanned, Spans
<1>4. CASE phase[t] = "client"
  <2>1. code'[t]["client"] = IF user THEN FrameName(Frame(t)) ELSE code[t]["client"]
    <3>1. "client" \in Spans
      BY <1>1, <1>4
    <3>2. CASE user
      <4>1. code' = [code EXCEPT ![t][phase[t]] = FrameName(Frame(t))]
        BY <3>2 DEF Judged
      <4> QED
        BY <1>1, <1>4, <3>2, <4>1
    <3>3. CASE ~user
      BY <3>3 DEF Judged
    <3> QED
      BY <3>2, <3>3
  <2>2. code[t]["client"] = Unnamed /\ (Clean => \A n \in 1..(at[t] - 1) : app.stacks.client[n].file \notin app.own)
    BY <1>4 DEF Scanned
  <2>3. Clean' = Clean /\ FirstUser(app.stacks.client)' = FirstUser(app.stacks.client)
    BY DEF Clean, FirstUser
  <2>4. Clean => Frame(t).file \notin raced
    <3>1. at[t] \in DOMAIN app.stacks.client /\ Frame(t) = app.stacks.client[at[t]]
      BY <1>4, FrameFacts DEF Stack, Frame
    <3> QED
      BY <3>1 DEF Clean
  <2>5. Clean => (user <=> Frame(t).file \in app.own)
    BY <2>4 DEF Right
  <2>6. Clean => /\ user => FirstUser(app.stacks.client) = FrameName(Frame(t))
                 /\ ~user => /\ at[t] = Last(t) => FirstUser(app.stacks.client) = Unnamed
                             /\ \A n \in 1..at[t] : app.stacks.client[n].file \notin app.own
    BY <1>4, <2>2, <2>5, ScanEnds
  <2>7. CASE user
    BY <1>2, <2>1, <2>3, <2>6, <2>7 DEF Scanned
  <2>8. CASE ~user /\ at[t] = Last(t)
    BY <1>2, <2>1, <2>2, <2>3, <2>6, <2>8 DEF Scanned
  <2>9. CASE ~user /\ at[t] # Last(t)
    <3>1. at'[t] = at[t] + 1 /\ at'[t] - 1 = at[t] /\ at'[t] # 0
      BY <1>1, <1>2, <2>9
    <3> QED
      BY <1>2, <1>4, <2>1, <2>2, <2>3, <2>6, <2>9, <3>1 DEF Scanned, Unnamed
  <2> QED
    BY <2>7, <2>8, <2>9
<1> QED
  BY <1>3, <1>4

LEMMA ScanStep == RequestInv /\ CacheInv /\ RowsInv /\ ScanInv /\ [Next]_vars => ScanInv'
<1> SUFFICES ASSUME RequestInv, CacheInv, RowsInv, ScanInv, [Next]_vars PROVE ScanInv'
  OBVIOUS
<1>0. /\ DOMAIN phase = Threads /\ DOMAIN at = Threads /\ DOMAIN code = Threads
      /\ \A u \in Threads : DOMAIN code[u] = Spans /\ Scanned(u)
      /\ "client" \in Spans
  BY DEF RequestInv, LookInv, Spans, ScanInv
<1>1. CASE UNCHANGED app /\ raced \subseteq raced' /\ UNCHANGED <<phase, at, code>>
  BY <1>0, <1>1, ScanKeeps DEF ScanInv
<1>2. CASE UNCHANGED vars \/ Register \/ Uninstrument \/ Instrument \/ Withdraw
  <2>1. UNCHANGED <<app, cacheVars, threadVars>>
    BY <1>2 DEF vars, appVars, Register, FlaskRule, FlaskEndpoint, ApiRoute, Route, ConsumerRule, PlainRule, Registers,
                Uninstrument, Instrument, Switch, Withdraw, appVars
  <2> QED
    BY <1>1, <2>1 DEF threadVars, cacheVars
<1>3. ASSUME NEW t \in Threads, Scanned(t)', UNCHANGED <<app, raced>>,
             \A u \in Threads : u # t => phase'[u] = phase[u] /\ at'[u] = at[u] /\ code'[u] = code[u]
      PROVE  ScanInv'
  <2>1. ASSUME NEW u \in Threads, u # t PROVE Scanned(u)'
    BY <1>0, <1>3, <2>1, ScanKeeps
  <2> QED
    BY <1>3, <2>1 DEF ScanInv
<1>4. ASSUME NEW t \in Threads,
             Arrive(t) \/ StartInner(t) \/ Enter(t) \/ Dispatch(t) \/ Replace(t) \/ Run(t) \/ StartClient(t) \/ Leave(t)
      PROVE  ScanInv'
  <2>1. UNCHANGED <<app, raced>> /\ at[t] = 0
    BY <1>4 DEF Arrive, StartInner, Enter, Dispatch, Replace, Run, StartClient, Leave, At, NoLookup, cacheVars, appVars
  <2>2. \A u \in Threads : u # t => at'[u] = at[u]
    BY <1>0, <1>4 DEF Arrive, StartInner, Enter, Dispatch, Replace, Run, StartClient, Leave, Starts
  <2>3. \A u \in Threads : u # t => phase'[u] = phase[u] /\ code'[u] = code[u]
    BY <1>4, CodeFacts DEF Work
  <2>4. Scanned(t)'
    <3>1. CASE Arrive(t) \/ StartInner(t) \/ Enter(t) \/ Dispatch(t) \/ Replace(t) \/ Run(t)
      <4>1. phase'[t] \notin {"client", "over"}
        BY <1>0, <3>1 DEF Arrive, StartInner, Enter, Dispatch, Replace, Run, Starts, Enters
      <4> QED
        BY <1>0, <2>1, <4>1, ScanKeeps
    <3>2. CASE StartClient(t)
      <4>1. ShouldProcess(Span("client")) /\ Span("client").code = Unnamed
        BY DEF ShouldProcess, Span
      <4>2. Starts(t, "client")
        BY <3>2 DEF StartClient
      <4>3. at'[t] = 1 /\ code'[t]["client"] = Unnamed
        BY <1>0, <4>1, <4>2 DEF Starts
      <4> QED
        BY <4>3 DEF Scanned, Unnamed
    <3>3. CASE Leave(t)
      <4>1. phase[t] = "client" /\ phase'[t] = "over" /\ at' = at
        BY <1>0, <3>3 DEF Leave, At, Enters
      <4>2. code'[t]["client"] = code[t]["client"]
        BY <1>0, <3>3 DEF Leave, Names, Current
      <4> QED
        BY <1>0, <2>1, <4>1, <4>2, ScanKeeps
    <3> QED
      BY <1>4, <3>1, <3>2, <3>3
  <2> QED
    BY <1>3, <2>1, <2>2, <2>3, <2>4
<1>5. ASSUME NEW t \in Threads, HitUser(t) \/ StoreUser(t) PROVE ScanInv'
  <2>1. UNCHANGED <<app, raced>> /\ at[t] > 0
    BY <1>5, OnStartLooks DEF HitUser, StoreUser, OnStart, appVars
  <2>2. PICK user \in BOOLEAN : Judged(t, user) /\ Right(Frame(t).file, user)
    <3>1. CASE HitUser(t)
      <4>1. PICK n \in Cached(Frame(t).file) : Judged(t, users[n][2])
        BY <3>1 DEF HitUser
      <4>2. n \in DOMAIN users /\ users[n][1] = Frame(t).file
        BY DEF Cached
      <4>3. users[n][2] \in BOOLEAN
        <5>1. users[n] \in Rows
          BY <4>2, ElementOfSeq, LenProperties DEF CacheInv, UsersInv
        <5> QED
          BY <5>1 DEF Rows
      <4>4. Right(Frame(t).file, users[n][2])
        BY <4>2 DEF RowsInv
      <4> QED
        BY <4>1, <4>3, <4>4
    <3>2. CASE StoreUser(t)
      <4>1. found[t] # "nothing" /\ Judged(t, found[t] = "user")
        BY <3>2 DEF StoreUser
      <4>2. Right(Frame(t).file, found[t] = "user") /\ (found[t] = "user") \in BOOLEAN
        BY <4>1 DEF RowsInv
      <4> QED
        BY <4>1, <4>2
    <3> QED
      BY <1>5, <3>1, <3>2
  <2>3. Scanned(t)'
    BY <1>0, <2>1, <2>2, ScanJudged
  <2>4. \A u \in Threads : u # t => phase'[u] = phase[u] /\ at'[u] = at[u] /\ code'[u] = code[u]
    BY <1>0, <2>2 DEF Judged
  <2> QED
    BY <1>3, <2>1, <2>3, <2>4
<1>6. ASSUME NEW t \in Threads,
             FindStandard(t) \/ HitPackage(t) \/ FindSite(t) \/ AskPaths(t) \/ LookUp(t)
             \/ (Inside(t) /\ UNCHANGED <<threadVars, cacheVars, appVars>>)
      PROVE  ScanInv'
  <2>1. UNCHANGED app /\ raced \subseteq raced' /\ UNCHANGED <<phase, at, code>>
    BY <1>6 DEF FindStandard, HitPackage, FindSite, AskPaths, LookUp, Finds, threadVars, cacheVars, appVars
  <2> QED
    BY <1>1, <2>1
<1> QED
  BY <1>2, <1>4, <1>5, <1>6 DEF Next, Work, OnStart

(* Client spans bear the name of the first user frame, if for each list of *)
(* directories that a look may be given the classification agrees with the *)
(* user's account: the two caches, whatever they evict or keep and whoever *)
(* fills them, and the lists of other threads add no error of their own.   *)
THEOREM UserFramesNamed == ASSUME PathsSettle PROVE Spec => []UserFrameNamed
<1> DEFINE I == PathInv /\ RowsInv /\ ScanInv
<1>1. Init => I
  <2> SUFFICES ASSUME Init PROVE I
    OBVIOUS
  <2>1. PathInv
    BY DEF Init, ResolverInit, PathInv
  <2>2. RowsInv
    <3>1. DOMAIN users = {}
      BY EmptySeq, LenProperties DEF Init
    <3> QED
      BY <3>1 DEF Init, RowsInv
  <2>3. ScanInv
    BY DEF Init, ScanInv, Scanned
  <2> QED
    BY <2>1, <2>2, <2>3
<1>2. ResolverInv /\ TInv /\ I /\ [Next]_vars => I'
  <2> SUFFICES ASSUME ResolverInv, TInv, I, [Next]_vars PROVE I'
    OBVIOUS
  <2>1. RequestInv /\ CacheInv /\ ResolverTypeOK
    BY DEF TInv, RequestInv, ResolverInv
  <2> QED
    BY <2>1, PathStep, RowsStep, ScanStep
<1>3. TInv /\ I => UserFrameNamed
  <2> SUFFICES ASSUME TInv, I, NEW t \in Threads, phase[t] = "over", Clean
               PROVE  code[t].client = FirstUser(app.stacks.client)
    BY DEF UserFrameNamed, Clean
  <2>1. at[t] = 0
    BY DEF TInv, LookInv, Spans
  <2> QED
    BY <2>1 DEF ScanInv, Scanned
<1> HIDE DEF I
<1> QED
  BY <1>1, <1>2, <1>3, TypesHold, PTL DEF Spec
=============================================================================
