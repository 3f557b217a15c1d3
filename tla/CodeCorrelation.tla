-------------------------- MODULE CodeCorrelation ---------------------------
(***************************************************************************)
(* Code attributes of spans.  An application registers its view with a     *)
(* patched framework; then threads answer a request each: they start the   *)
(* span of the instrumentation, perhaps a span of their own around the     *)
(* handler, run the handler and start a client span.  The                  *)
(* CodeAttributesSpanProcessor names a span by the first frame of user     *)
(* code on the stack, the patches name one by the handler.                 *)
(*                                                                         *)
(* Only recorded spans are modelled: on_start is not called for others,    *)
(* and each patch leaves them alone.                                       *)
(***************************************************************************)
EXTENDS PathResolver, PackageClassifier

CONSTANTS Apps,
          UserSize,        \* is_user_code keeps 1024 results, and resolve_package_from_filename all
          MaxFrames,       \* MAX_STACK_FRAMES
          MaxSwitches      \* bound: how often instrumentation is removed or put back

Spans == {"entry", "inner", "client"}    \* of a request

(* on_start is itself on the stack.                                        *)
ASSUME CorrelationAssumption ==
  /\ UserSize \in Nat \ {0} /\ MaxFrames \in Nat \ {0} /\ MaxSwitches \in Nat
  /\ IsFiniteSet(Threads)
  /\ Len(Distributions) \in Nat /\ DOMAIN Distributions = 1..Len(Distributions)
  /\ \A a \in Apps :
       /\ a.imports \subseteq Dirs /\ a.removes \in BOOLEAN /\ Len(a.rules) \in Nat \ {0}
       /\ \A p \in Spans : /\ Len(a.stacks[p]) \in Nat \ {0} /\ DOMAIN a.stacks[p] = 1..Len(a.stacks[p])
                          /\ \A n \in DOMAIN a.stacks[p] : a.stacks[p][n].file \in DOMAIN Files

VARIABLES
  app,         \* chosen at first
  registered,  \* how many of its rules are
  view,        \* what the framework calls, see Raw
  made,        \* wrappers made by record_code_attributes
  refused,     \* the framework did not accept a rule
  hooked,      \* the methods of the framework are replaced
  switches,
  users,       \* the cache of is_user_code: <<file, is user code>>, the last used last
  packages,    \* the cache of resolve_package_from_filename: file -> package, -1 if absent
  phase,       \* of the request of each thread
  at,          \* the frame that on_start looks at, 0 outside of it
  found,       \* its verdict on that frame
  code,        \* code.function.name of the spans of each request
  mine,        \* the view that a thread is about to put in view_functions
  raced        \* files looked up in a list that lacked a directory of the hash,
               \* or while sys.path lacked one that the program had put there

appVars    == <<app, registered, view, made, refused, hooked, switches>>
threadVars == <<phase, at, found, code, mine>>
cacheVars  == <<users, packages, raced>>
vars == <<resolverVars, appVars, threadVars, cacheVars>>

Unnamed == <<>>      \* names are sequences of their parts
NoView  == [id |-> -1, layers |-> 0, marked |-> FALSE]

(* The function of the application itself; wrappers have higher numbers.   *)
Raw == [id |-> 0, layers |-> 0, marked |-> FALSE]

Init ==
  /\ ResolverInit
  /\ app \in Apps
  /\ registered = 0 /\ view = NoView /\ made = 0 /\ refused = FALSE
  /\ hooked = TRUE /\ switches = 0
  /\ users = <<>> /\ packages = [f \in DOMAIN Files |-> -1] /\ raced = {}
  /\ phase = [t \in Threads |-> "none"]
  /\ at = [t \in Threads |-> 0]
  /\ found = [t \in Threads |-> "nothing"]
  /\ code = [t \in Threads |-> [span \in Spans |-> Unnamed]]
  /\ mine = [t \in Threads |-> NoView]

-----------------------------------------------------------------------------
(* Callables and their registration.                                       *)

(* get_callable_fullname.  Partials and functions with a __wrapped__ lead  *)
(* to their `target`, the class of a Django view to the method that        *)
(* answers the request.                                                    *)
FullName(callable) ==
  IF callable.form \in {"partial", "wrapped", "class"} THEN callable.target ELSE callable.name

ASSUME NamesAssumption == \A a \in Apps : FullName(a.view) # Unnamed

(* record_code_attributes leaves anything but functions and methods alone. *)
Decoratable == app.view.form \in {"function", "wrapped", "method"}

(* _decorate_view_func and its twins.                                      *)
Decorate(v) ==
  IF v.marked THEN v
  ELSE IF Decoratable THEN [id |-> made + 1, layers |-> v.layers + 1, marked |-> TRUE]
  ELSE [v EXCEPT !.marked = TRUE]

Rule == app.rules[registered + 1]

Registers(v) ==
  /\ view' = v
  /\ made' = IF v.id > made THEN v.id ELSE made
  /\ registered' = registered + 1
  /\ UNCHANGED <<app, hooked, switches, resolverVars, threadVars, cacheVars>>

Decorated(v) == IF hooked THEN Decorate(v) ELSE v

(* Flask.add_url_rule.  Flask compares the function with the one that the  *)
(* endpoint has, and raises if it is another.                              *)
FlaskRule ==
  LET new == Decorated(Raw)
  IN  /\ app.framework = "flask" /\ Rule = "rule"
      /\ refused' = (view # NoView /\ view.id # new.id)
      /\ Registers(IF refused' THEN view ELSE new)

(* A function that is put in view_functions later, past add_url_rule.      *)
FlaskEndpoint ==
  /\ app.framework = "flask" /\ Rule = "endpoint"
  /\ Registers(Raw)
  /\ UNCHANGED refused

(* APIRouter.add_api_route of FastAPI; include_router calls it for the     *)
(* routes of another router, with the endpoints that they have by then.    *)
ApiRoute ==
  /\ app.framework = "fastapi"
  /\ Registers(Decorated(IF Rule = "include" THEN view ELSE Raw))
  /\ UNCHANGED refused

(* Route.__init__ of Starlette.                                            *)
Route ==
  /\ app.framework = "starlette"
  /\ Registers(Decorated(Raw))
  /\ UNCHANGED refused

(* CallbackDecorator.decorate of aio_pika: no mark, no way back.           *)
ConsumerRule ==
  /\ app.framework = "aio_pika"
  /\ LET new == Decorate(Raw)
     IN  Registers([id |-> new.id, layers |-> new.layers, marked |-> FALSE])
  /\ UNCHANGED refused

(* Frameworks whose patches act on each request.                           *)
PlainRule ==
  /\ app.framework \in {"django", "drf", "celery", "pika"}
  /\ Registers(Raw)
  /\ UNCHANGED refused

Register ==
  /\ registered < Len(app.rules) /\ ~refused
  /\ FlaskRule \/ FlaskEndpoint \/ ApiRoute \/ Route \/ ConsumerRule \/ PlainRule

(* patched_uninstrument puts the methods of the framework back, and        *)
(* patched_instrument replaces them again.  They start from the original   *)
(* methods that they kept, so that the methods are never wrapped twice.    *)
Switch(on) ==
  /\ app.framework \in {"flask", "fastapi", "starlette", "django"}
  /\ switches < MaxSwitches
  /\ hooked = ~on
  /\ hooked' = on
  /\ switches' = switches + 1
  /\ UNCHANGED <<app, registered, view, made, refused, resolverVars, threadVars, cacheVars>>

Uninstrument == Switch(FALSE)
Instrument   == Switch(TRUE)

-----------------------------------------------------------------------------
(* on_start.                                                               *)

Span(which) ==
  CASE which = "entry"  -> [kind |-> app.kind,   library |-> TRUE,  code |-> Unnamed]
    [] which = "inner"  -> [kind |-> "INTERNAL", library |-> FALSE, code |-> app.preset]
    [] which = "client" -> [kind |-> "CLIENT",   library |-> TRUE,  code |-> Unnamed]

ShouldProcess(span) == ~(span.kind \in {"SERVER", "INTERNAL"} /\ span.library) /\ span.code = Unnamed

(* The start of a span, which becomes the phase of the request.            *)
Starts(t, which) ==
  /\ phase' = [phase EXCEPT ![t] = which]
  /\ code' = [code EXCEPT ![t][which] = Span(which).code]
  /\ at' = [at EXCEPT ![t] = IF ShouldProcess(Span(which)) THEN 1 ELSE 0]
  /\ UNCHANGED <<found, mine>>

Stack(t) == app.stacks[phase[t]]
Frame(t) == Stack(t)[at[t]]

(* Mutant: every frame is looked at.                                       *)
LastUnbounded(t) == Len(Stack(t))

Last(t) == IF Len(Stack(t)) < MaxFrames THEN Len(Stack(t)) ELSE MaxFrames

(* get_function_fullname_from_frame: the class of `self`, if there is one. *)
FrameName(frame) ==
  IF frame.self = "" THEN <<frame.module, frame.name>> ELSE <<frame.module, frame.self, frame.name>>

(* The frame is judged: name the span, or go on to the caller's frame.     *)
Judged(t, user) ==
  /\ at' = [at EXCEPT ![t] = IF user \/ @ = Last(t) THEN 0 ELSE @ + 1]
  /\ code' = IF user THEN [code EXCEPT ![t][phase[t]] = FrameName(Frame(t))] ELSE code
  /\ found' = [found EXCEPT ![t] = "nothing"]
  /\ UNCHANGED <<phase, mine>>

Cached(f)    == { n \in DOMAIN users : users[n][1] = f }
Without(n)   == SubSeq(users, 1, n - 1) \o SubSeq(users, n + 1, Len(users))
Looking(t)   == at[t] > 0 /\ step[t] = "idle" /\ found[t] = "nothing"
Unjudged(t)  == Looking(t) /\ Cached(Frame(t).file) = {}
Finds(t, user) == found' = [found EXCEPT ![t] = IF user THEN "user" ELSE "library"] /\ UNCHANGED <<phase, at, code, mine>>

User(n) == ~ThirdPartyPackage(n, app.config)

HitUser(t) ==
  /\ Looking(t)
  /\ \E n \in Cached(Frame(t).file) :
       /\ Judged(t, users[n][2])
       /\ users' = Append(Without(n), users[n])
  /\ UNCHANGED <<packages, raced, resolverVars, appVars>>

FindStandard(t) ==
  /\ Unjudged(t) /\ Files[Frame(t).file].home = "std"
  /\ Finds(t, FALSE)
  /\ UNCHANGED <<cacheVars, resolverVars, appVars>>

HitPackage(t) ==
  /\ Unjudged(t) /\ packages[Frame(t).file] # -1
  /\ Finds(t, User(packages[Frame(t).file]))
  /\ UNCHANGED <<cacheVars, resolverVars, appVars>>

(* The first store of a file stays.                                        *)
StorePackage(f, n) == packages' = IF packages[f] = -1 THEN [packages EXCEPT ![f] = n] ELSE packages

(* A file of site-packages needs no sys.path.                              *)
FindSite(t) ==
  LET f == Frame(t).file
      n == PackageOf(RootFrom(f, {"site"}))
  IN  /\ Unjudged(t) /\ Files[f].home = "site" /\ packages[f] = -1
      /\ StorePackage(f, n)
      /\ Finds(t, User(n))
      /\ UNCHANGED <<users, raced, resolverVars, appVars>>

AskPaths(t) ==
  /\ Unjudged(t) /\ Files[Frame(t).file].home = "elsewhere" /\ packages[Frame(t).file] = -1
  /\ Ask(t)
  /\ UNCHANGED <<threadVars, cacheVars, appVars>>

(* What the program has put in sys.path when a span starts.                *)
Base(a, p) == FirstPath \cup IF p = "client" THEN a.imports ELSE {}

LookUp(t) ==
  LET f == Frame(t).file
      n == PackageOf(RootFrom(f, paths[t]))
  IN  /\ Return(t)
      /\ StorePackage(f, n)
      /\ Finds(t, User(n))
      /\ raced' = IF known[t] \subseteq paths[t] /\ Base(app, phase[t]) \subseteq known[t]
                    THEN raced ELSE raced \cup {f}
      /\ UNCHANGED <<users, appVars>>

(* Mutant: the cache has no bound.                                         *)
StoreUserUnbounded(t) ==
  LET f == Frame(t).file
  IN  /\ found[t] # "nothing"
      /\ users' = IF Cached(f) = {} THEN Append(users, <<f, found[t] = "user">>) ELSE users
      /\ Judged(t, found[t] = "user")
      /\ UNCHANGED <<packages, raced, resolverVars, appVars>>

StoreUser(t) ==
  LET f    == Frame(t).file
      room == IF Len(users) = UserSize THEN Tail(users) ELSE users
  IN  /\ found[t] # "nothing"
      /\ users' = IF Cached(f) = {} THEN Append(room, <<f, found[t] = "user">>) ELSE users
      /\ Judged(t, found[t] = "user")
      /\ UNCHANGED <<packages, raced, resolverVars, appVars>>

OnStart(t) ==
  \/ HitUser(t) \/ FindStandard(t) \/ HitPackage(t) \/ FindSite(t) \/ AskPaths(t) \/ LookUp(t) \/ StoreUser(t)
  \/ Inside(t) /\ UNCHANGED <<threadVars, cacheVars, appVars>>

-----------------------------------------------------------------------------
(* A request.                                                              *)

At(t, p) == phase[t] = p /\ at[t] = 0
Current  == IF app.inner THEN "inner" ELSE "entry"

Names(t, span, name) == code' = [code EXCEPT ![t][span] = name]
Enters(t, p) == phase' = [phase EXCEPT ![t] = p]
NoLookup     == UNCHANGED <<resolverVars, cacheVars>>

Arrive(t) ==
  /\ At(t, "none") /\ registered = Len(app.rules) /\ ~refused
  /\ Starts(t, "entry")
  /\ UNCHANGED appVars /\ NoLookup

StartInner(t) ==
  /\ At(t, "entry") /\ app.inner
  /\ Starts(t, "inner")
  /\ UNCHANGED appVars /\ NoLookup

(* The patches that name the span of the instrumentation.                  *)
ProcessView == app.framework \in {"django", "drf"} /\ hooked
ConsumeHook == app.framework = "pika"

(* A task with a run() of its own class leads to it; no function is known  *)
(* of one whose callables are the generic ones of celery.                  *)
TaskFunction(task) == IF task.form = "generic" THEN Unnamed ELSE FullName(task)
TracePrerun == app.framework = "celery" /\ TaskFunction(app.view) # Unnamed

HookNames == ProcessView \/ ConsumeHook \/ TracePrerun

(* For a ViewSet process_view has the class only.                          *)
Enter(t) ==
  /\ At(t, Current)
  /\ IF HookNames
       THEN Names(t, "entry", IF app.framework = "drf" THEN app.view.name ELSE FullName(app.view))
       ELSE UNCHANGED code
  /\ Enters(t, "dispatch")
  /\ UNCHANGED <<at, found, mine, appVars>> /\ NoLookup

(* Mutant: a view that was not decorated when it was registered stays so. *)
DispatchOnly(t) ==
  /\ At(t, "dispatch")
  /\ Enters(t, "run")
  /\ UNCHANGED <<appVars, at, found, code, mine>> /\ NoLookup

(* dispatch_request of Flask decorates what it finds undecorated ...       *)
Dispatch(t) ==
  LET new == IF app.framework = "flask" THEN Decorated(view) ELSE view
  IN  /\ At(t, "dispatch")
      /\ mine' = [mine EXCEPT ![t] = new]
      /\ made' = IF new.id > made THEN new.id ELSE made
      /\ Enters(t, IF new.id = view.id THEN "run" ELSE "replace")
      /\ UNCHANGED <<app, registered, view, refused, hooked, switches, at, found, code>> /\ NoLookup

(* Mutant: it decorates what view_functions holds by then.                 *)
ReplaceCurrent(t) ==
  /\ At(t, "replace")
  /\ view' = [view EXCEPT !.id = mine[t].id, !.layers = @ + 1, !.marked = TRUE]
  /\ Enters(t, "run")
  /\ UNCHANGED <<app, registered, made, refused, hooked, switches, at, found, code, mine>> /\ NoLookup

(* ... and puts it in view_functions.                                      *)
Replace(t) ==
  /\ At(t, "replace")
  /\ view' = mine[t]
  /\ Enters(t, "run")
  /\ UNCHANGED <<app, registered, made, refused, hooked, switches, at, found, code, mine>> /\ NoLookup

(* The handler, which may import from directories that it adds first.      *)
Run(t) ==
  /\ At(t, "run")
  /\ IF view.layers > 0 THEN Names(t, Current, FullName(app.view)) ELSE UNCHANGED code
  /\ Insert(app.imports)
  /\ Enters(t, "call")
  /\ UNCHANGED <<at, found, mine, appVars, cacheVars>>

(* Some programs take the directories out of sys.path again, at any time.  *)
Withdraw ==
  /\ app.removes
  /\ Remove(app.imports)
  /\ UNCHANGED <<appVars, threadVars, cacheVars>>

StartClient(t) ==
  /\ At(t, "call")
  /\ Starts(t, "client")
  /\ UNCHANGED appVars /\ NoLookup

(* patched_dispatch of the REST framework names the action when it is over.*)
Leave(t) ==
  /\ At(t, "client")
  /\ IF app.framework = "drf" THEN Names(t, Current, FullName(app.view)) ELSE UNCHANGED code
  /\ Enters(t, "over")
  /\ UNCHANGED <<at, found, mine, appVars>> /\ NoLookup

Work(t) ==
  \/ OnStart(t) \/ StartInner(t) \/ Enter(t) \/ Dispatch(t) \/ Replace(t) \/ Run(t)
  \/ StartClient(t) \/ Leave(t)

Next == Register \/ Uninstrument \/ Instrument \/ Withdraw \/ \E t \in Threads : Arrive(t) \/ Work(t)

(* Threads run; requests need not come.                                    *)
Spec == Init /\ [][Next]_vars /\ \A t \in Threads : WF_vars(Work(t))

-----------------------------------------------------------------------------
Views == [id : -1..(Len(app.rules) + Cardinality(Threads)), layers : 0..2, marked : BOOLEAN]

TypeOK ==
  /\ ResolverTypeOK
  /\ app \in Apps /\ registered \in 0..Len(app.rules)
  /\ view \in Views /\ mine \in [Threads -> Views]
  /\ made \in Nat /\ switches \in 0..MaxSwitches
  /\ refused \in BOOLEAN /\ hooked \in BOOLEAN
  /\ Len(users) <= UserSize /\ \A n \in DOMAIN users : Cached(users[n][1]) = {n}
  /\ packages \in [DOMAIN Files -> -1..Len(Distributions)] /\ raced \subseteq DOMAIN Files
  /\ \A t \in Threads : at[t] > 0 => at[t] <= Last(t)
  /\ \A t \in Threads : step[t] # "idle" => at[t] > 0 /\ found[t] = "nothing"

(* No view is wrapped twice, although include_router registers it again,   *)
(* the hooks come and go, and threads of Flask find the same undecorated   *)
(* view and both replace it (_flask_patches.py:86-94 has no lock).         *)
OneLayer == view.layers <= 1 /\ \A t \in Threads : mine[t].layers <= 1

(* With the hooks in place a span is named after the handler that ran,     *)
(* whichever way the framework was given it and whatever the processor     *)
(* named the span at its start: the span of the instrumentation for        *)
(* Django, Celery and pika, the current one for the others.                *)
NamedSpan == IF app.framework \in {"django", "celery", "pika"} THEN "entry" ELSE Current

HandlerNamed ==
  \A t \in Threads :
    phase[t] = "over" /\ switches = 0 /\ (Decoratable \/ HookNames)
      => code[t][NamedSpan] = FullName(app.view)

(* The user's account of his files: the classification agrees with it,     *)
(* whatever other directories the threads bring into the list.             *)
Agrees(a, f, dirs) == ThirdPartyPackage(PackageOf(RootFrom(f, dirs)), a.config) <=> f \notin a.own

PathsSettle ==
  \A a \in Apps, p \in Spans : \A n \in DOMAIN a.stacks[p] :
    LET f == a.stacks[p][n].file
    IN  /\ Files[f].home = "std" => f \notin a.own
        /\ Files[f].home = "site" => Agrees(a, f, {"site"})
        /\ Files[f].home = "elsewhere" => \A dirs \in SUBSET Dirs : Base(a, p) \subseteq dirs => Agrees(a, f, dirs)

(* A client span is named after the first frame of user code among the     *)
(* MaxFrames frames on top, by the user's own account of his files, as     *)
(* long as none of the files was looked up in a list that lacked one of    *)
(* its directories (another thread was about to replace it, or a directory *)
(* left sys.path under a thread that built it), or while sys.path itself   *)
(* lacked one: caches, nested directories, namespace packages and the      *)
(* configured exceptions do not matter.                                    *)
FirstUser(stack) ==
  LET theirs == { n \in DOMAIN stack : n <= MaxFrames /\ stack[n].file \in app.own }
  IN  IF theirs = {} THEN Unnamed ELSE FrameName(stack[First(theirs)])

UserFrameNamed ==
  \A t \in Threads :
    phase[t] = "over" /\ (\A n \in DOMAIN app.stacks.client : app.stacks.client[n].file \notin raced)
      => code[t].client = FirstUser(app.stacks.client)

(* In the end every request that has arrived is answered: no thread waits  *)
(* for the lock of the resolver for ever, and each look at a stack ends.   *)
Answered == <>[](\A t \in Threads : phase[t] \in {"none", "over"})

(* "Mark as decorated to avoid double decoration": an application that     *)
(* gives one function two rules is accepted, as it is without the patch.   *)
RulesAccepted == ~refused
=============================================================================
