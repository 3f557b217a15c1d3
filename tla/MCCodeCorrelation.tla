------------------------- MODULE MCCodeCorrelation --------------------------
(* An installation and applications for CodeCorrelation.                   *)
EXTENDS CodeCorrelation, TLC

CONSTANTS t1, t2, none

MCThreads == {t1, t2}

(* The distro is put before the application by PYTHONPATH (the Kubernetes  *)
(* operator does so), and the application has a directory of its own for   *)
(* what it vendors.                                                        *)
MCDirs  == {"auto", "app", "vendor"}
MCFirst == {"auto", "app"}
MCDepth == ("auto" :> 1) @@ ("app" :> 1) @@ ("vendor" :> 2) @@ ("site" :> 3)

Module(first)       == [parts |-> <<first>>, package |-> TRUE]
Loose(first)        == [parts |-> <<first>>, package |-> FALSE]
Below(first, other) == [parts |-> <<first, other>>, package |-> FALSE]
File(home, where)   == [home |-> home, at |-> where]

MCFiles ==
     ("socket"    :> File("std", "app" :> Module("socket")))
  @@ ("on_start"  :> File("elsewhere", "auto" :> Below("amazon", "opentelemetry")))
  @@ ("framework" :> File("site", "site" :> Module("framework")))
  @@ ("company"   :> File("site", "site" :> Below("company", "client")))
  @@ ("extra"     :> File("site", "site" :> Module("extra")))
  @@ ("helper"    :> File("elsewhere", ("app" :> Below("vendor", "helper")) @@ ("vendor" :> Module("helper"))))
  @@ ("editable"  :> File("elsewhere", "app" :> Module("editable")))
  @@ ("views"     :> File("elsewhere", "app" :> Loose("views.py")))

Recorded(parts, namespace, metadata) == [parts |-> parts, namespace |-> namespace, metadata |-> metadata]
Distribution(name, lower, files) ==
  [name |-> name, lower |-> lower, files |-> files \cup { Recorded(<<name>>, FALSE, TRUE) }]

(* The last two provide what others provided before them.                  *)
MCDistributions == <<
  Distribution("distro",    "distro",    { Recorded(<<"amazon", "opentelemetry">>, TRUE, FALSE) }),
  Distribution("Framework", "framework", { Recorded(<<"framework">>, FALSE, FALSE) }),
  Distribution("company",   "company",   { Recorded(<<"company", "client">>, TRUE, FALSE) }),
  Distribution("extra",     "extra",     { Recorded(<<"extra">>, FALSE, FALSE) }),
  Distribution("helper",    "helper",    { Recorded(<<"helper">>, FALSE, FALSE) }),
  Distribution("editable",  "editable",  { Recorded(<<"editable.pth">>, FALSE, FALSE) }),
  Distribution("mine",      "mine",      { Recorded(<<"framework">>, FALSE, FALSE), Recorded(<<"company", "other">>, TRUE, FALSE) }) >>

MCListed == {"distro", "framework", "company", "helper", "editable"}

Text(text)    == [string |-> TRUE, text |-> text]
Field(items)  == [list |-> TRUE, items |-> items]
Plain         == [object |-> TRUE, include |-> Field({}), exclude |-> Field({})]
Tuned         == [object |-> TRUE, include |-> Field({Text("extra"), [string |-> FALSE, text |-> "views"]}),
                                   exclude |-> Field({Text("company")})]
NoList        == [Tuned EXCEPT !.exclude = [list |-> FALSE, items |-> {Text("company")}]]
NoObject      == [Tuned EXCEPT !.object = FALSE]

On(file) == [module |-> file, self |-> IF file = "views" THEN "View" ELSE "", name |-> "call", file |-> file]
Stack3(a, b, c) == <<On(a), On(b), On(c)>>

View(form, name, target) == [form |-> form, name |-> name, target |-> target]

Web(framework, rules) ==
  [framework |-> framework, kind |-> "SERVER", rules |-> rules, view |-> View("function", <<"views", "handler">>, <<>>),
   inner |-> FALSE, preset |-> Unnamed, imports |-> {}, removes |-> FALSE, config |-> Plain, own |-> {"views", "extra"},
   stacks |-> [entry  |-> <<On("on_start")>>,
               inner  |-> Stack3("on_start", "framework", "views"),
               client |-> Stack3("on_start", "socket", "views")]]

Messages(framework) == [Web(framework, <<"rule">>) EXCEPT !.kind = "CONSUMER", !.stacks.entry = Stack3("on_start", "framework", "views")]

FlaskApp     == Web("flask", <<"rule">>)
FlaskLater   == [Web("flask", <<"endpoint">>) EXCEPT !.imports = {"vendor"}, !.stacks.client = Stack3("on_start", "helper", "views")]
FlaskTwo     == Web("flask", <<"rule", "rule">>)
FastApi      == [Web("fastapi", <<"rule", "include">>) EXCEPT !.inner = TRUE, !.view.form = "wrapped", !.view.target = <<"views", "wrapped">>]
Starlette    == [Web("starlette", <<"rule">>) EXCEPT !.view.form = "object", !.stacks.client = Stack3("on_start", "framework", "company"),
                                                     !.config = Tuned, !.own = {"views", "company"}]
Django       == [Web("django", <<"rule">>) EXCEPT !.inner = TRUE, !.view = View("class", <<"views", "View">>, <<"views", "View", "get">>),
                                                  !.stacks.client = Stack3("on_start", "extra", "views"),
                                                  !.config = Tuned, !.own = {"views", "company"}]
Rest         == [Web("drf", <<"rule">>) EXCEPT !.view = View("class", <<"views", "ViewSet">>, <<"views", "ViewSet", "list">>), !.config = NoList,
                                               !.stacks.client = Stack3("on_start", "company", "views"), !.own = {"views"}]
RestPlugins  == [Web("drf", <<"rule">>) EXCEPT !.imports = {"vendor"}, !.removes = TRUE,
                                               !.stacks.client = Stack3("on_start", "helper", "views")]
Celery       == [Messages("celery") EXCEPT !.config = NoObject, !.stacks.client = Stack3("on_start", "editable", "extra")]
CeleryOther  == [Celery EXCEPT !.view.form = "generic"]
Pika         == [Messages("pika") EXCEPT !.view = View("partial", <<"partial">>, <<"views", "handler">>),
                                         !.stacks.client = Append(Stack3("on_start", "framework", "socket"), On("views"))]
AioPika      == [Messages("aio_pika") EXCEPT !.view.form = "method", !.inner = TRUE, !.preset = <<"chosen">>,
                                             !.imports = {"vendor"}, !.stacks.client = Stack3("helper", "on_start", "views")]

MCApps  == { FlaskApp, FlaskLater, FlaskTwo, FastApi, Starlette, Django, Rest, RestPlugins, Celery, CeleryOther, Pika, AioPika }
TwoRules == { FlaskTwo }

(* To a list without the directory that its importers add, the vendored    *)
(* helper is the user's, to all others a third party's: nobody has it on   *)
(* the stack of a span that starts before the import.                      *)
ASSUME AccountsAgree == PathsSettle
=============================================================================
