------------------------------- MODULE EsbCli -------------------------------
(***************************************************************************)
(* The developer's commands (tools/cli): init, build, up, down and reset,  *)
(* one at a time in one terminal, and `esb watch` in another.  Both run    *)
(* the generator (tools/generator) and the provisioner (tools/provisioner) *)
(* over the same files and services; nothing locks them.                   *)
(*                                                                         *)
(* The actor "cmd" is the running command, "watch" the thread in which     *)
(* watchdog calls SmartReloader.on_modified().  A generated file is given  *)
(* as the number of the template that it was made from, -1 if there is none*)
(***************************************************************************)
EXTENDS Certificates, FiniteSets

CONSTANTS Templates,    \* the template after 0, 1, ... edits
          Parameters,   \* the values in generator.yml
          Commands,     \* those that the developer uses
          MaxCommands, MaxMishaps   \* bounds

ASSUME CommandAssumption ==
  /\ Commands \subseteq {"init", "build", "dry", "up", "upbuild", "down", "wipe", "reset"}
  /\ None \notin Commands

S == INSTANCE SamTemplate

Actors == {"cmd", "watch"}
Versions == DOMAIN Templates
Fns == [v \in Versions |-> S!Functions(Templates[v], Parameters)]
FnNames == UNION {{f.name : f \in Range(Fns[v])} : v \in Versions}
Kinds == {"tables", "buckets"}

\* The provisioner parses without parameters.
Wanted(v, kind) == IF kind = "tables" THEN S!Tables(Templates[v], <<>>)
                   ELSE S!Buckets(Templates[v], <<>>)

\* The parser returns lists.  Two functions of one name would share a staging
\* directory and an image: a template has no such pair.
ASSUME TemplateAssumption ==
  /\ 0 \in Versions /\ Versions \subseteq Nat
  /\ \A v \in Versions :
       /\ Fns[v] \in Seq(Range(Fns[v]))
       /\ \A f \in Range(Fns[v]) :
            /\ f.layers \in Seq(Range(f.layers))
            /\ [dockerfile |-> v, layers |-> S!StagedLayers(f.layers)] # None
            /\ \A g \in Range(Fns[v]) : f.name = g.name => f = g

VARIABLES template,                 \* number of edits
          configured,               \* generator.yml exists
          staged,                   \* .esb/functions/<name>: its layers, or None
          dockerfile,               \* the Dockerfile in there, or -1
          functionsYml, routingYml,
          registry,                 \* image of a function in the registry, or None
          services,                 \* "up" or "down"
          served,                   \* the files that the gateway read when it started
          resources,                \* tables and buckets that exist
          proc,                     \* of each actor: its step and its local variables
          watching, events, hot,    \* esb watch: its queue, and the cooldown
          commands, mishaps,        \* counted against the bounds
          overlap, suspect          \* history, see the properties

project == <<configured, staged, dockerfile, functionsYml, routingYml>>
world == <<registry, services, served, resources>>
watcher == <<watching, events, hot>>
history == <<overlap, suspect>>
bounds == <<commands, mishaps>>
cliVars == <<template, project, world, proc, watcher, history, bounds>>
vars == <<certVars, cliVars>>

Idle == [pc |-> "idle", command |-> None, parsed |-> -1, left |-> <<>>,
         image |-> None, want |-> {}, refused |-> {}]

Init == /\ CertInit
        /\ template = 0
        /\ configured \in BOOLEAN
        /\ staged = [f \in FnNames |-> None]
        /\ dockerfile = [f \in FnNames |-> -1]
        /\ functionsYml = -1 /\ routingYml = -1
        /\ registry = [f \in FnNames |-> None]
        /\ services = "down"
        /\ served = [functions |-> -1, routing |-> -1]
        /\ resources = {}
        /\ proc = [a \in Actors |-> Idle]
        /\ watching = FALSE /\ events = <<>> /\ hot = FALSE
        /\ commands = 0 /\ mishaps = 0
        /\ overlap = FALSE /\ suspect = FALSE

At(a, pc) == proc[a].pc = pc
Goto(a, pc) == proc' = [proc EXCEPT ![a].pc = pc]
End(a) == proc' = [proc EXCEPT ![a] = Idle]
Mishap == mishaps < MaxMishaps /\ mishaps' = mishaps + 1

command == proc["cmd"].command

\* What follows when build.run() returns, having built anything or not.
Return == IF command \in {"upbuild", "reset"} THEN Goto("cmd", "compose") ELSE End("cmd")

\* watchdog's queue drops an event that repeats the one before it.
Notified(e) == IF ~watching \/ (events # <<>> /\ Last(events) = e) THEN events
               ELSE Append(events, e)

----------------------------------------------------------------------------
(* Commands, and esb init *)

First(c) == CASE c = "init" -> "save"
              [] c \in {"build", "dry"} -> "registry"
              [] c \in {"up", "upbuild"} -> "certs"
              [] c \in {"down", "wipe", "reset"} -> "down"

Start(c) == /\ command = None
            /\ commands < MaxCommands
            /\ commands' = commands + 1
            /\ proc' = [proc EXCEPT !["cmd"].command = c, !["cmd"].pc = First(c)]
            /\ UNCHANGED <<template, project, world, watcher, history, mishaps>>

\* A prompt that is cancelled ends the process; declining to start the wizard
\* from within a build only ends the build.
NoConfig == /\ At("cmd", "save")
            /\ End("cmd") \/ (command # "init" /\ Return)
            /\ UNCHANGED <<template, project, world, watcher, history, bounds>>

\* The wizard saves generator.yml and then prepares the certificates.  Neither is of
\* interest to the watcher: the two are not interleaved, to keep the model small.
SaveConfig == /\ At("cmd", "save") /\ ~watching
              /\ configured' = TRUE
              /\ certPc' = "root"
              /\ Goto("cmd", "ensuring")
              /\ UNCHANGED <<files, newer, pending, torn, template, staged, dockerfile,
                             functionsYml, routingYml, world, watcher, history, bounds>>

EnsureCerts == /\ At("cmd", "ensuring")
               /\ CertStep
               /\ IF certPc' = "none" THEN Return ELSE UNCHANGED proc
               /\ UNCHANGED <<template, project, world, watcher, history, bounds>>

----------------------------------------------------------------------------
(* build.run() up to the generator *)

EnsureRegistry == /\ At("cmd", "registry")
                  /\ Goto("cmd", IF configured THEN "parse" ELSE "save")
                  /\ UNCHANGED <<template, project, world, watcher, history, bounds>>

\* The steps that may end the process with exit(1).
Exit == /\ proc["cmd"].pc \in {"certs", "registry", "base", "images", "push"}
        /\ Mishap
        /\ End("cmd")
        /\ UNCHANGED <<template, project, world, watcher, history, commands>>

----------------------------------------------------------------------------
(* generate_files(), by either actor *)

Other(a) == CHOOSE b \in Actors : b # a
DryRun(a) == proc[a].command = "dry"
Function(a) == Head(proc[a].left)

\* Steps that use the staging directory or the generated files.
Generating(a) == proc[a].pc \in {"stage", "dockerfile", "routing", "restart",
                                 "base", "images", "push"}

\* The template is parsed and, but for a dry run, the staging directory removed.
ParseTemplate(a) ==
  /\ At(a, "parse")
  /\ proc' = [proc EXCEPT ![a].parsed = template,
                          ![a].left = Fns[template],
                          ![a].pc = "stage"]
  /\ IF DryRun(a) THEN UNCHANGED <<staged, dockerfile>>
     ELSE /\ staged' = [f \in FnNames |-> None]
          /\ dockerfile' = [f \in FnNames |-> -1]
  /\ overlap' = Generating(Other(a))
  /\ UNCHANGED <<template, configured, functionsYml, routingYml, world, watcher, suspect,
                 bounds>>

\* Sources, layers and sitecustomize.py are copied in a dry run, too.  The
\* watcher sees the copies: their paths contain "functions" and end in .py.
StageSources(a) ==
  /\ At(a, "stage") /\ proc[a].left # <<>>
  /\ staged' = [staged EXCEPT ![Function(a).name] = S!StagedLayers(Function(a).layers)]
  /\ events' = Notified("code")
  /\ Goto(a, "dockerfile")
  /\ UNCHANGED <<template, configured, dockerfile, functionsYml, routingYml, world,
                 watching, hot, history, bounds>>

\* The other actor has removed the directory in the meantime.
StagingLost(a) == At(a, "dockerfile") /\ ~DryRun(a) /\ staged[Function(a).name] = None

WriteDockerfile(a) ==
  /\ At(a, "dockerfile") /\ ~StagingLost(a)
  /\ dockerfile' = IF DryRun(a) THEN dockerfile
                   ELSE [dockerfile EXCEPT ![Function(a).name] = proc[a].parsed]
  /\ proc' = [proc EXCEPT ![a].left = Tail(@), ![a].pc = "stage"]
  /\ UNCHANGED <<template, configured, staged, functionsYml, routingYml, world,
                 watcher, history, bounds>>

DryRunEnds == /\ At("cmd", "stage") /\ proc["cmd"].left = <<>> /\ DryRun("cmd")
              /\ End("cmd")
              /\ UNCHANGED <<template, project, world, watcher, history, bounds>>

WriteFunctionsYml(a) ==
  /\ At(a, "stage") /\ proc[a].left = <<>> /\ ~DryRun(a)
  /\ functionsYml' = proc[a].parsed
  /\ Goto(a, "routing")
  /\ UNCHANGED <<template, configured, staged, dockerfile, routingYml, world,
                 watcher, history, bounds>>

WriteRoutingYmlIfMissing(a) ==
  /\ At(a, "routing")
  /\ routingYml' = IF routingYml = -1 THEN proc[a].parsed ELSE routingYml
  /\ suspect' = overlap
  /\ Goto(a, IF a = "cmd" THEN "base" ELSE "restart")
  /\ UNCHANGED <<template, configured, staged, dockerfile, functionsYml, world,
                 watcher, overlap, bounds>>

WriteRoutingYml(a) ==
  /\ At(a, "routing")
  /\ routingYml' = proc[a].parsed
  /\ suspect' = overlap
  /\ Goto(a, IF a = "cmd" THEN "base" ELSE "restart")
  /\ UNCHANGED <<template, configured, staged, dockerfile, functionsYml, world,
                 watcher, overlap, bounds>>

\* A template that is gone or does not parse, a directory that vanished, a full disk:
\* the command ends with the exception, on_modified() logs a warning and does not
\* start a cooldown.
GenerateFails(a) ==
  /\ \/ StagingLost(a) /\ UNCHANGED mishaps
     \/ proc[a].pc \in {"parse", "stage", "dockerfile", "routing"} /\ Mishap
  /\ End(a)
  /\ suspect' = (suspect \/ At(a, "routing"))
  /\ UNCHANGED <<template, project, world, watcher, overlap, commands>>

----------------------------------------------------------------------------
(* build_base_image() and build_function_images() *)

BuildBase == /\ At("cmd", "base")
             /\ proc' = [proc EXCEPT !["cmd"].left = Fns[proc["cmd"].parsed],
                                     !["cmd"].pc = "images"]
             /\ UNCHANGED <<template, project, world, watcher, history, bounds>>

\* Without a Dockerfile the function is passed over with a warning.
SkipFunction == /\ At("cmd", "images") /\ proc["cmd"].left # <<>>
                /\ dockerfile[Function("cmd").name] = -1
                /\ proc' = [proc EXCEPT !["cmd"].left = Tail(@)]
                /\ UNCHANGED <<template, project, world, watcher, history, bounds>>

BuildImage ==
  /\ At("cmd", "images") /\ proc["cmd"].left # <<>>
  /\ LET f == Function("cmd").name IN
       /\ dockerfile[f] # -1
       /\ proc' = [proc EXCEPT !["cmd"].image = [dockerfile |-> dockerfile[f], layers |-> staged[f]],
                               !["cmd"].pc = "push"]
  /\ UNCHANGED <<template, project, world, watcher, history, bounds>>

Pushed == [registry EXCEPT ![Function("cmd").name] = proc["cmd"].image]

PushOrWarn ==
  /\ At("cmd", "push")
  /\ registry' \in {registry, Pushed}
  /\ proc' = [proc EXCEPT !["cmd"].left = Tail(@), !["cmd"].pc = "images"]
  /\ UNCHANGED <<template, project, services, served, resources, watcher, history, bounds>>

PushImage ==
  /\ At("cmd", "push")
  /\ registry' = Pushed
  /\ proc' = [proc EXCEPT !["cmd"].left = Tail(@),
                          !["cmd"].image = None,
                          !["cmd"].pc = "images"]
  /\ UNCHANGED <<template, project, services, served, resources, watcher, history, bounds>>

BuildComplete == At("cmd", "images") /\ proc["cmd"].left = <<>>

BuildReturns == /\ BuildComplete
                /\ Return
                /\ UNCHANGED <<template, project, world, watcher, history, bounds>>
----------------------------------------------------------------------------
(* up.run() and down.run() *)

UpCerts == /\ At("cmd", "certs")
           /\ Goto("cmd", IF command = "up" THEN "compose" ELSE "registry")
           /\ UNCHANGED <<template, project, world, watcher, history, bounds>>

\* What load_functions_config() and load_routing_config() read at start-up.
Generated == [functions |-> functionsYml, routing |-> routingYml]

\* A gateway that is already running is kept, unless --build has changed its image:
\* it does not read the generated files again.
Started == /\ services' = "up"
           /\ \/ services = "up" /\ UNCHANGED served
              \/ (services = "down" \/ command # "up") /\ served' = Generated

ComposeUp == /\ At("cmd", "compose")
             /\ Started
             /\ Goto("cmd", "provision")
             /\ UNCHANGED <<template, project, registry, resources, watcher, history, bounds>>

ComposeUpFails == /\ At("cmd", "compose")
                  /\ Mishap
                  /\ Started \/ UNCHANGED <<services, served>>
                  /\ End("cmd")
                  /\ UNCHANGED <<template, project, registry, resources, watcher,
                                 history, commands>>

\* A gateway without routes looks for them again with every routed request.
ReloadRoutes == /\ services = "up" /\ served.routing = -1 /\ routingYml # -1
                /\ served' = [served EXCEPT !.routing = routingYml]
                /\ UNCHANGED <<template, project, registry, services, resources, proc,
                               watcher, history, bounds>>

Ready == /\ At("cmd", "ready")
         /\ End("cmd")
         /\ UNCHANGED <<template, project, world, watcher, history, bounds>>

\* reset goes on with up --build, after a failed down as well.  --volumes takes the data
\* of the services and of the registry along.  The functions' containers, which down
\* removes too, are not part of this state.
AfterDown == IF command = "reset" THEN Goto("cmd", "certs") ELSE End("cmd")

ComposeDown ==
  /\ At("cmd", "down")
  /\ services' = "down"
  /\ served' = [functions |-> -1, routing |-> -1]
  /\ resources' = IF command = "down" THEN resources ELSE {}
  /\ registry' = IF command = "down" THEN registry ELSE [f \in FnNames |-> None]
  /\ AfterDown
  /\ UNCHANGED <<template, project, watcher, history, bounds>>

ComposeDownFails ==
  /\ At("cmd", "down")
  /\ Mishap
  /\ AfterDown
  /\ UNCHANGED <<template, project, world, watcher, history, commands>>

----------------------------------------------------------------------------
(* provisioner.main(), by either actor *)

ReadResources(a) ==
  /\ At(a, "provision")
  /\ proc' = [proc EXCEPT ![a].parsed = template,
                          ![a].left = <<>>,
                          ![a].pc = "list tables"]
  /\ UNCHANGED <<template, project, world, watcher, history, bounds>>

Listing(kind) == IF kind = "tables" THEN "list tables" ELSE "list buckets"

\* A listing that fails counts as empty.
List(a, kind) ==
  /\ At(a, Listing(kind))
  /\ \/ /\ services = "up"
        /\ proc' = [proc EXCEPT ![a].want = Wanted(proc[a].parsed, kind) \ resources,
                                ![a].pc = kind]
        /\ UNCHANGED mishaps
     \/ /\ (services = "down" /\ UNCHANGED mishaps) \/ Mishap
        /\ proc' = [proc EXCEPT ![a].want = Wanted(proc[a].parsed, kind),
                                ![a].pc = kind]
  /\ UNCHANGED <<template, project, world, watcher, history, commands>>

Create(a, r) ==
  /\ proc[a].pc \in Kinds
  /\ services = "up" /\ r \notin resources
  /\ resources' = resources \cup {r}
  /\ proc' = [proc EXCEPT ![a].want = @ \ {r}]
  /\ UNCHANGED <<template, project, registry, services, served, watcher, history, bounds>>

\* History of what up has reported as failed.
Refused(a, r) == IF a = "cmd" THEN proc[a].refused \cup {r} ELSE {}

Refusable(r) == services = "down" \/ r \in resources

CreateFailsStopping(a, r) ==
  /\ proc[a].pc \in Kinds
  /\ (Refusable(r) /\ UNCHANGED mishaps) \/ Mishap
  /\ proc' = [proc EXCEPT ![a].want = {}, ![a].refused = Refused(a, r)]
  /\ UNCHANGED <<template, project, world, watcher, history, commands>>

\* Creation fails because the resource exists, or for another reason: that is
\* printed, and the next one is tried.
CreateFails(a, r) ==
  /\ proc[a].pc \in Kinds
  /\ (Refusable(r) /\ UNCHANGED mishaps) \/ Mishap
  /\ proc' = [proc EXCEPT ![a].want = @ \ {r}, ![a].refused = Refused(a, r)]
  /\ UNCHANGED <<template, project, world, watcher, history, commands>>

\* After the buckets, up is ready and the watcher starts its cooldown.
KindDone(a) ==
  /\ proc[a].pc \in Kinds /\ proc[a].want = {}
  /\ CASE At(a, "tables") -> Goto(a, "list buckets")
       [] At(a, "buckets") /\ a = "cmd" -> Goto(a, "ready")
       [] OTHER -> End(a)
  /\ hot' = (hot \/ (a = "watch" /\ At(a, "buckets")))
  /\ UNCHANGED <<template, project, world, watching, events, history, bounds>>

Provision(a) == \/ ReadResources(a)
                \/ \E kind \in Kinds : List(a, kind)
                \/ \E r \in proc[a].want : Create(a, r) \/ CreateFails(a, r)
                \/ KindDone(a)

----------------------------------------------------------------------------
(* esb watch *)

WatchStart == /\ ~watching /\ certPc = "none"
              /\ watching' = TRUE
              /\ UNCHANGED <<template, project, world, proc, events, hot,
                             history, bounds>>

\* Ctrl-C: observer.join() waits for the handler; queued events are dropped.
WatchStop == /\ watching /\ At("watch", "idle")
             /\ watching' = FALSE
             /\ events' = <<>>
             /\ hot' = FALSE
             /\ UNCHANGED <<template, project, world, proc, history, bounds>>

Dispatch == At("watch", "idle") /\ events # <<>> /\ events' = Tail(events)

\* on_modified() within a second of the last reload.
DropEvent == /\ Dispatch
             /\ hot
             /\ UNCHANGED <<template, project, world, proc, watching, hot, history, bounds>>

TemplateChange == /\ Dispatch
                  /\ ~hot /\ Head(events) = "template"
                  /\ Goto("watch", "parse")
                  /\ UNCHANGED <<template, project, world, watching, hot,
                                 history, bounds>>

\* handle_function_change() looks for a Dockerfile beside the sources, where the
\* generator puts none, and rebuilds lambda-<dir>:latest, which nothing runs.
\* What it does change is last_trigger.
FunctionChange == /\ Dispatch
                  /\ ~hot /\ Head(events) = "code"
                  /\ hot' = TRUE
                  /\ UNCHANGED <<template, project, world, proc, watching,
                                 history, bounds>>

RestartGateway == /\ At("watch", "restart")
                  /\ services = "up"
                  /\ served' = Generated
                  /\ Goto("watch", "provision")
                  /\ UNCHANGED <<template, project, registry, services, resources,
                                 watcher, history, bounds>>

RestartFails == /\ At("watch", "restart")
                /\ (services = "down" /\ UNCHANGED mishaps) \/ Mishap
                /\ Goto("watch", "provision")
                /\ UNCHANGED <<template, project, world, watching, events, hot,
                               history, commands>>

CoolDown == /\ hot
            /\ hot' = FALSE
            /\ UNCHANGED <<template, project, world, proc, watching, events,
                           history, bounds>>

----------------------------------------------------------------------------
(* The developer *)

EditTemplate == /\ template + 1 \in Versions
                /\ template' = template + 1
                /\ events' = Notified("template")
                /\ UNCHANGED <<project, world, proc, watching, hot, history, bounds>>

DeleteCertificate == /\ Mishap
                     /\ \E f \in File : DeleteFile(f)
                     /\ UNCHANGED <<template, project, world, proc, watcher, history, commands>>

\* Ctrl-C: main() prints "Aborted." and exits.
Interrupt == /\ command # None
             /\ Mishap
             /\ IF At("cmd", "ensuring") THEN CertInterrupt ELSE UNCHANGED certVars
             /\ End("cmd")
             /\ suspect' = (suspect \/ At("cmd", "routing"))
             /\ UNCHANGED <<template, project, world, watcher, overlap, commands>>

----------------------------------------------------------------------------
Generate(a) == \/ ParseTemplate(a) \/ StageSources(a) \/ WriteDockerfile(a)
               \/ WriteFunctionsYml(a) \/ WriteRoutingYml(a) \/ GenerateFails(a)

CmdStep == \/ \E c \in Commands : Start(c)
           \/ NoConfig \/ EnsureRegistry \/ Exit
           \/ Generate("cmd") \/ DryRunEnds
           \/ BuildBase \/ SkipFunction \/ BuildImage \/ PushImage \/ BuildReturns
           \/ UpCerts \/ ComposeUp \/ ComposeUpFails \/ Provision("cmd") \/ Ready
           \/ ComposeDown \/ ComposeDownFails

WatchStep == \/ DropEvent \/ TemplateChange \/ FunctionChange
             \/ Generate("watch") \/ RestartGateway \/ RestartFails \/ Provision("watch")

Next == \/ SaveConfig \/ EnsureCerts \/ DeleteCertificate \/ Interrupt
        \/ /\ UNCHANGED certVars
           /\ CmdStep \/ WatchStart \/ WatchStop \/ WatchStep \/ CoolDown
                \/ EditTemplate \/ ReloadRoutes

Spec == Init /\ [][Next]_vars

\* The observer's thread runs.  Nothing obliges the developer.
CliLiveSpec == Spec /\ WF_vars(WatchStep /\ UNCHANGED certVars)

----------------------------------------------------------------------------
(* Properties *)

\* Whenever ensure_certs() has succeeded, the server certificate fits its key and
\* is signed by the key of rootCA.crt, whatever was deleted and interrupted before,
\* unless an interruption left a half that only looks complete (the checks compare
\* existence and times, never contents) and that half was not written anew since.
ChainHolds ==
  certPc = "ok" /\ torn = {} =>
    files["server.crt"] = <<files["server.key"], files["rootCA.crt"]>>

\* functions.yml and routing.yml come from one parse of the template, except while a
\* generator is between the two writes, and after one was stopped there or wrote its
\* routing.yml when `esb watch` and a command generated at the same time (suspect).
\* The next generator that runs to its end alone repairs the pair.
ConfigAgrees ==
  functionsYml # routingYml =>
    suspect \/ \E a \in Actors : At(a, "routing")

\* "Build complete." is true: every function of the template that was parsed has an
\* image in the registry with its Dockerfile and with every layer that has a
\* directory or a zip file for a source, unless another layer that was found goes
\* by the same directory name.  Layers whose source is absent or of another kind
\* are left out without a word, which the property does not count.  Only a watcher
\* that cleared the staging directory during this build (overlap) makes it pass
\* over a function, or build another version.
BuildIsComplete ==
  BuildComplete /\ ~overlap =>
    \A f \in Range(Fns[proc["cmd"].parsed]) :
      /\ registry[f.name] # None
      /\ registry[f.name].dockerfile = proc["cmd"].parsed
      /\ \A l \in Range(f.layers) :
           l.source = "tree" =>
             \/ l.id \in registry[f.name].layers
             \/ \E k \in Range(f.layers) \ {l} : k.dir = l.dir /\ S!Found(k)

\* "Environment is ready!" means that every table and bucket of the template exists
\* or was reported as failed, with two provisioners at work and failing listings.
ReadyMeansProvisioned ==
  At("cmd", "ready") =>
    \A kind \in Kinds : Wanted(proc["cmd"].parsed, kind) \subseteq resources \cup proc["cmd"].refused

\* README.md: while `esb watch` runs, a saved template is applied to the environment
\* at once.  For a running gateway: it comes to serve what was saved or a later
\* version, unless the watcher or the services are stopped first.
EditIsApplied ==
  \A v \in Versions :
    (template = v /\ watching /\ services = "up" /\ "template" \in Range(events))
      ~> \/ served.functions >= v /\ served.routing >= v
         \/ ~watching \/ services = "down"
=============================================================================
