---------------------------- MODULE EsbCliProofs ----------------------------
(***************************************************************************)
(* What the commands leave behind, for every template, number of edits,    *)
(* commands and mishaps.  Four invariants, each of the part of the state   *)
(* that its property is about; all of them rest on the shape of proc and   *)
(* on a command that runs being known to run.                              *)
(***************************************************************************)
EXTENDS EsbCli, SequenceTheorems, WellFoundedInduction, TLAPS

Locals == {"pc", "command", "parsed", "left", "image", "want", "refused"}

ProcShape == /\ DOMAIN proc = Actors
             /\ \A a \in Actors : DOMAIN proc[a] = Locals
             /\ proc["cmd"].pc # "idle" => command # None

LEMMA Others == Other("cmd") = "watch" /\ Other("watch") = "cmd"
  BY DEF Other, Actors

LEMMA InitShape == Init => ProcShape
  BY DEF Init, ProcShape, Idle, Locals, Actors

----------------------------------------------------------------------------
(* The steps of one actor leave the other where it is, and a command that  *)
(* is making certificates does nothing else.                               *)

LEMMA GenerateFrame ==
  ASSUME ProcShape, NEW a \in Actors, Generate(a)
  PROVE  /\ ProcShape'
         /\ ~At("cmd", "ensuring") \/ a = "watch"
         /\ proc'[Other(a)] = proc[Other(a)]
         /\ UNCHANGED <<registry, services, served, resources>>
<1> USE Others DEF ProcShape, Locals, Actors, command, At, Goto, End, Idle, world
<1>1. CASE ParseTemplate(a)
  BY <1>1 DEF ParseTemplate
<1>2. CASE StageSources(a)
  BY <1>2 DEF StageSources
<1>3. CASE WriteDockerfile(a)
  BY <1>3 DEF WriteDockerfile
<1>4. CASE WriteFunctionsYml(a) \/ WriteRoutingYml(a)
  BY <1>4 DEF WriteFunctionsYml, WriteRoutingYml
<1>5. CASE GenerateFails(a)
  BY <1>5 DEF GenerateFails, StagingLost
<1> QED
  BY <1>1, <1>2, <1>3, <1>4, <1>5 DEF Generate

LEMMA ProvisionFrame ==
  ASSUME ProcShape, NEW a \in Actors, Provision(a)
  PROVE  /\ ProcShape'
         /\ ~At("cmd", "ensuring") \/ a = "watch"
         /\ proc'[Other(a)] = proc[Other(a)]
         /\ resources \subseteq resources'
         /\ UNCHANGED <<template, project, overlap, suspect, registry>>
<1> USE Others DEF ProcShape, Locals, Actors, command, At, Goto, End, Idle, world, history, Kinds
<1>1. CASE ReadResources(a)
  BY <1>1 DEF ReadResources
<1>2. ASSUME NEW kind \in Kinds, List(a, kind)
      PROVE  /\ ProcShape'
             /\ ~At("cmd", "ensuring") \/ a = "watch"
             /\ proc'[Other(a)] = proc[Other(a)]
             /\ resources \subseteq resources'
             /\ UNCHANGED <<template, project, overlap, suspect, registry>>
  <2>1. PICK want : proc' = [proc EXCEPT ![a].want = want, ![a].pc = kind]
    BY <1>2 DEF List
  <2> QED
    BY <1>2, <2>1 DEF List, Listing
<1>3. ASSUME NEW r, Create(a, r) \/ CreateFails(a, r)
      PROVE  /\ ProcShape'
             /\ ~At("cmd", "ensuring") \/ a = "watch"
             /\ proc'[Other(a)] = proc[Other(a)]
             /\ resources \subseteq resources'
             /\ UNCHANGED <<template, project, overlap, suspect, registry>>
  BY <1>3 DEF Create, CreateFails
<1>4. CASE KindDone(a)
  <2>1. /\ Goto(a, "list buckets") \/ Goto(a, "ready") \/ End(a)
        /\ proc[a].pc \in Kinds
        /\ UNCHANGED <<template, project, world, history>>
    BY <1>4 DEF KindDone
  <2>2. CASE Goto(a, "list buckets")
    BY <2>1, <2>2
  <2>3. CASE Goto(a, "ready")
    BY <2>1, <2>3
  <2>4. CASE End(a)
    BY <2>1, <2>4
  <2> QED
    BY <2>1, <2>2, <2>3, <2>4
<1> QED
  BY <1>1, <1>2, <1>3, <1>4 DEF Provision

LEMMA CmdShape ==
  ASSUME ProcShape, CmdStep
  PROVE  /\ ProcShape'
         /\ At("cmd", "ensuring") => At("cmd", "ensuring")'
         /\ proc'["watch"] = proc["watch"]
<1> USE DEF ProcShape, Locals, Actors, command, At, Goto, End, Idle
<1>1. CASE \E c \in Commands : Start(c)
  BY <1>1, CommandAssumption DEF Start
<1>2. CASE NoConfig \/ EnsureRegistry \/ Exit \/ DryRunEnds
  BY <1>2 DEF NoConfig, EnsureRegistry, Exit, Return, DryRunEnds
<1>3. CASE Generate("cmd")
  BY <1>3, GenerateFrame, Others
<1>4. CASE BuildBase \/ SkipFunction \/ BuildImage \/ PushImage \/ BuildReturns
  BY <1>4 DEF BuildBase, SkipFunction, BuildImage, PushImage, BuildReturns, BuildComplete,
              Return
<1>5. CASE UpCerts \/ ComposeUp \/ ComposeUpFails \/ Ready \/ ComposeDown \/ ComposeDownFails
  BY <1>5 DEF UpCerts, ComposeUp, ComposeUpFails, Ready, ComposeDown, ComposeDownFails,
              AfterDown
<1>6. CASE Provision("cmd")
  BY <1>6, ProvisionFrame, Others
<1> QED
  BY <1>1, <1>2, <1>3, <1>4, <1>5, <1>6 DEF CmdStep

LEMMA WatchShape ==
  ASSUME ProcShape, WatchStep
  PROVE  /\ ProcShape'
         /\ proc'["cmd"] = proc["cmd"]
         /\ resources \subseteq resources'
         /\ UNCHANGED registry
<1> USE DEF ProcShape, Locals, Actors, command, world
<1>1. CASE DropEvent \/ TemplateChange \/ FunctionChange
  BY <1>1 DEF DropEvent, TemplateChange, FunctionChange, Goto
<1>2. CASE Generate("watch")
  BY <1>2, GenerateFrame, Others
<1>3. CASE RestartGateway \/ RestartFails
  BY <1>3 DEF RestartGateway, RestartFails, Goto
<1>4. CASE Provision("watch")
  BY <1>4, ProvisionFrame, Others
<1> QED
  BY <1>1, <1>2, <1>3, <1>4 DEF WatchStep

\* Steps of neither.
Aside == WatchStart \/ WatchStop \/ CoolDown \/ EditTemplate \/ ReloadRoutes

LEMMA AsideFrame ==
  ASSUME Aside
  PROVE  UNCHANGED <<proc, staged, dockerfile, functionsYml, routingYml, registry,
                     resources, overlap, suspect>>
  BY DEF Aside, WatchStart, WatchStop, CoolDown, EditTemplate, ReloadRoutes, project, world,
         history

----------------------------------------------------------------------------
(* The certificates.  With nothing left to write and no torn half, a root  *)
(* that looks complete is a pair, and a server certificate that looks      *)
(* complete too is signed by it.  While ensure_certs() writes, that may be *)
(* broken, and the writes that are left restore it: those of the root for  *)
(* good, since they make the server certificate the older file, and those  *)
(* of the server if the root is a pair.                                    *)

Chain == files["server.crt"] = <<files["server.key"], files["rootCA.crt"]>>
RootPair == files["rootCA.key"] = files["rootCA.crt"]

RootWrites ==
  \/ pending = << <<"rootCA.key", pending[1][2]>>, <<"rootCA.crt", pending[1][2]>> >>
  \/ pending = << <<"rootCA.crt", files["rootCA.key"]>> >>

ServerWrites ==
  \/ pending = << <<"server.key", pending[1][2]>>,
                  <<"server.crt", <<pending[1][2], files["rootCA.key"]>> >> >>
  \/ pending = << <<"server.crt", <<files["server.key"], files["rootCA.key"]>> >> >>

RootSound == /\ pending = <<>> /\ RootComplete => RootPair
             /\ certPc = "server" => RootPair

ServerSound == /\ pending = <<>> /\ RootComplete /\ ServerComplete => Chain
               /\ certPc = "server" /\ pending = <<>> /\ ServerComplete => Chain
               /\ certPc = "ok" => Chain

CertPart == /\ DOMAIN files = File
            /\ certPc \in {"none", "root", "server", "ok", "failed"}
            /\ certPc \notin {"root", "server"} => pending = <<>>
            /\ certPc = "root" /\ pending # <<>> => RootWrites
            /\ certPc = "server" /\ pending # <<>> => ServerWrites
            /\ "root" \notin torn => RootSound
            /\ torn = {} => ServerSound

CertInv == CertPart /\ (certPc # "none" => At("cmd", "ensuring"))

LEMMA InitCert == Init => CertInv
  BY DEF Init, CertInit, CertInv, CertPart, RootSound, ServerSound, RootComplete, Exists, File

LEMMA OnePair == \A x : Head(<<x>>) = x /\ Tail(<<x>>) = <<>> /\ Len(<<x>>) = 1
  OBVIOUS

LEMMA TwoPairs == \A x, y : Head(<<x, y>>) = x /\ Tail(<<x, y>>) = <<y>> /\ Len(<<x, y>>) = 2
  OBVIOUS

LEMMA Written ==
  ASSUME WriteFile, NEW f, NEW content, Head(pending)[1] = f, Head(pending)[2] = content
  PROVE  /\ files' = [files EXCEPT ![f] = content]
         /\ newer' = Touch(f)
         /\ pending' = Tail(pending)
         /\ Len(pending) > 1 => certPc' = certPc /\ torn' = torn
         /\ Len(pending) = 1 /\ certPc = "root" => certPc' = "server" /\ torn' = {}
         /\ Len(pending) = 1 /\ certPc = "server" => certPc' = "ok" /\ torn' = torn \ {"server"}
<1>1. files' = [files EXCEPT ![f] = content]
  BY DEF WriteFile
<1>2. newer' = Touch(f)
  BY DEF WriteFile
<1>3. pending' = Tail(pending)
  BY DEF WriteFile
<1>4. certPc' = IF Len(pending) > 1 THEN certPc
                ELSE IF certPc = "root" THEN "server" ELSE "ok"
  BY DEF WriteFile
<1>5. torn' = IF Len(pending) > 1 THEN torn
              ELSE IF certPc = "root" THEN {} ELSE torn \ {"server"}
  BY DEF WriteFile
<1>6. /\ Len(pending) > 1 => certPc' = certPc /\ torn' = torn
      /\ Len(pending) = 1 /\ certPc = "root" => certPc' = "server" /\ torn' = {}
      /\ Len(pending) = 1 /\ certPc = "server" => certPc' = "ok" /\ torn' = torn \ {"server"}
  BY <1>4, <1>5
<1> QED
  BY <1>1, <1>2, <1>3, <1>6, Zenon

LEMMA WriteKeeps ==
  ASSUME CertPart, certPc \in {"root", "server"}, WriteFile
  PROVE  CertPart'
<1> USE DEF CertPart, File
<1>1. CASE certPc = "root"
  <2>1. ASSUME NEW k, pending = << <<"rootCA.key", k>>, <<"rootCA.crt", k>> >>
        PROVE  CertPart'
    <3>1. /\ Head(pending)[1] = "rootCA.key" /\ Head(pending)[2] = k
          /\ Tail(pending) = << <<"rootCA.crt", k>> >> /\ Len(pending) = 2
      BY <2>1, TwoPairs
    <3>2. files' = [files EXCEPT !["rootCA.key"] = k]
      BY <3>1, Written
    <3>3. pending' = << <<"rootCA.crt", k>> >>
      BY <3>1, Written
    <3>4. certPc' = "root"
      BY <1>1, <3>1, Written
    <3> QED
      BY <1>1, <3>2, <3>3, <3>4 DEF RootWrites, RootSound, ServerSound
  <2>2. CASE pending = << <<"rootCA.crt", files["rootCA.key"]>> >>
    <3>1. /\ Head(pending)[1] = "rootCA.crt" /\ Head(pending)[2] = files["rootCA.key"]
          /\ Tail(pending) = <<>> /\ Len(pending) = 1
      BY <2>2, OnePair
    <3>2. files' = [files EXCEPT !["rootCA.crt"] = files["rootCA.key"]]
      BY <3>1, Written
    <3>3. pending' = <<>>
      BY <3>1, Written
    <3>4. certPc' = "server"
      BY <1>1, <3>1, Written
    <3>5. ~newer'
      BY <3>1, Written DEF Touch
    <3>6. RootPair'
      BY <3>2 DEF RootPair
    <3>7. ~ServerComplete'
      BY <3>5 DEF ServerComplete
    <3> QED
      BY <3>2, <3>3, <3>4, <3>6, <3>7 DEF RootSound, ServerSound
  <2> QED
    BY <1>1, <2>1, <2>2 DEF RootWrites, WriteFile
<1>2. CASE certPc = "server"
  <2>1. ASSUME NEW k,
               pending = << <<"server.key", k>>, <<"server.crt", <<k, files["rootCA.key"]>> >> >>
        PROVE  CertPart'
    <3>1. /\ Head(pending)[1] = "server.key" /\ Head(pending)[2] = k
          /\ Tail(pending) = << <<"server.crt", <<k, files["rootCA.key"]>> >> >> /\ Len(pending) = 2
      BY <2>1, TwoPairs
    <3>2. files' = [files EXCEPT !["server.key"] = k]
      BY <3>1, Written
    <3>3. pending' = << <<"server.crt", <<k, files["rootCA.key"]>> >> >>
      BY <3>1, Written
    <3>4. certPc' = "server" /\ torn' = torn
      BY <1>2, <3>1, Written
    <3>5. ServerWrites'
      BY <3>2, <3>3 DEF ServerWrites
    <3>6. "root" \notin torn => RootPair'
      BY <1>2, <3>2 DEF RootSound, RootPair
    <3> QED
      BY <3>2, <3>3, <3>4, <3>5, <3>6 DEF RootSound, ServerSound
  <2>2. CASE pending = << <<"server.crt", <<files["server.key"], files["rootCA.key"]>> >> >>
    <3> DEFINE c == <<files["server.key"], files["rootCA.key"]>>
    <3>1. /\ Head(pending)[1] = "server.crt" /\ Head(pending)[2] = c
          /\ Tail(pending) = <<>> /\ Len(pending) = 1
      BY <2>2, OnePair
    <3>2. files' = [files EXCEPT !["server.crt"] = c]
      BY <3>1, Written
    <3>3. pending' = <<>>
      BY <3>1, Written
    <3>4. certPc' = "ok" /\ torn' = torn \ {"server"}
      BY <1>2, <3>1, Written
    <3>5. "root" \notin torn' => RootPair' /\ Chain'
      BY <1>2, <3>2, <3>4 DEF RootSound, RootPair, Chain
    <3> QED
      BY <3>2, <3>3, <3>4, <3>5 DEF RootSound, ServerSound
  <2> QED
    BY <1>2, <2>1, <2>2 DEF ServerWrites, WriteFile
<1> QED
  BY <1>1, <1>2

LEMMA CertStepKeeps ==
  ASSUME CertPart, CertStep
  PROVE  CertPart'
<1> USE DEF CertPart, File
<1>1. CASE UseRoot
  BY <1>1 DEF UseRoot, RootSound, ServerSound, RootComplete, ServerComplete, Exists, RootPair, Chain
<1>2. CASE GenerateRoot
  BY <1>2 DEF GenerateRoot, RootSound, ServerSound, RootWrites
<1>3. CASE UseServer
  BY <1>3 DEF UseServer, RootSound, ServerSound, RootComplete, ServerComplete, Exists, RootPair, Chain
<1>4. CASE GenerateServer
  BY <1>4 DEF GenerateServer, RootSound, ServerSound, RootComplete, ServerComplete, Exists, RootPair,
              Chain, ServerWrites
<1>5. CASE OpenFile
  BY <1>5 DEF OpenFile, RootSound, ServerSound, RootWrites, ServerWrites, RootPair
<1>6. CASE WriteFile
  BY <1>6, WriteKeeps DEF WriteFile
<1>7. CASE InitEnds
  BY <1>7 DEF InitEnds, RootSound, ServerSound, RootComplete, ServerComplete, Exists, RootPair, Chain
<1> QED
  BY <1>1, <1>2, <1>3, <1>4, <1>5, <1>6, <1>7 DEF CertStep

LEMMA InterruptKeeps ==
  ASSUME CertPart, CertInterrupt
  PROVE  CertPart'
  BY DEF CertPart, CertInterrupt, RootSound, ServerSound, RootComplete, ServerComplete, Exists,
         RootPair, Chain

LEMMA DeleteKeeps ==
  ASSUME CertPart, NEW f \in File, DeleteFile(f)
  PROVE  CertPart'
  BY DEF CertPart, DeleteFile, File, RootSound, ServerSound, RootComplete, ServerComplete, Exists,
         RootPair, Chain

LEMMA CertUnchanged ==
  ASSUME CertInv, UNCHANGED certVars, At("cmd", "ensuring") => At("cmd", "ensuring")'
  PROVE  CertInv'
  BY DEF CertInv, CertPart, certVars, RootSound, ServerSound, RootComplete, ServerComplete, Exists,
         RootPair,
         Chain, RootWrites, ServerWrites

LEMMA ChainStep ==
  ASSUME ProcShape, CertInv, [Next]_vars
  PROVE  ProcShape' /\ CertInv'
<1>0. CertInv <=> CertPart /\ (certPc # "none" => At("cmd", "ensuring"))
  BY DEF CertInv
<1>1. CertInv' <=> CertPart' /\ (certPc # "none" => At("cmd", "ensuring"))'
  BY DEF CertInv
<1> USE DEF ProcShape, Locals, Actors, command, At, Goto, End, Idle
<1>2. CASE SaveConfig
  <2>1. CertPart'
    BY <1>0, <1>2 DEF SaveConfig, CertPart, RootSound, ServerSound, RootComplete, ServerComplete,
                      Exists,
                      RootPair, Chain
  <2> QED
    BY <1>1, <1>2, <2>1 DEF SaveConfig
<1>3. CASE EnsureCerts
  <2>1. CertPart'
    BY <1>0, <1>3, CertStepKeeps DEF EnsureCerts
  <2> QED
    BY <1>1, <1>3, <2>1 DEF EnsureCerts, Return
<1>4. CASE DeleteCertificate
  <2>1. CertPart'
    BY <1>0, <1>4, DeleteKeeps DEF DeleteCertificate
  <2>2. UNCHANGED <<certPc, proc>>
    BY <1>4 DEF DeleteCertificate, DeleteFile
  <2> QED
    BY <1>0, <1>1, <2>1, <2>2
<1>5. CASE Interrupt
  <2>1. ProcShape' /\ ~At("cmd", "ensuring")'
    BY <1>5 DEF Interrupt
  <2>2. CASE At("cmd", "ensuring")
    <3>1. CertInterrupt
      BY <1>5, <2>2 DEF Interrupt
    <3> QED
      BY <1>0, <1>1, <2>1, <3>1, InterruptKeeps DEF CertInterrupt
  <2>3. CASE ~At("cmd", "ensuring")
    <3>1. UNCHANGED certVars
      BY <1>5, <2>3 DEF Interrupt
    <3> QED
      BY <2>1, <2>3, <3>1, CertUnchanged
  <2> QED
    BY <2>2, <2>3
<1>6. CASE UNCHANGED certVars /\ CmdStep
  BY <1>6, CmdShape, CertUnchanged
<1>7. CASE UNCHANGED certVars /\ WatchStep
  BY <1>7, WatchShape, CertUnchanged
<1>8. CASE UNCHANGED certVars /\ UNCHANGED proc
  BY <1>8, CertUnchanged
<1> QED
  BY <1>2, <1>3, <1>4, <1>5, <1>6, <1>7, <1>8, AsideFrame DEF Next, Aside, vars, cliVars

\* After ensure_certs() has succeeded the chain fits, whatever was deleted and interrupted
\* before, if no half that an interruption left looking complete is still in place
\* (core/cert.py).
THEOREM CertificatesFit == Spec => []ChainHolds
<1>1. Init => ProcShape /\ CertInv
  BY InitShape, InitCert
<1>2. ProcShape /\ CertInv /\ [Next]_vars => (ProcShape /\ CertInv)'
  BY ChainStep
<1>3. ProcShape /\ CertInv => ChainHolds
  BY DEF CertInv, CertPart, ServerSound, Chain, ChainHolds
<1> QED
  BY <1>1, <1>2, <1>3, PTL DEF Spec

----------------------------------------------------------------------------
(* functions.yml and routing.yml.  As long as no two generators have met,  *)
(* one that stands between the two writes has written the first.           *)

OneGenerates == ~(Generating("cmd") /\ Generating("watch"))
Halfway == \A a \in Actors : At(a, "routing") => functionsYml = proc[a].parsed

ConfigInv == /\ ProcShape
             /\ ~overlap => OneGenerates /\ Halfway
             /\ ConfigAgrees

\* Steps that write neither file: nobody starts to generate or leaves "routing".
LEMMA ConfigKept ==
  ASSUME ConfigInv, ProcShape', UNCHANGED <<functionsYml, routingYml>>,
         overlap => overlap', suspect => suspect',
         \A a \in Actors : Generating(a)' => Generating(a),
         \A a \in Actors : At(a, "routing")' => At(a, "routing") /\ proc'[a].parsed = proc[a].parsed,
         \A a \in Actors : At(a, "routing") => At(a, "routing")' \/ suspect'
  PROVE  ConfigInv'
  BY DEF ConfigInv, OneGenerates, Halfway, ConfigAgrees, Actors, At

\* A special case: one actor moves.
LEMMA ConfigMoves ==
  ASSUME ConfigInv, ProcShape', UNCHANGED <<functionsYml, routingYml, overlap, suspect>>,
         NEW a \in Actors, proc'[Other(a)] = proc[Other(a)],
         Generating(a)' => Generating(a), ~At(a, "routing"), ~At(a, "routing")'
  PROVE  ConfigInv'
<1>1. \A b \in Actors : b = a \/ b = Other(a)
  BY Others DEF Actors
<1>2. \A b \in Actors : b # a => proc'[b] = proc[b]
  BY <1>1
<1> QED
  BY <1>2, ConfigKept DEF At, Generating

LEMMA GenerateKeepsConfig ==
  ASSUME ConfigInv, NEW a \in Actors, Generate(a)
  PROVE  ConfigInv'
<1> DEFINE b == Other(a)
<1>0. /\ ProcShape /\ ProcShape' /\ proc'[b] = proc[b]
      /\ b \in Actors /\ a # b /\ Actors = {a, b} /\ {"cmd", "watch"} = {a, b}
  BY GenerateFrame, Others DEF ConfigInv, Actors
<1> USE <1>0 DEF ConfigInv, ProcShape, Locals, At, Goto, End, Idle
<1>1. CASE ParseTemplate(a)
  BY <1>1 DEF ParseTemplate, OneGenerates, Halfway, ConfigAgrees, Generating
<1>2. CASE StageSources(a)
  BY <1>2, ConfigMoves DEF StageSources, history, Generating
<1>3. CASE WriteDockerfile(a)
  BY <1>3, ConfigMoves DEF WriteDockerfile, history, Generating
<1>4. CASE WriteFunctionsYml(a)
  BY <1>4 DEF WriteFunctionsYml, history, OneGenerates, Halfway, ConfigAgrees, Generating
<1>5. CASE WriteRoutingYml(a)
  BY <1>5 DEF WriteRoutingYml, history, OneGenerates, Halfway, ConfigAgrees, Generating
<1>6. CASE GenerateFails(a)
  BY <1>6 DEF GenerateFails, StagingLost, project, OneGenerates, Halfway, ConfigAgrees,
              Generating
<1> QED
  BY <1>1, <1>2, <1>3, <1>4, <1>5, <1>6 DEF Generate

LEMMA ProvisionMoves ==
  ASSUME ProcShape, NEW a \in Actors, Provision(a)
  PROVE  /\ proc[a].pc \in {"provision", "list tables", "list buckets", "tables", "buckets"}
         /\ proc'[a].pc \in {"idle", "list tables", "list buckets", "tables", "buckets", "ready"}
<1> USE DEF ProcShape, Locals, Actors, At, Goto, End, Idle, Kinds
<1>1. CASE ReadResources(a)
  BY <1>1 DEF ReadResources
<1>2. CASE \E kind \in Kinds : List(a, kind)
  <2>1. PICK kind \in Kinds : List(a, kind)
    BY <1>2
  <2>2. PICK want : proc' = [proc EXCEPT ![a].want = want, ![a].pc = kind]
    BY <2>1 DEF List
  <2> QED
    BY <2>1, <2>2 DEF List, Listing
<1>3. ASSUME NEW r, Create(a, r) \/ CreateFails(a, r)
      PROVE  proc[a].pc \in Kinds /\ proc'[a].pc = proc[a].pc
  BY <1>3 DEF Create, CreateFails
<1>4. CASE KindDone(a)
  <2>1. /\ Goto(a, "list buckets") \/ Goto(a, "ready") \/ End(a)
        /\ proc[a].pc \in Kinds
    BY <1>4 DEF KindDone
  <2>2. CASE Goto(a, "list buckets") \/ Goto(a, "ready")
    BY <2>1, <2>2
  <2>3. CASE End(a)
    BY <2>1, <2>3
  <2> QED
    BY <2>1, <2>2, <2>3
<1> QED
  BY <1>1, <1>2, <1>3, <1>4 DEF Provision

LEMMA ProvisionKeepsConfig ==
  ASSUME ConfigInv, NEW a \in Actors, Provision(a)
  PROVE  ConfigInv'
<1>1. /\ ProcShape /\ ProcShape' /\ proc'[Other(a)] = proc[Other(a)]
      /\ UNCHANGED <<functionsYml, routingYml, overlap, suspect>>
  BY ProvisionFrame DEF ConfigInv, project
<1> QED
  BY <1>1, ProvisionMoves, ConfigMoves DEF Generating, At

LEMMA CmdKeepsConfig ==
  ASSUME ConfigInv, CmdStep
  PROVE  ConfigInv'
<1>0. ProcShape /\ ProcShape' /\ "cmd" \in Actors /\ proc'[Other("cmd")] = proc[Other("cmd")]
  BY CmdShape, Others DEF ConfigInv, Actors
<1> USE <1>0 DEF ProcShape, Locals, Actors, command, At, Goto, End, Idle, Generating, project, history
<1>1. CASE \E c \in Commands : Start(c)
  <2>1. PICK c \in Commands : Start(c)
    BY <1>1
  <2>2. First(c) \in {"save", "registry", "certs", "down"}
    BY CommandAssumption DEF First
  <2>3. /\ proc["cmd"].pc = "idle" /\ proc'["cmd"].pc = First(c)
        /\ UNCHANGED <<functionsYml, routingYml, overlap, suspect>>
    BY <2>1 DEF Start
  <2> QED
    BY <2>2, <2>3, ConfigMoves
<1>2. CASE NoConfig \/ EnsureRegistry \/ Exit \/ DryRunEnds
  BY <1>2, ConfigMoves DEF NoConfig, EnsureRegistry, Exit, Return, DryRunEnds
<1>3. CASE Generate("cmd")
  BY <1>3, GenerateKeepsConfig
<1>4. CASE BuildBase \/ SkipFunction \/ BuildImage \/ PushImage \/ BuildReturns
  BY <1>4, ConfigMoves DEF BuildBase, SkipFunction, BuildImage, PushImage, BuildReturns,
                           BuildComplete, Return
<1>5. CASE UpCerts \/ ComposeUp \/ ComposeUpFails \/ Ready \/ ComposeDown \/ ComposeDownFails
  BY <1>5, ConfigMoves DEF UpCerts, ComposeUp, ComposeUpFails, Ready, ComposeDown,
                           ComposeDownFails, AfterDown
<1>6. CASE Provision("cmd")
  BY <1>6, ProvisionKeepsConfig
<1> QED
  BY <1>1, <1>2, <1>3, <1>4, <1>5, <1>6 DEF CmdStep

LEMMA WatchKeepsConfig ==
  ASSUME ConfigInv, WatchStep
  PROVE  ConfigInv'
<1>0. ProcShape /\ ProcShape' /\ "watch" \in Actors /\ proc'[Other("watch")] = proc[Other("watch")]
  BY WatchShape, Others DEF ConfigInv, Actors
<1> USE <1>0 DEF ProcShape, Locals, Actors, At, Goto, Generating, project, history
<1>1. CASE DropEvent \/ FunctionChange
  BY <1>1, ConfigKept DEF DropEvent, FunctionChange
<1>2. CASE TemplateChange
  BY <1>2, ConfigMoves DEF TemplateChange, Dispatch
<1>3. CASE Generate("watch")
  BY <1>3, GenerateKeepsConfig
<1>4. CASE RestartGateway \/ RestartFails
  BY <1>4, ConfigMoves DEF RestartGateway, RestartFails
<1>5. CASE Provision("watch")
  BY <1>5, ProvisionKeepsConfig
<1> QED
  BY <1>1, <1>2, <1>3, <1>4, <1>5 DEF WatchStep

LEMMA InitConfig == Init => ConfigInv
  BY InitShape DEF Init, ConfigInv, ConfigAgrees, OneGenerates, Halfway, Generating, At, Idle,
                   Actors

LEMMA ConfigStep ==
  ASSUME ConfigInv, [Next]_vars
  PROVE  ConfigInv'
<1> USE DEF Locals, Actors, command, At, Goto, End, Idle, Generating, history, project
<1>0. ProcShape /\ "cmd" \in Actors
  BY DEF ConfigInv
<1>1. CASE SaveConfig
  <2>1. ProcShape' /\ proc'[Other("cmd")] = proc[Other("cmd")]
    BY <1>0, <1>1, Others DEF SaveConfig, ProcShape
  <2> QED
    BY <1>0, <1>1, <2>1, ConfigMoves DEF SaveConfig, ProcShape
<1>2. CASE EnsureCerts
  <2>1. ProcShape' /\ proc'[Other("cmd")] = proc[Other("cmd")]
    BY <1>0, <1>2, Others DEF EnsureCerts, Return, ProcShape
  <2> QED
    BY <1>0, <1>2, <2>1, ConfigMoves DEF EnsureCerts, Return, ProcShape
<1>3. CASE Interrupt
  <2>1. ProcShape' /\ proc'["watch"] = proc["watch"] /\ proc'["cmd"] = Idle
    BY <1>0, <1>3 DEF Interrupt, ProcShape
  <2>2. /\ UNCHANGED <<functionsYml, routingYml, overlap>>
        /\ suspect => suspect'
    BY <1>3 DEF Interrupt
  <2>3. \A a \in Actors : proc'[a] = proc[a] \/ (a = "cmd" /\ proc'[a].pc = "idle")
    BY <2>1
  <2>4. At("cmd", "routing") => suspect'
    BY <1>3, Zenon DEF Interrupt
  <2>5. \A a \in Actors : At(a, "routing") => At(a, "routing")' \/ suspect'
    <3> SUFFICES ASSUME NEW a \in Actors, At(a, "routing"), ~At(a, "routing")'
                 PROVE  suspect'
      OBVIOUS
    <3>1. a = "cmd"
      BY <2>3
    <3> QED
      BY <2>4, <3>1, Zenon
  <2>6. \A a \in Actors : Generating(a)' => Generating(a)
    BY <2>3
  <2>7. \A a \in Actors : At(a, "routing")' => At(a, "routing") /\ proc'[a].parsed = proc[a].parsed
    BY <2>3
  <2> QED
    BY <2>1, <2>2, <2>5, <2>6, <2>7, ConfigKept
<1>4. CASE CmdStep
  BY <1>4, CmdKeepsConfig
<1>5. CASE WatchStep
  BY <1>5, WatchKeepsConfig
<1>6. CASE UNCHANGED <<proc, functionsYml, routingYml, overlap, suspect>>
  BY <1>0, <1>6, ConfigKept DEF ProcShape
<1> QED
  BY <1>1, <1>2, <1>3, <1>4, <1>5, <1>6, AsideFrame
     DEF Next, Aside, vars, cliVars, DeleteCertificate

\* The two generated files agree, for any interleaving of `esb watch` and the commands,
\* whenever the last generator that wrote routing.yml had run alone, no generator was
\* stopped between the writes since, and none stands there (generator/main.py).
THEOREM GeneratedFilesAgree == Spec => []ConfigAgrees
<1>1. ConfigInv /\ [Next]_vars => ConfigInv'
  BY ConfigStep
<1>2. ConfigInv => ConfigAgrees
  BY DEF ConfigInv
<1> QED
  BY InitConfig, <1>1, <1>2, PTL DEF Spec

----------------------------------------------------------------------------
(* The provisioner of `esb up`.  A table or bucket that it has passed is   *)
(* there or was reported; only a `down`, which is another command, removes *)
(* any, and the watcher's provisioner only adds.                           *)

Late == {"tables", "list buckets", "buckets", "ready"}
Got == resources \cup proc["cmd"].refused

ProvisionInv ==
  /\ ProcShape
  /\ At("cmd", "tables") => Wanted(proc["cmd"].parsed, "tables") \subseteq Got \cup proc["cmd"].want
  /\ proc["cmd"].pc \in {"list buckets", "buckets", "ready"}
       => Wanted(proc["cmd"].parsed, "tables") \subseteq Got
  /\ At("cmd", "buckets") => Wanted(proc["cmd"].parsed, "buckets") \subseteq Got \cup proc["cmd"].want
  /\ At("cmd", "ready") => Wanted(proc["cmd"].parsed, "buckets") \subseteq Got

LEMMA ProvisionKept ==
  ASSUME ProvisionInv, ProcShape', proc'["cmd"] = proc["cmd"], resources \subseteq resources'
  PROVE  ProvisionInv'
  BY DEF ProvisionInv, At, Got

LEMMA NotLate ==
  ASSUME ProcShape', proc'["cmd"].pc \notin Late
  PROVE  ProvisionInv'
  BY DEF ProvisionInv, At, Late

LEMMA ProvisionStep ==
  ASSUME ProvisionInv, Provision("cmd")
  PROVE  ProvisionInv'
<1>0. ProcShape /\ ProcShape' /\ resources \subseteq resources'
  BY ProvisionFrame DEF ProvisionInv, Actors
<1> USE <1>0 DEF ProcShape, Locals, Actors, At, Goto, Kinds
<1>1. CASE ReadResources("cmd")
  BY <1>1, NotLate DEF ReadResources, Late
<1>2. ASSUME NEW kind \in Kinds, List("cmd", kind)
      PROVE  ProvisionInv'
  <2>1. PICK want : /\ proc' = [proc EXCEPT !["cmd"].want = want, !["cmd"].pc = kind]
                    /\ Wanted(proc["cmd"].parsed, kind) \subseteq resources \cup want
    BY <1>2 DEF List
  <2>2. proc["cmd"].pc = Listing(kind)
    BY <1>2 DEF List
  <2>3. CASE kind = "tables"
    BY <2>1, <2>3 DEF ProvisionInv, Got
  <2>4. CASE kind = "buckets"
    BY <2>1, <2>2, <2>4 DEF ProvisionInv, Got, Listing
  <2> QED
    BY <2>3, <2>4
<1>3. ASSUME NEW r, Create("cmd", r)
      PROVE  ProvisionInv'
  <2>1. /\ proc' = [proc EXCEPT !["cmd"].want = @ \ {r}]
        /\ resources' = resources \cup {r}
        /\ proc["cmd"].pc \in Kinds
    BY <1>3 DEF Create
  <2> QED
    BY <2>1 DEF ProvisionInv, Got
<1>4. ASSUME NEW r, CreateFails("cmd", r)
      PROVE  ProvisionInv'
  <2>1. /\ proc' = [proc EXCEPT !["cmd"].want = @ \ {r}, !["cmd"].refused = @ \cup {r}]
        /\ proc["cmd"].pc \in Kinds
    BY <1>4 DEF CreateFails, Refused
  <2> QED
    BY <2>1 DEF ProvisionInv, Got
<1>5. CASE KindDone("cmd")
  <2>1. proc["cmd"].want = {}
    BY <1>5 DEF KindDone
  <2>2. CASE At("cmd", "tables")
    <3>1. Goto("cmd", "list buckets")
      BY <1>5, <2>2 DEF KindDone
    <3> QED
      BY <2>1, <2>2, <3>1 DEF ProvisionInv, Got
  <2>3. CASE At("cmd", "buckets")
    <3>1. Goto("cmd", "ready")
      BY <1>5, <2>3 DEF KindDone
    <3> QED
      BY <2>1, <2>3, <3>1 DEF ProvisionInv, Got
  <2> QED
    BY <1>5, <2>2, <2>3 DEF KindDone
<1> QED
  BY <1>1, <1>2, <1>3, <1>4, <1>5 DEF Provision

LEMMA CmdKeepsProvision ==
  ASSUME ProvisionInv, CmdStep
  PROVE  ProvisionInv'
<1>0. ProcShape /\ ProcShape'
  BY CmdShape DEF ProvisionInv
<1> USE <1>0 DEF ProcShape, Locals, Actors, command, At, Goto, End, Idle
<1>1. ASSUME NEW c \in Commands, Start(c)
      PROVE  ProvisionInv'
  <2>1. First(c) \in {"save", "registry", "certs", "down"}
    BY CommandAssumption DEF First
  <2>2. proc'["cmd"].pc = First(c)
    BY <1>1 DEF Start
  <2> QED
    BY <2>1, <2>2, NotLate DEF Late
<1>2. CASE NoConfig \/ EnsureRegistry \/ Exit \/ DryRunEnds
  <2>1. proc'["cmd"].pc \in {"save", "parse", "compose", "idle"}
    BY <1>2 DEF NoConfig, EnsureRegistry, Exit, Return, DryRunEnds
  <2> QED
    BY <2>1, NotLate DEF Late
<1>3. CASE Generate("cmd")
  <2>1. proc'["cmd"].pc \in {"stage", "dockerfile", "routing", "base", "idle"}
    <3>1. CASE ParseTemplate("cmd") \/ StageSources("cmd") \/ WriteDockerfile("cmd")
      BY <3>1 DEF ParseTemplate, StageSources, WriteDockerfile
    <3>2. CASE WriteFunctionsYml("cmd") \/ WriteRoutingYml("cmd") \/ GenerateFails("cmd")
      BY <3>2 DEF WriteFunctionsYml, WriteRoutingYml, GenerateFails
    <3> QED
      BY <1>3, <3>1, <3>2 DEF Generate
  <2> QED
    BY <2>1, NotLate DEF Late
<1>4. CASE BuildBase \/ SkipFunction \/ BuildImage \/ PushImage \/ BuildReturns
  <2>1. proc'["cmd"].pc \in {"images", "push", "compose", "idle"}
    BY <1>4 DEF BuildBase, SkipFunction, BuildImage, PushImage, BuildReturns, BuildComplete,
                Return
  <2> QED
    BY <2>1, NotLate DEF Late
<1>5. CASE UpCerts \/ ComposeUp \/ ComposeUpFails \/ Ready \/ ComposeDown \/ ComposeDownFails
  <2>1. proc'["cmd"].pc \in {"compose", "registry", "provision", "certs", "idle"}
    BY <1>5 DEF UpCerts, ComposeUp, ComposeUpFails, Ready, ComposeDown, ComposeDownFails,
                AfterDown
  <2> QED
    BY <2>1, NotLate DEF Late
<1>6. CASE Provision("cmd")
  BY <1>6, ProvisionStep
<1> QED
  BY <1>1, <1>2, <1>3, <1>4, <1>5, <1>6 DEF CmdStep

\* "Environment is ready!" is true of every table and bucket of the template that the
\* provisioner read, reported failures apart, with a second provisioner at work and listings
\* that fail (provisioner/main.py, commands/up.py).
THEOREM ReadyIsProvisioned == Spec => []ReadyMeansProvisioned
<1>1. Init => ProvisionInv
  <2>1. Init => proc["cmd"].pc = "idle"
    BY DEF Init, Idle, Actors
  <2> QED
    BY <2>1, InitShape DEF ProvisionInv, At
<1>2. ProvisionInv /\ [Next]_vars => ProvisionInv'
  <2> SUFFICES ASSUME ProvisionInv, [Next]_vars PROVE ProvisionInv'
    OBVIOUS
  <2>0. ProcShape
    BY DEF ProvisionInv
  <2> USE <2>0 DEF Locals, Actors, command, At, Goto, End, Idle, ProcShape
  <2>1. CASE SaveConfig
    BY <2>1, NotLate DEF SaveConfig, Late
  <2>2. CASE EnsureCerts
    <3>1. ProcShape' /\ (proc' = proc \/ proc'["cmd"].pc \in {"compose", "idle"})
      BY <2>2 DEF EnsureCerts, Return
    <3> QED
      BY <2>2, <3>1, NotLate DEF EnsureCerts, Late
  <2>3. CASE Interrupt
    BY <2>3, NotLate DEF Interrupt, Late
  <2>4. CASE CmdStep
    BY <2>4, CmdKeepsProvision
  <2>5. CASE WatchStep
    BY <2>5, WatchShape, ProvisionKept
  <2>6. CASE UNCHANGED <<proc, resources>>
    BY <2>6, ProvisionKept
  <2> QED
    BY <2>1, <2>2, <2>3, <2>4, <2>5, <2>6, AsideFrame
       DEF Next, Aside, vars, cliVars, DeleteCertificate, world
<1>3. ProvisionInv => ReadyMeansProvisioned
  BY DEF ProvisionInv, ReadyMeansProvisioned, Kinds, At, Got
<1> QED
  BY <1>1, <1>2, <1>3, PTL DEF Spec

----------------------------------------------------------------------------
(* `esb build`.  Every function of the parsed template is still to be done *)
(* or has what it needs from the step before; names tell functions apart,  *)
(* so that no later function overwrites an earlier one's directory or      *)
(* image, and a watcher that would do so sets overlap first.               *)

LEMMA RangeHeadTail ==
  ASSUME NEW T, NEW s \in Seq(T), s # <<>>
  PROVE  /\ Head(s) \in Range(s) /\ Head(s) \in T
         /\ Tail(s) \in Seq(T)
         /\ Range(s) = {Head(s)} \cup Range(Tail(s))
<1>1. /\ Len(s) \in Nat \ {0} /\ DOMAIN s = 1..Len(s)
      /\ Head(s) = s[1] /\ Head(s) \in T
      /\ Tail(s) \in Seq(T) /\ Len(Tail(s)) = Len(s) - 1
      /\ \A i \in 1..(Len(s) - 1) : Tail(s)[i] = s[i + 1]
  OBVIOUS
<1>2. DOMAIN Tail(s) = 1..Len(Tail(s))
  BY <1>1, LenProperties
<1>3. DOMAIN Tail(s) = 1..(Len(s) - 1)
  BY <1>1, <1>2
<1>4. ASSUME NEW i \in 1..Len(s), i # 1
      PROVE  i - 1 \in 1..(Len(s) - 1) /\ s[i] = Tail(s)[i - 1]
  <2>1. i - 1 \in 1..(Len(s) - 1) /\ (i - 1) + 1 = i
    BY <1>1, <1>4
  <2>2. Tail(s)[i - 1] = s[(i - 1) + 1]
    BY <1>1, <2>1
  <2> QED
    BY <2>1, <2>2
<1>5. \A i \in 1..(Len(s) - 1) : i + 1 \in 1..Len(s)
  BY <1>1
<1>6. Head(s) \in Range(s)
  BY <1>1 DEF Range
<1>7. \A x \in Range(s) : x = Head(s) \/ x \in Range(Tail(s))
  <2> SUFFICES ASSUME NEW i \in 1..Len(s), i # 1 PROVE s[i] \in Range(Tail(s))
    BY <1>1 DEF Range
  <2> QED
    BY <1>3, <1>4 DEF Range
<1>8. \A x \in Range(Tail(s)) : x \in Range(s)
  BY <1>1, <1>3, <1>5 DEF Range
<1> QED
  BY <1>1, <1>6, <1>7, <1>8

LEMMA RangeEmpty == Range(<<>>) = {}
  BY DEF Range

\* Of the layers with one directory name that were found, the last decides.
LEMMA LastLayerStays ==
  ASSUME NEW layers, layers \in Seq(Range(layers)), NEW l \in Range(layers), l.source = "tree"
  PROVE  \/ l.id \in S!StagedLayers(layers)
         \/ \E k \in Range(layers) \ {l} : k.dir = l.dir /\ S!Found(k)
<1> DEFINE n == Len(layers)
           same == {j \in Nat : j < n /\ layers[n - j].dir = l.dir /\ S!Found(layers[n - j])}
<1>1. n \in Nat /\ DOMAIN layers = 1..n
  BY LenProperties
<1>2. PICK i \in 1..n : layers[i] = l
  BY <1>1 DEF Range
<1> HIDE DEF n
<1>3. n - i \in same
  <2>1. n - i \in Nat /\ n - i < n /\ n - (n - i) = i
    BY <1>1
  <2>2. S!Found(l)
    BY DEF S!Found
  <2> QED
    BY <1>2, <2>1, <2>2
<1>4. PICK j \in same : \A m \in same : ~(<<m, j>> \in OpToRel(<, Nat))
  BY <1>3, NatLessThanWellFounded, WFMin
<1>5. \A m \in same : ~(m < j)
  BY <1>4 DEF OpToRel
<1> DEFINE last == n - j
<1>6. j \in Nat /\ j < n /\ layers[last].dir = l.dir /\ S!Found(layers[last])
  BY <1>4
<1>7. last \in 1..n
  BY <1>1, <1>6
<1>8. ASSUME NEW m \in 1..n, m > last, layers[m].dir = l.dir, S!Found(layers[m])
      PROVE  FALSE
  <2>1. n - m \in Nat /\ n - m < n /\ n - (n - m) = m /\ n - m < j
    BY <1>1, <1>6, <1>8
  <2>2. n - m \in same
    BY <1>8, <2>1
  <2> QED
    BY <1>5, <2>1, <2>2
<1>9. layers[last] = l => l.id \in S!StagedLayers(layers)
  BY <1>1, <1>6, <1>7, <1>8 DEF S!StagedLayers
<1>10. layers[last] \in Range(layers)
  BY <1>1, <1>7 DEF Range
<1> QED
  BY <1>6, <1>9, <1>10

FnsOf(v) == Range(Fns[v])
Image(v, f) == [dockerfile |-> v, layers |-> S!StagedLayers(f.layers)]
Prepared(v, f) == /\ staged[f.name] = S!StagedLayers(f.layers)
                  /\ dockerfile[f.name] = v

InBuild == {"stage", "dockerfile", "routing", "base", "images", "push"}

BuildShape ==
  /\ template \in Versions
  /\ DOMAIN staged = FnNames /\ DOMAIN dockerfile = FnNames /\ DOMAIN registry = FnNames
  /\ proc["cmd"].pc \in InBuild => /\ proc["cmd"].parsed \in Versions
                                   /\ proc["cmd"].left \in Seq(FnsOf(proc["cmd"].parsed))
  /\ proc["cmd"].pc \in {"dockerfile", "push"} => proc["cmd"].left # <<>>
  /\ proc["cmd"].pc \in {"routing", "base", "images", "push"} => ~DryRun("cmd")

SoFar ==
  LET p == proc["cmd"] IN
  /\ p.pc \in {"stage", "dockerfile"} =>
       \A f \in FnsOf(p.parsed) : f \in Range(p.left) \/ Prepared(p.parsed, f)
  /\ p.pc = "dockerfile" => staged[Head(p.left).name] = S!StagedLayers(Head(p.left).layers)
  /\ p.pc \in {"routing", "base", "images", "push"} =>
       \A f \in FnsOf(p.parsed) : Prepared(p.parsed, f)
  /\ p.pc \in {"images", "push"} =>
       \A f \in FnsOf(p.parsed) : f \in Range(p.left) \/ registry[f.name] = Image(p.parsed, f)
  /\ p.pc = "push" => p.image = Image(p.parsed, Head(p.left))

BuildInv == /\ ConfigInv
            /\ BuildShape
            /\ ~overlap /\ ~DryRun("cmd") => SoFar

LEMMA FunctionFacts ==
  ASSUME NEW v \in Versions
  PROVE  /\ Fns[v] \in Seq(FnsOf(v))
         /\ v \in Int /\ v # -1
         /\ \A f \in FnsOf(v) : f.name \in FnNames /\ Image(v, f) # None
         /\ \A f, g \in FnsOf(v) : f.name = g.name => f = g
<1>1. \A f \in FnsOf(v) : f.name \in FnNames
  BY DEF FnNames, FnsOf
<1> QED
  BY <1>1, TemplateAssumption DEF FnsOf, Image

----------------------------------------------------------------------------
LEMMA BuildKept ==
  ASSUME BuildInv, ConfigInv', template' \in Versions, proc'["cmd"] = proc["cmd"],
         UNCHANGED <<staged, dockerfile, registry>>, overlap => overlap'
  PROVE  BuildInv'
<1>1. BuildShape'
  BY DEF BuildInv, BuildShape, DryRun
<1>2. SoFar => SoFar'
  BY DEF SoFar, Prepared
<1> QED
  BY <1>1, <1>2 DEF BuildInv, DryRun

LEMMA NotBuilding ==
  ASSUME BuildInv, ConfigInv', template' \in Versions, proc'["cmd"].pc \notin InBuild,
         DOMAIN staged' = FnNames, DOMAIN dockerfile' = FnNames, DOMAIN registry' = FnNames
  PROVE  BuildInv'
<1>1. BuildShape'
  BY DEF BuildInv, BuildShape, InBuild
<1>2. SoFar'
  BY DEF SoFar, InBuild
<1> QED
  BY <1>1, <1>2 DEF BuildInv

LEMMA Overlapping ==
  ASSUME BuildInv, ConfigInv', template' \in Versions, proc'["cmd"] = proc["cmd"], overlap',
         DOMAIN staged' = FnNames, DOMAIN dockerfile' = FnNames, UNCHANGED registry
  PROVE  BuildInv'
<1>1. BuildShape'
  BY DEF BuildInv, BuildShape, DryRun
<1> QED
  BY <1>1 DEF BuildInv

LEMMA BuildBegins ==
  ASSUME BuildInv, ConfigInv', ParseTemplate("cmd")
  PROVE  BuildInv'
<1>0. ProcShape /\ BuildShape
  BY DEF BuildInv, ConfigInv
<1>1. /\ template' = template /\ registry' = registry
      /\ DOMAIN staged' = FnNames /\ DOMAIN dockerfile' = FnNames
  BY <1>0 DEF ParseTemplate, world, BuildShape
<1>2. /\ proc'["cmd"].pc = "stage" /\ proc'["cmd"].parsed = template
      /\ proc'["cmd"].left = Fns[template]
  BY <1>0 DEF ParseTemplate, ProcShape, Actors, Locals
<1>3. BuildShape'
  BY <1>0, <1>1, <1>2, FunctionFacts DEF BuildShape
<1>4. SoFar'
  BY <1>2 DEF SoFar, FnsOf
<1> QED
  BY <1>3, <1>4 DEF BuildInv

LEMMA BuildStages ==
  ASSUME BuildInv, ConfigInv', StageSources("cmd")
  PROVE  BuildInv'
<1> DEFINE p == proc["cmd"]
           f == Head(p.left)
<1>0. ProcShape /\ BuildShape
  BY DEF BuildInv, ConfigInv
<1>1. /\ p.pc = "stage" /\ p.left # <<>>
      /\ p.parsed \in Versions /\ p.left \in Seq(FnsOf(p.parsed))
      /\ f \in FnsOf(p.parsed) /\ f \in Range(p.left) /\ f.name \in FnNames
  <2>1. p.pc = "stage" /\ p.left # <<>>
    BY DEF StageSources, At
  <2>2. p.parsed \in Versions /\ p.left \in Seq(FnsOf(p.parsed))
    BY <1>0, <2>1 DEF BuildShape, InBuild
  <2>3. f \in FnsOf(p.parsed) /\ f \in Range(p.left)
    BY <2>1, <2>2, RangeHeadTail
  <2> QED
    BY <2>1, <2>2, <2>3, FunctionFacts
<1>2. /\ staged' = [staged EXCEPT ![f.name] = S!StagedLayers(f.layers)]
      /\ UNCHANGED <<template, dockerfile, registry, overlap>>
  BY DEF StageSources, Function, world, history
<1>3. /\ proc'["cmd"].pc = "dockerfile" /\ proc'["cmd"].command = p.command
      /\ proc'["cmd"].parsed = p.parsed /\ proc'["cmd"].left = p.left
  BY <1>0 DEF StageSources, Goto, ProcShape, Actors, Locals
<1>4. BuildShape'
  BY <1>0, <1>1, <1>2, <1>3 DEF BuildShape
<1>5. ASSUME SoFar PROVE SoFar'
  <2>1. \A g \in FnsOf(p.parsed) : g = f \/ (g.name # f.name /\ g.name \in FnNames)
    BY <1>1, FunctionFacts
  <2>2. \A g \in FnsOf(p.parsed) :
          \/ g \in Range(p.left)
          \/ staged'[g.name] = S!StagedLayers(g.layers) /\ dockerfile'[g.name] = p.parsed
    BY <1>0, <1>1, <1>2, <1>5, <2>1 DEF SoFar, Prepared, BuildShape
  <2>3. staged'[f.name] = S!StagedLayers(f.layers)
    BY <1>0, <1>1, <1>2 DEF BuildShape
  <2> QED
    BY <1>3, <2>2, <2>3 DEF SoFar, Prepared
<1> QED
  BY <1>2, <1>3, <1>4, <1>5 DEF BuildInv, DryRun

LEMMA BuildWritesDockerfile ==
  ASSUME BuildInv, ConfigInv', WriteDockerfile("cmd")
  PROVE  BuildInv'
<1> DEFINE p == proc["cmd"]
           f == Head(p.left)
<1>0. ProcShape /\ BuildShape
  BY DEF BuildInv, ConfigInv
<1>1. /\ p.pc = "dockerfile" /\ p.left # <<>>
      /\ p.parsed \in Versions /\ p.left \in Seq(FnsOf(p.parsed))
  BY <1>0 DEF WriteDockerfile, At, BuildShape, InBuild
<1>2. /\ f \in FnsOf(p.parsed) /\ Tail(p.left) \in Seq(FnsOf(p.parsed))
      /\ Range(p.left) = {f} \cup Range(Tail(p.left))
  BY <1>1, RangeHeadTail
<1>3. /\ dockerfile' = IF DryRun("cmd") THEN dockerfile ELSE [dockerfile EXCEPT ![f.name] = p.parsed]
      /\ UNCHANGED <<template, staged, registry, overlap>>
  BY DEF WriteDockerfile, Function, world, history
<1>4. /\ proc'["cmd"].pc = "stage" /\ proc'["cmd"].command = p.command
      /\ proc'["cmd"].parsed = p.parsed /\ proc'["cmd"].left = Tail(p.left)
  BY <1>0 DEF WriteDockerfile, ProcShape, Actors, Locals
<1>5. BuildShape'
  <2>1. DOMAIN dockerfile' = FnNames
    BY <1>0, <1>3 DEF BuildShape
  <2> QED
    BY <1>0, <1>1, <1>2, <1>3, <1>4, <2>1 DEF BuildShape
<1>6. ASSUME SoFar, ~DryRun("cmd") PROVE SoFar'
  <2>1. \A g \in FnsOf(p.parsed) : (g = f \/ g.name # f.name) /\ g.name \in FnNames
    BY <1>1, <1>2, FunctionFacts
  <2>2. \A g \in FnsOf(p.parsed) : g # f => dockerfile'[g.name] = dockerfile[g.name]
    BY <1>0, <1>3, <1>6, <2>1 DEF BuildShape
  <2>3. staged'[f.name] = S!StagedLayers(f.layers) /\ dockerfile'[f.name] = p.parsed
    BY <1>0, <1>1, <1>2, <1>3, <1>6, <2>1 DEF BuildShape, SoFar, Prepared
  <2>4. \A g \in FnsOf(p.parsed) :
          \/ g \in Range(Tail(p.left))
          \/ staged'[g.name] = S!StagedLayers(g.layers) /\ dockerfile'[g.name] = p.parsed
    BY <1>1, <1>2, <1>3, <1>6, <2>2, <2>3 DEF SoFar, Prepared
  <2> QED
    BY <1>4, <2>4 DEF SoFar, Prepared
<1> QED
  BY <1>3, <1>4, <1>5, <1>6 DEF BuildInv, DryRun

LEMMA BuildWritesYml ==
  ASSUME BuildInv, ConfigInv', WriteFunctionsYml("cmd") \/ WriteRoutingYml("cmd")
  PROVE  BuildInv'
<1> DEFINE p == proc["cmd"]
<1>0. ProcShape /\ BuildShape
  BY DEF BuildInv, ConfigInv
<1>1. UNCHANGED <<template, staged, dockerfile, registry, overlap>>
  BY DEF WriteFunctionsYml, WriteRoutingYml, world, history
<1>2. \/ p.pc = "stage" /\ p.left = <<>> /\ ~DryRun("cmd") /\ proc'["cmd"].pc = "routing"
      \/ p.pc = "routing" /\ proc'["cmd"].pc = "base"
  <2>1. CASE WriteFunctionsYml("cmd")
    BY <1>0, <2>1 DEF WriteFunctionsYml, At, Goto, ProcShape, Actors, Locals
  <2>2. CASE WriteRoutingYml("cmd")
    BY <1>0, <2>2 DEF WriteRoutingYml, At, Goto, ProcShape, Actors, Locals
  <2> QED
    BY <2>1, <2>2
<1>3. /\ proc'["cmd"].command = p.command
      /\ proc'["cmd"].parsed = p.parsed /\ proc'["cmd"].left = p.left
  BY <1>0 DEF WriteFunctionsYml, WriteRoutingYml, Goto, ProcShape, Actors, Locals
<1>4. BuildShape'
  BY <1>0, <1>1, <1>2, <1>3 DEF BuildShape, InBuild, DryRun
<1>5. ASSUME SoFar PROVE SoFar'
  <2>1. \A f \in FnsOf(p.parsed) : Prepared(p.parsed, f)
    BY <1>2, <1>5, RangeEmpty DEF SoFar
  <2> QED
    BY <1>1, <1>2, <1>3, <2>1 DEF SoFar, Prepared
<1> QED
  BY <1>1, <1>3, <1>4, <1>5 DEF BuildInv, DryRun

LEMMA ImagesBegin ==
  ASSUME BuildInv, ConfigInv', BuildBase
  PROVE  BuildInv'
<1> DEFINE p == proc["cmd"]
<1>0. ProcShape /\ BuildShape
  BY DEF BuildInv, ConfigInv
<1>1. /\ UNCHANGED <<template, staged, dockerfile, registry, overlap>>
      /\ p.pc = "base"
  BY DEF BuildBase, At, project, world, history
<1>2. /\ proc'["cmd"].pc = "images" /\ proc'["cmd"].command = p.command
      /\ proc'["cmd"].parsed = p.parsed /\ proc'["cmd"].left = Fns[p.parsed]
  BY <1>0 DEF BuildBase, ProcShape, Actors, Locals
<1>3. p.parsed \in Versions /\ Fns[p.parsed] \in Seq(FnsOf(p.parsed)) /\ ~DryRun("cmd")
  BY <1>0, <1>1, FunctionFacts DEF BuildShape, InBuild
<1>4. BuildShape'
  BY <1>0, <1>1, <1>2, <1>3 DEF BuildShape, DryRun
<1>5. ASSUME SoFar PROVE SoFar'
  BY <1>1, <1>2, <1>5 DEF SoFar, Prepared, FnsOf
<1> QED
  BY <1>1, <1>2, <1>4, <1>5 DEF BuildInv, DryRun

LEMMA ImageNext ==
  ASSUME BuildInv, proc["cmd"].pc \in {"images", "push"}, proc["cmd"].left # <<>>
  PROVE  LET p == proc["cmd"]
             f == Head(p.left)
         IN /\ ProcShape /\ BuildShape /\ ~DryRun("cmd")
            /\ p.parsed \in Versions /\ p.left \in Seq(FnsOf(p.parsed))
            /\ Tail(p.left) \in Seq(FnsOf(p.parsed))
            /\ f \in FnsOf(p.parsed) /\ f.name \in FnNames
            /\ Range(p.left) = {f} \cup Range(Tail(p.left))
<1> DEFINE p == proc["cmd"]
<1>1. ProcShape /\ BuildShape
  BY DEF BuildInv, ConfigInv
<1>2. p.parsed \in Versions /\ p.left \in Seq(FnsOf(p.parsed)) /\ ~DryRun("cmd")
  BY <1>1 DEF BuildShape, InBuild
<1>3. /\ Tail(p.left) \in Seq(FnsOf(p.parsed)) /\ Head(p.left) \in FnsOf(p.parsed)
      /\ Range(p.left) = {Head(p.left)} \cup Range(Tail(p.left))
  BY <1>2, RangeHeadTail
<1> QED
  BY <1>1, <1>2, <1>3, FunctionFacts

\* Nothing is passed over unless a watcher interfered: every Dockerfile is there.
LEMMA ImagePassedOver ==
  ASSUME BuildInv, ConfigInv', SkipFunction
  PROVE  BuildInv'
<1> DEFINE p == proc["cmd"]
           f == Head(p.left)
<1>1. /\ p.pc = "images" /\ p.left # <<>> /\ dockerfile[f.name] = -1
      /\ UNCHANGED <<template, staged, dockerfile, registry, overlap>>
  BY DEF SkipFunction, At, Function, project, world, history
<1>2. /\ ProcShape /\ BuildShape /\ ~DryRun("cmd") /\ p.parsed \in Versions
      /\ Tail(p.left) \in Seq(FnsOf(p.parsed)) /\ f \in FnsOf(p.parsed)
  BY <1>1, ImageNext
<1>3. /\ proc'["cmd"].pc = "images" /\ proc'["cmd"].command = p.command
      /\ proc'["cmd"].parsed = p.parsed /\ proc'["cmd"].left = Tail(p.left)
  BY <1>1, <1>2 DEF SkipFunction, ProcShape, Actors, Locals
<1>4. BuildShape'
  BY <1>1, <1>2, <1>3 DEF BuildShape, DryRun
<1>5. ~SoFar
  BY <1>1, <1>2, FunctionFacts DEF SoFar, Prepared
<1> QED
  BY <1>1, <1>2, <1>3, <1>4, <1>5 DEF BuildInv, DryRun

LEMMA ImageBuilt ==
  ASSUME BuildInv, ConfigInv', BuildImage
  PROVE  BuildInv'
<1> DEFINE p == proc["cmd"]
           f == Head(p.left)
<1>1. /\ p.pc = "images" /\ p.left # <<>>
      /\ UNCHANGED <<template, staged, dockerfile, registry, overlap>>
  BY DEF BuildImage, At, project, world, history
<1>2. /\ ProcShape /\ BuildShape /\ ~DryRun("cmd") /\ p.parsed \in Versions
      /\ p.left \in Seq(FnsOf(p.parsed)) /\ f \in FnsOf(p.parsed)
  BY <1>1, ImageNext
<1>3. /\ proc'["cmd"].pc = "push" /\ proc'["cmd"].command = p.command
      /\ proc'["cmd"].parsed = p.parsed /\ proc'["cmd"].left = p.left
      /\ proc'["cmd"].image = [dockerfile |-> dockerfile[f.name], layers |-> staged[f.name]]
  BY <1>2 DEF BuildImage, Function, ProcShape, Actors, Locals
<1>4. BuildShape'
  BY <1>1, <1>2, <1>3 DEF BuildShape, DryRun
<1>5. ASSUME SoFar PROVE SoFar'
  <2>1. /\ \A g \in FnsOf(p.parsed) : Prepared(p.parsed, g)
        /\ \A g \in FnsOf(p.parsed) : g \in Range(p.left) \/ registry[g.name] = Image(p.parsed, g)
    BY <1>1, <1>5 DEF SoFar
  <2>2. proc'["cmd"].image = Image(p.parsed, f)
    BY <1>2, <1>3, <2>1 DEF Prepared, Image
  <2> QED
    BY <1>1, <1>3, <2>1, <2>2 DEF SoFar, Prepared
<1> QED
  BY <1>1, <1>3, <1>4, <1>5 DEF BuildInv, DryRun

LEMMA ImagePushed ==
  ASSUME BuildInv, ConfigInv', PushImage
  PROVE  BuildInv'
<1> DEFINE p == proc["cmd"]
           f == Head(p.left)
<1>0. p.pc = "push" /\ p.left # <<>>
  BY DEF PushImage, At, BuildInv, BuildShape
<1>1. /\ UNCHANGED <<template, staged, dockerfile, overlap>>
      /\ registry' = [registry EXCEPT ![f.name] = p.image]
  BY DEF PushImage, Pushed, Function, project, history
<1>2. /\ ProcShape /\ BuildShape /\ ~DryRun("cmd") /\ p.parsed \in Versions
      /\ Tail(p.left) \in Seq(FnsOf(p.parsed)) /\ f \in FnsOf(p.parsed) /\ f.name \in FnNames
      /\ Range(p.left) = {f} \cup Range(Tail(p.left))
  BY <1>0, ImageNext
<1>3. /\ proc'["cmd"].pc = "images" /\ proc'["cmd"].command = p.command
      /\ proc'["cmd"].parsed = p.parsed /\ proc'["cmd"].left = Tail(p.left)
  BY <1>2 DEF PushImage, ProcShape, Actors, Locals
<1>4. BuildShape'
  BY <1>1, <1>2, <1>3 DEF BuildShape, DryRun
<1>5. ASSUME SoFar PROVE SoFar'
  <2>1. /\ \A g \in FnsOf(p.parsed) : Prepared(p.parsed, g)
        /\ \A g \in FnsOf(p.parsed) : g \in Range(p.left) \/ registry[g.name] = Image(p.parsed, g)
        /\ p.image = Image(p.parsed, f)
    BY <1>0, <1>5 DEF SoFar
  <2>2. registry'[f.name] = Image(p.parsed, f)
    BY <1>1, <1>2, <2>1 DEF BuildShape
  <2>3. \A g \in FnsOf(p.parsed) : g = f \/ registry'[g.name] = registry[g.name]
    BY <1>1, <1>2, FunctionFacts DEF BuildShape
  <2>4. \A g \in FnsOf(p.parsed) : g \in Range(Tail(p.left)) \/ registry'[g.name] = Image(p.parsed, g)
    BY <1>2, <2>1, <2>2, <2>3
  <2> QED
    BY <1>1, <1>3, <2>1, <2>4 DEF SoFar, Prepared
<1> QED
  BY <1>1, <1>3, <1>4, <1>5 DEF BuildInv, DryRun

LEMMA CmdKeepsBuild ==
  ASSUME BuildInv, ConfigInv', CmdStep
  PROVE  BuildInv'
<1>0. ProcShape /\ BuildShape
  BY DEF BuildInv, ConfigInv
<1>1. ASSUME proc'["cmd"].pc \notin InBuild, UNCHANGED <<template, staged, dockerfile>>,
             DOMAIN registry' = FnNames
      PROVE  BuildInv'
  BY <1>0, <1>1, NotBuilding DEF BuildShape
<1> USE DEF ProcShape, Locals, Actors, command, At, Goto, End, Idle, project, world
<1>2. ASSUME NEW c \in Commands, Start(c)
      PROVE  BuildInv'
  <2>1. First(c) \in {"save", "registry", "certs", "down"}
    BY CommandAssumption DEF First
  <2>2. proc'["cmd"].pc = First(c) /\ UNCHANGED <<template, staged, dockerfile, registry>>
    BY <1>0, <1>2 DEF Start
  <2> QED
    BY <1>0, <1>1, <2>1, <2>2 DEF InBuild, BuildShape
<1>3. CASE NoConfig \/ EnsureRegistry \/ Exit \/ DryRunEnds
  <2>1. proc'["cmd"].pc \in {"save", "parse", "compose", "idle"}
    BY <1>0, <1>3 DEF NoConfig, EnsureRegistry, Exit, Return, DryRunEnds
  <2>2. UNCHANGED <<template, staged, dockerfile, registry>>
    BY <1>3 DEF NoConfig, EnsureRegistry, Exit, DryRunEnds
  <2> QED
    BY <1>0, <1>1, <2>1, <2>2 DEF InBuild, BuildShape
<1>4. CASE Generate("cmd")
  <2>1. CASE GenerateFails("cmd")
    <3>1. proc'["cmd"].pc = "idle" /\ UNCHANGED <<template, staged, dockerfile, registry>>
      BY <1>0, <2>1 DEF GenerateFails
    <3> QED
      BY <1>0, <1>1, <3>1 DEF InBuild, BuildShape
  <2> QED
    BY <1>4, <2>1, BuildBegins, BuildStages, BuildWritesDockerfile, BuildWritesYml DEF Generate
<1>5. CASE BuildReturns \/ UpCerts \/ Ready \/ ComposeDownFails
  <2>1. proc'["cmd"].pc \in {"compose", "registry", "certs", "idle"}
    BY <1>0, <1>5 DEF BuildReturns, BuildComplete, Return, UpCerts, Ready, ComposeDownFails,
                      AfterDown
  <2>2. UNCHANGED <<template, staged, dockerfile, registry>>
    BY <1>5 DEF BuildReturns, UpCerts, Ready, ComposeDownFails
  <2> QED
    BY <1>0, <1>1, <2>1, <2>2 DEF InBuild, BuildShape
<1>6. CASE ComposeUp \/ ComposeUpFails \/ ComposeDown
  <2>1. proc'["cmd"].pc \in {"provision", "certs", "idle"}
    BY <1>0, <1>6 DEF ComposeUp, ComposeUpFails, ComposeDown, AfterDown
  <2>2. UNCHANGED <<template, staged, dockerfile>> /\ DOMAIN registry' = FnNames
    BY <1>0, <1>6 DEF ComposeUp, ComposeUpFails, ComposeDown, BuildShape
  <2> QED
    BY <1>0, <1>1, <2>1, <2>2 DEF InBuild, BuildShape
<1>7. CASE Provision("cmd")
  <2>1. proc'["cmd"].pc \in {"idle", "list tables", "list buckets", "tables", "buckets", "ready"}
    BY <1>0, <1>7, ProvisionMoves
  <2>2. UNCHANGED <<template, staged, dockerfile, registry>>
    BY <1>0, <1>7, ProvisionFrame
  <2> QED
    BY <1>0, <1>1, <2>1, <2>2 DEF InBuild, BuildShape
<1> QED
  BY <1>2, <1>3, <1>4, <1>5, <1>6, <1>7, ImagesBegin, ImagePassedOver, ImageBuilt, ImagePushed
     DEF CmdStep

\* The watcher's generator either finds no build under way or sets overlap.
LEMMA WatchKeepsBuild ==
  ASSUME BuildInv, ConfigInv', WatchStep
  PROVE  BuildInv'
<1>0. /\ ProcShape /\ BuildShape
      /\ proc'["cmd"] = proc["cmd"] /\ UNCHANGED registry
  BY WatchShape DEF BuildInv, ConfigInv
<1>1. CASE Generate("watch") /\ ~GenerateFails("watch")
  <2>1. overlap' \/ ~Generating("cmd")
    <3>1. CASE ParseTemplate("watch")
      BY <3>1, Others DEF ParseTemplate
    <3>2. CASE ~ParseTemplate("watch")
      <4>1. Generating("watch") /\ overlap' = overlap
        BY <1>1, <3>2 DEF Generate, StageSources, WriteDockerfile, WriteFunctionsYml,
                          WriteRoutingYml, Generating, At, history
      <4> QED
        BY <4>1 DEF BuildInv, ConfigInv, OneGenerates
    <3> QED
      BY <3>1, <3>2
  <2>2. /\ template' = template
        /\ DOMAIN staged' = FnNames /\ DOMAIN dockerfile' = FnNames
    <3> USE <1>0 DEF BuildShape, project
    <3>1. CASE ParseTemplate("watch")
      BY <3>1 DEF ParseTemplate
    <3>2. CASE StageSources("watch") \/ WriteDockerfile("watch")
      BY <3>2 DEF StageSources, WriteDockerfile
    <3>3. CASE WriteFunctionsYml("watch") \/ WriteRoutingYml("watch")
      BY <3>3 DEF WriteFunctionsYml, WriteRoutingYml
    <3> QED
      BY <1>1, <3>1, <3>2, <3>3 DEF Generate
  <2>3. CASE overlap'
    BY <1>0, <2>2, <2>3, Overlapping DEF BuildShape
  <2>4. CASE ~Generating("cmd")
    <3>1. proc'["cmd"].pc \notin InBuild
      BY <1>0, <2>4 DEF Generating, InBuild
    <3> QED
      BY <1>0, <2>2, <3>1, NotBuilding DEF BuildShape
  <2> QED
    BY <2>1, <2>3, <2>4
<1>2. CASE ~(Generate("watch") /\ ~GenerateFails("watch"))
  <2>1. UNCHANGED <<template, staged, dockerfile, overlap>>
    <3>1. CASE Provision("watch")
      BY <1>0, <3>1, ProvisionFrame DEF Actors, project
    <3>2. CASE DropEvent \/ TemplateChange \/ FunctionChange \/ RestartGateway \/ RestartFails
      BY <3>2 DEF DropEvent, TemplateChange, FunctionChange, RestartGateway, RestartFails,
                  project, history
    <3>3. CASE GenerateFails("watch")
      BY <3>3 DEF GenerateFails, project
    <3> QED
      BY <1>2, <3>1, <3>2, <3>3 DEF WatchStep
  <2> QED
    BY <1>0, <2>1, BuildKept DEF BuildShape
<1> QED
  BY <1>1, <1>2

\* "Build complete." is true, with a watcher beside it that has not generated meanwhile: every
\* function of the parsed template has its image, with every layer that has a tree for a
\* source and a directory name of its own among those found (commands/build.py,
\* generator/main.py).
THEOREM BuildsAreComplete == Spec => []BuildIsComplete
<1>1. Init => BuildInv
  <2> SUFFICES ASSUME Init PROVE BuildInv
    OBVIOUS
  <2>1. ConfigInv
    BY InitConfig
  <2>2. proc["cmd"].pc = "idle"
    BY DEF Init, Idle, Actors
  <2>3. BuildShape
    BY <2>2, TemplateAssumption DEF Init, BuildShape, InBuild
  <2>4. SoFar
    BY <2>2 DEF SoFar
  <2> QED
    BY <2>1, <2>3, <2>4 DEF BuildInv
<1>2. BuildInv /\ [Next]_vars => BuildInv'
  <2> SUFFICES ASSUME BuildInv, [Next]_vars PROVE BuildInv'
    OBVIOUS
  <2>0. ProcShape /\ BuildShape /\ ConfigInv'
    BY ConfigStep DEF BuildInv, ConfigInv
  <2> USE DEF ProcShape, Locals, Actors, command, At, Goto, End, Idle, project, world, history
  <2>1. CASE SaveConfig \/ Interrupt
    <3>1. proc'["cmd"].pc \in {"ensuring", "idle"} /\ UNCHANGED <<template, staged, dockerfile, registry>>
      BY <2>0, <2>1 DEF SaveConfig, Interrupt
    <3> QED
      BY <2>0, <3>1, NotBuilding DEF BuildShape, InBuild
  <2>2. CASE EnsureCerts
    <3>1. /\ proc'["cmd"].pc \in {"compose", "idle", "ensuring"}
          /\ UNCHANGED <<template, staged, dockerfile, registry>>
      BY <2>0, <2>2 DEF EnsureCerts, Return
    <3> QED
      BY <2>0, <3>1, NotBuilding DEF BuildShape, InBuild
  <2>3. CASE CmdStep
    BY <2>0, <2>3, CmdKeepsBuild
  <2>4. CASE WatchStep
    BY <2>0, <2>4, WatchKeepsBuild
  <2>5. CASE EditTemplate
    BY <2>0, <2>5, BuildKept DEF EditTemplate
  <2>6. CASE UNCHANGED <<template, proc, staged, dockerfile, registry, overlap>>
    BY <2>0, <2>6, BuildKept DEF BuildShape
  <2>7. CASE WatchStart \/ WatchStop \/ CoolDown \/ ReloadRoutes \/ DeleteCertificate
    BY <2>6, <2>7 DEF WatchStart, WatchStop, CoolDown, ReloadRoutes, DeleteCertificate
  <2> QED
    BY <2>1, <2>2, <2>3, <2>4, <2>5, <2>6, <2>7 DEF Next, vars, cliVars
<1>3. BuildInv => BuildIsComplete
  <2> SUFFICES ASSUME BuildInv, BuildComplete, ~overlap, NEW f \in FnsOf(proc["cmd"].parsed)
               PROVE  /\ registry[f.name] # None
                      /\ registry[f.name].dockerfile = proc["cmd"].parsed
                      /\ \A l \in Range(f.layers) :
                           l.source = "tree" =>
                             \/ l.id \in registry[f.name].layers
                             \/ \E k \in Range(f.layers) \ {l} : k.dir = l.dir /\ S!Found(k)
    BY DEF BuildIsComplete, FnsOf
  <2> DEFINE v == proc["cmd"].parsed
  <2>1. proc["cmd"].pc = "images" /\ proc["cmd"].left = <<>>
    BY DEF BuildComplete, At
  <2>2. v \in Versions /\ ~DryRun("cmd")
    BY <2>1 DEF BuildInv, BuildShape, InBuild
  <2>3. registry[f.name] = Image(v, f)
    BY <2>1, <2>2, RangeEmpty DEF BuildInv, SoFar
  <2>4. Image(v, f) # None /\ f.layers \in Seq(Range(f.layers))
    BY <2>2, FunctionFacts, TemplateAssumption DEF FnsOf
  <2>5. Image(v, f).dockerfile = v /\ Image(v, f).layers = S!StagedLayers(f.layers)
    BY DEF Image
  <2> QED
    BY <2>3, <2>4, <2>5, LastLayerStays
<1> QED
  BY <1>1, <1>2, <1>3, PTL DEF Spec
=============================================================================
