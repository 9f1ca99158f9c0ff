---------------------------- MODULE InstallerProofs ----------------------------
(***************************************************************************)
(* Proofs about Installer, for any number of startup requests, any user    *)
(* files and every bound on commands, faults, torn writes and edits.       *)
(***************************************************************************)
EXTENDS Installer, TLAPS, SequenceTheorems

(***************************************************************************)
(* Plans: the steps a command has yet to take                              *)
(***************************************************************************)

Late == {"dropBackup", "config", "state", "logs", "certs"}
StartOps == {"preflight", "bootout", "bootstrap", "kickstart", "wait"}
ToggleOps == {"gui", "plist", "removePlist"} \cup StartOps

OpsOf(cmd) ==
  IF cmd = "install"
    THEN {"ensurePaths", "readResolver", "backup", "writeResolver", "mkcert", "stage", "plist",
          "gui", "chown"} \cup StartOps
  ELSE IF cmd = "uninstall"
    THEN {"bootout", "removePlist", "gui", "unstage", "restore"} \cup Late
  ELSE IF cmd = "toggle" THEN ToggleOps ELSE StartOps

Is(x, op, s) == x.op = op /\ x.svc = s
Has(plan, op, s) == \E i \in 1..Len(plan) : Is(plan[i], op, s)

\* A step that may stand in the plan of a command ("toggle" is a startup request):
\* only uninstall's menu bar part may fail without ending the command, unless it
\* was asked for; a startup request is about the menu bar alone.
StepOf(cmd, menubar, x) ==
  /\ x \in StepType /\ x.op \in OpsOf(cmd)
  /\ \/ x.must
     \/ /\ cmd = "uninstall" /\ ~menubar /\ x.svc = "menubar"
        /\ x.op \in {"gui", "bootout", "removePlist", "unstage"}
  /\ cmd = "toggle" => x.svc = "menubar"

\* Steps x and y that follow each other.
Adjacent(cmd, x, y) ==
  /\ y.op = "backup" => x.op = "readResolver"
  /\ y.op = "writeResolver" => x.op = "backup"
  /\ y.op \in Late => x.op \in Late \cup {"restore"}
  /\ y.op = "removePlist" => Is(x, "bootout", y.svc)
  /\ (cmd = "install" /\ x.op = "bootout") => Is(y, "bootstrap", x.svc)
  /\ cmd = "uninstall" =>
       /\ ~Is(y, "bootout", "daemon")
       /\ x.op = "gui" => Is(y, "bootout", "menubar")
       /\ x.op = "bootout" => Is(y, "removePlist", x.svc)
       /\ Is(x, "removePlist", "menubar") => Is(y, "unstage", "menubar")

Chain(cmd, menubar, plan) ==
  /\ \A i \in 1..Len(plan) : StepOf(cmd, menubar, plan[i])
  /\ \A i \in 2..Len(plan) : Adjacent(cmd, plan[i - 1], plan[i])

\* The last step completes what the one before it began.
Final(cmd, x) ==
  /\ cmd = "install" => x.op # "bootout"
  /\ cmd = "uninstall" => x.op \notin {"gui", "bootout", "removePlist"}

Shaped(cmd, menubar, plan) ==
  /\ plan \in Plans /\ Chain(cmd, menubar, plan)
  /\ plan # <<>> => Final(cmd, plan[Len(plan)])

\* A part of a plan, with its first and its last step.
Part(cmd, menubar, plan, first, last) ==
  /\ plan \in Plans /\ Chain(cmd, menubar, plan) /\ plan # <<>>
  /\ plan[1] = first /\ plan[Len(plan)] = last

USE InstallerAssumption

LEMMA StepsProperties ==
  ASSUME NEW ops, NEW s \in Services, Len(ops) \in Nat, \A i \in 1..Len(ops) : ops[i] \in Ops
  PROVE  /\ Steps(ops, s) \in Plans /\ Len(Steps(ops, s)) = Len(ops)
         /\ \A i \in 1..Len(ops) : Steps(ops, s)[i] = Step(ops[i], s)
<1>1. Len(ops) \in Nat
  OBVIOUS
<1>2. \A i \in 1..Len(ops) : Step(ops[i], s) \in StepType
  BY DEF Step, StepType
<1>3. Steps(ops, s) \in [1..Len(ops) -> StepType]
  BY <1>2 DEF Steps
<1>4. Steps(ops, s) \in Plans
  BY SMTT(30), <1>1, <1>3, SeqDef DEF Plans
<1>5. DOMAIN Steps(ops, s) = 1..Len(ops)
  BY <1>3
<1>6. Len(Steps(ops, s)) = Len(ops)
  BY <1>1, <1>4, <1>5, LenProperties DEF Plans
<1> QED
  BY <1>4, <1>6 DEF Steps

LEMMA HasJoin ==
  ASSUME NEW s \in Plans, NEW t \in Plans, NEW op, NEW svc, Has(s, op, svc) \/ Has(t, op, svc)
  PROVE  Has(s \o t, op, svc)
<1>1. /\ s \o t \in Plans /\ Len(s \o t) = Len(s) + Len(t)
      /\ \A i \in 1 .. Len(s) + Len(t) : (s \o t)[i] =
                     IF i <= Len(s) THEN s[i] ELSE t[i - Len(s)]
      /\ Len(s) \in Nat /\ Len(t) \in Nat
  BY ConcatProperties, LenProperties DEF Plans
<1>2. CASE Has(s, op, svc)
  BY <1>1, <1>2 DEF Has
<1>3. CASE Has(t, op, svc)
  <2>1. PICK i \in 1..Len(t) : Is(t[i], op, svc)
    BY <1>3 DEF Has
  <2>2. i + Len(s) \in 1..Len(s \o t) /\ (s \o t)[i + Len(s)] = t[i]
    BY <1>1
  <2> QED
    BY <2>1, <2>2 DEF Has
<1> QED
  BY <1>2, <1>3

\* Two parts make a part if the one may follow the other.
LEMMA Join ==
  ASSUME NEW cmd, NEW m \in BOOLEAN, NEW s, NEW t, NEW f, NEW l, NEW g, NEW k,
         Part(cmd, m, s, f, l), Part(cmd, m, t, g, k), Adjacent(cmd, l, g)
  PROVE  /\ Part(cmd, m, s \o t, f, k)
         /\ \A op, svc : Has(s, op, svc) \/ Has(t, op, svc) => Has(s \o t, op, svc)
<1>1. s \in Plans /\ t \in Plans /\ s # <<>> /\ t # <<>>
  BY DEF Part
<1>2. /\ s \o t \in Plans /\ Len(s \o t) = Len(s) + Len(t)
      /\ \A i \in 1 .. Len(s) + Len(t) : (s \o t)[i] =
                     IF i <= Len(s) THEN s[i] ELSE t[i - Len(s)]
  BY <1>1, ConcatProperties DEF Plans
<1>3. Len(s) \in Nat \ {0} /\ Len(t) \in Nat \ {0}
  BY <1>1, EmptySeq DEF Plans
<1> DEFINE st == s \o t
<1> HIDE DEF st
<1>4. /\ st \in Plans /\ Len(st) = Len(s) + Len(t)
      /\ \A i \in 1..Len(s) : st[i] = s[i]
      /\ \A i \in (Len(s) + 1)..(Len(s) + Len(t)) : i - Len(s) \in 1..Len(t) /\ st[i] = t[i - Len(s)]
  BY <1>2, <1>3 DEF st
<1>5. \A i \in 1..Len(st) : StepOf(cmd, m, st[i])
  <2> TAKE i \in 1..Len(st)
  <2>1. CASE i <= Len(s)
    BY <1>3, <1>4, <2>1 DEF Part, Chain
  <2>2. CASE i > Len(s)
    BY SMTT(30), <1>3, <1>4, <2>2 DEF Part, Chain
  <2> QED
    BY <1>3, <1>4, <2>1, <2>2
<1>6. ASSUME NEW i \in 2..Len(st) PROVE Adjacent(cmd, st[i - 1], st[i])
  <2>1. CASE i <= Len(s)
    <3>1. st[i - 1] = s[i - 1] /\ st[i] = s[i] /\ i \in 2..Len(s)
      BY <1>3, <1>4, <2>1
    <3> QED
      BY <3>1 DEF Part, Chain
  <2>2. CASE i = Len(s) + 1
    <3>1. st[i - 1] = s[Len(s)] /\ st[i] = t[1]
      BY SMTT(30), <1>3, <1>4, <2>2
    <3> QED
      BY <3>1 DEF Part
  <2>3. CASE i > Len(s) + 1
    <3>1. /\ st[i - 1] = t[(i - Len(s)) - 1] /\ st[i] = t[i - Len(s)]
          /\ i - Len(s) \in 2..Len(t)
      BY SMTT(30), <1>3, <1>4, <2>3
    <3> QED
      BY <3>1 DEF Part, Chain
  <2> QED
    BY <1>3, <1>4, <2>1, <2>2, <2>3
<1>7. st # <<>> /\ st[1] = f /\ st[Len(st)] = k
  BY SMTT(30), <1>3, <1>4 DEF Part
<1>8. \A op, svc : Has(s, op, svc) \/ Has(t, op, svc) => Has(st, op, svc)
  BY <1>1, HasJoin DEF st
<1> QED
  BY <1>4, <1>5, <1>6, <1>7, <1>8 DEF Part, Chain, st

\* The steps of one service.
LEMMA Block ==
  ASSUME NEW cmd, NEW m \in BOOLEAN, NEW ops, NEW s \in Services, Len(ops) \in Nat \ {0},
         cmd = "toggle" => s = "menubar",
         \A i \in 1..Len(ops) : ops[i] \in Ops /\ ops[i] \in OpsOf(cmd),
         \A i \in 2..Len(ops) : Adjacent(cmd, Step(ops[i - 1], s), Step(ops[i], s))
  PROVE  /\ Part(cmd, m, Steps(ops, s), Step(ops[1], s), Step(ops[Len(ops)], s))
         /\ \A i \in 1..Len(ops) : Has(Steps(ops, s), ops[i], s)
<1> DEFINE q == Steps(ops, s)
<1>1. q \in Plans /\ Len(q) = Len(ops) /\ \A i \in 1..Len(ops) : q[i] = Step(ops[i], s)
  BY StepsProperties
<1>2. Len(ops) \in Nat \ {0}
  OBVIOUS
<1>3. \A i \in 1..Len(ops) : ops[i] \in Ops
  OBVIOUS
<1>4. ASSUME NEW i \in 1..Len(ops)
      PROVE  StepOf(cmd, m, Step(ops[i], s)) /\ Is(Step(ops[i], s), ops[i], s)
  BY <1>3 DEF StepOf, Step, StepType, Is
<1> HIDE DEF q
<1>5. q # <<>> /\ q[1] = Step(ops[1], s) /\ q[Len(q)] = Step(ops[Len(ops)], s)
  BY SMTT(30), <1>1, <1>2
<1>6. Chain(cmd, m, q)
  <2>1. \A i \in 1..Len(q) : StepOf(cmd, m, q[i])
    BY <1>1, <1>4
  <2>2. \A i \in 2..Len(q) : Adjacent(cmd, q[i - 1], q[i])
    <3> TAKE i \in 2..Len(q)
    <3>1. i \in 2..Len(ops) /\ i \in 1..Len(ops) /\ i - 1 \in 1..Len(ops)
      BY <1>1, <1>2
    <3> QED
      BY SMTT(30), <1>1, <3>1
  <2> QED
    BY <2>1, <2>2 DEF Chain
<1>7. \A i \in 1..Len(ops) : Has(q, ops[i], s)
  BY <1>1, <1>4 DEF Has
<1> QED
  BY <1>1, <1>5, <1>6, <1>7 DEF Part, q

LEMMA Single ==
  ASSUME NEW cmd, NEW m \in BOOLEAN, NEW op \in OpsOf(cmd), op \in Ops, NEW s \in Services,
         cmd = "toggle" => s = "menubar"
  PROVE  /\ Part(cmd, m, Steps(<<op>>, s), Step(op, s), Step(op, s))
         /\ Has(Steps(<<op>>, s), op, s)
<1> DEFINE ops == <<op>>
<1>1. Len(ops) = 1 /\ ops[1] = op /\ 1..1 = {1} /\ 2..1 = {}
  OBVIOUS
<1> HIDE DEF ops
<1>2. \A i \in 1..Len(ops) : i = 1 /\ ops[i] \in Ops /\ ops[i] \in OpsOf(cmd)
  BY <1>1
<1>3. \A i \in 2..Len(ops) : Adjacent(cmd, Step(ops[i - 1], s), Step(ops[i], s))
  BY <1>1
<1>4. /\ Part(cmd, m, Steps(ops, s), Step(ops[1], s), Step(ops[Len(ops)], s))
      /\ \A i \in 1..Len(ops) : Has(Steps(ops, s), ops[i], s)
  <2>1. Len(ops) \in Nat \ {0}
    BY <1>1
  <2>2. \A i \in 1..Len(ops) : ops[i] \in Ops /\ ops[i] \in OpsOf(cmd)
    BY <1>2
  <2> QED
    BY <1>3, <2>1, <2>2, Block
<1> QED
  BY <1>1, <1>4 DEF ops

LEMMA WriteResolverPart ==
  ASSUME NEW m \in BOOLEAN
  PROVE  /\ Part("install", m, WriteResolver, Step("readResolver", "daemon"),
                 Step("writeResolver", "daemon"))
         /\ Has(WriteResolver, "writeResolver", "daemon")
<1> DEFINE ops == <<"readResolver", "backup", "writeResolver">>
<1>1. /\ Len(ops) = 3
      /\ ops[1] = "readResolver" /\ ops[2] = "backup" /\ ops[3] = "writeResolver"
  OBVIOUS
<1>2. (\A i \in 1..3 : i \in {1, 2, 3}) /\ (\A i \in 2..3 : i \in {2, 3}) /\ 3 \in 1..3
  OBVIOUS
<1> HIDE DEF ops
<1>3. \A i \in 1..Len(ops) : ops[i] \in Ops /\ ops[i] \in OpsOf("install")
  <2> TAKE i \in 1..Len(ops)
  <2>1. ops[i] \in {"readResolver", "backup", "writeResolver"}
    BY <1>1, <1>2
  <2>2. ops[i] \in Ops
    BY <2>1 DEF Ops
  <2>3. ops[i] \in OpsOf("install")
    BY <2>1 DEF OpsOf
  <2> QED
    BY <2>2, <2>3
<1>4. \A i \in 2..Len(ops) : Adjacent("install", Step(ops[i - 1], "daemon"), Step(ops[i], "daemon"))
  BY <1>1, <1>2 DEF Adjacent, Step, Late, Is
<1>5. /\ Part("install", m, Steps(ops, "daemon"), Step(ops[1], "daemon"), Step(ops[Len(ops)], "daemon"))
      /\ \A i \in 1..Len(ops) : Has(Steps(ops, "daemon"), ops[i], "daemon")
  <2>1. Len(ops) \in Nat \ {0} /\ "daemon" \in Services
    BY <1>1 DEF Services
  <2> QED
    BY <2>1, <1>3, <1>4, Block, Zenon
<1>6. /\ Part("install", m, Steps(ops, "daemon"), Step("readResolver", "daemon"),
              Step("writeResolver", "daemon"))
      /\ Has(Steps(ops, "daemon"), "writeResolver", "daemon")
  BY <1>1, <1>2, <1>5
<1> QED
  BY <1>6 DEF ops, WriteResolver

LEMMA StartPart ==
  ASSUME NEW cmd \in {"install", "start", "toggle"}, NEW m \in BOOLEAN, NEW s \in Services,
         cmd = "toggle" => s = "menubar"
  PROVE  /\ Part(cmd, m, StartService(s), Step("preflight", s), Step("wait", s))
         /\ Has(StartService(s), "bootstrap", s)
<1> DEFINE ops == <<"preflight", "bootout", "bootstrap", "kickstart", "wait">>
<1>1. /\ Len(ops) = 5
      /\ ops[1] = "preflight" /\ ops[2] = "bootout" /\ ops[3] = "bootstrap"
      /\ ops[4] = "kickstart" /\ ops[5] = "wait"
  OBVIOUS
<1>2. (\A i \in 1..5 : i \in {1, 2, 3, 4, 5}) /\ (\A i \in 2..5 : i \in {2, 3, 4, 5})
      /\ 3 \in 1..5
  OBVIOUS
<1> HIDE DEF ops
<1>3. \A i \in 1..Len(ops) : ops[i] \in Ops /\ ops[i] \in OpsOf(cmd)
  <2> TAKE i \in 1..Len(ops)
  <2>1. ops[i] \in StartOps
    <3>1. i = 1 \/ i = 2 \/ i = 3 \/ i = 4 \/ i = 5
      BY <1>1, <1>2
    <3> QED
      BY <1>1, <3>1 DEF StartOps
  <2>2. ops[i] \in Ops
    BY <2>1 DEF StartOps, Ops
  <2> QED
    BY <2>1, <2>2 DEF OpsOf, ToggleOps
<1>4. \A i \in 2..Len(ops) : Adjacent(cmd, Step(ops[i - 1], s), Step(ops[i], s))
  BY <1>1, <1>2 DEF Adjacent, Step, Late, Is
<1>5. /\ Part(cmd, m, Steps(ops, s), Step(ops[1], s), Step(ops[Len(ops)], s))
      /\ \A i \in 1..Len(ops) : Has(Steps(ops, s), ops[i], s)
  <2>1. Len(ops) \in Nat \ {0}
    BY <1>1
  <2> QED
    BY <2>1, <1>3, <1>4, Block
<1>6. /\ Part(cmd, m, Steps(ops, s), Step("preflight", s), Step("wait", s))
      /\ Has(Steps(ops, s), "bootstrap", s)
  BY <1>1, <1>2, <1>5
<1> QED
  BY <1>6 DEF ops, StartService

\* Two steps of one service.
LEMMA Pair ==
  ASSUME NEW cmd, NEW m \in BOOLEAN, NEW s \in Services,
         NEW o \in OpsOf(cmd) \cap Ops, NEW u \in OpsOf(cmd) \cap Ops,
         cmd = "toggle" => s = "menubar", Adjacent(cmd, Step(o, s), Step(u, s))
  PROVE  /\ Part(cmd, m, Steps(<<o, u>>, s), Step(o, s), Step(u, s))
         /\ Has(Steps(<<o, u>>, s), o, s) /\ Has(Steps(<<o, u>>, s), u, s)
<1> DEFINE ops == <<o, u>>
<1>1. Len(ops) = 2 /\ ops[1] = o /\ ops[2] = u
  OBVIOUS
<1>2. (\A i \in 1..2 : i = 1 \/ i = 2) /\ (\A i \in 2..2 : i = 2) /\ 1 \in 1..2 /\ 2 \in 1..2
  OBVIOUS
<1> HIDE DEF ops
<1>3. \A i \in 1..Len(ops) : ops[i] \in Ops /\ ops[i] \in OpsOf(cmd)
  BY <1>1, <1>2
<1>4. \A i \in 2..Len(ops) : Adjacent(cmd, Step(ops[i - 1], s), Step(ops[i], s))
  BY <1>1, <1>2
<1>5. /\ Part(cmd, m, Steps(ops, s), Step(ops[1], s), Step(ops[Len(ops)], s))
      /\ \A i \in 1..Len(ops) : Has(Steps(ops, s), ops[i], s)
  <2>1. Len(ops) \in Nat \ {0}
    BY <1>1
  <2> QED
    BY <2>1, <1>3, <1>4, Block
<1>6. /\ Part(cmd, m, Steps(ops, s), Step(o, s), Step(u, s))
      /\ Has(Steps(ops, s), o, s) /\ Has(Steps(ops, s), u, s)
  BY <1>1, <1>2, <1>5
<1> QED
  BY <1>6 DEF ops

LEMMA InstallPlan ==
  ASSUME NEW m \in BOOLEAN
  PROVE  /\ Shaped("install", m, Install(m))
         /\ Install(m) # <<>> /\ Install(m)[1].op = "ensurePaths"
         /\ Has(Install(m), "writeResolver", "daemon") /\ Has(Install(m), "plist", "daemon")
         /\ Has(Install(m), "stage", "daemon") /\ Has(Install(m), "bootstrap", "daemon")
         /\ m => Has(Install(m), "stage", "menubar")
<1> DEFINE St(op) == Step(op, "daemon")
           Mt(op) == Step(op, "menubar")
           a == Steps(<<"ensurePaths">>, "daemon")
           b == WriteResolver
           c == Steps(<<"mkcert", "stage">>, "daemon")
           d == InstallService("daemon")
           e == StartService("daemon")
           daemonPart == a \o b \o c \o d \o e
           f == Steps(<<"gui", "stage">>, "menubar")
           g == InstallService("menubar")
           h == Steps(<<"chown">>, "menubar")
           k == StartService("menubar")
           menubarPart == f \o g \o h \o k
<1>1. "daemon" \in Services /\ "menubar" \in Services
  BY DEF Services
<1>2. Part("install", m, a, St("ensurePaths"), St("ensurePaths"))
  BY <1>1, Single DEF OpsOf, Ops
<1>3. Part("install", m, b, St("readResolver"), St("writeResolver")) /\ Has(b, "writeResolver", "daemon")
  BY WriteResolverPart
<1>4. Part("install", m, c, St("mkcert"), St("stage")) /\ Has(c, "stage", "daemon")
  <2>1. Adjacent("install", St("mkcert"), St("stage"))
    BY DEF Adjacent, Step, Late, Is
  <2> QED
    BY <1>1, <2>1, Pair DEF OpsOf, Ops
<1>5. Part("install", m, d, St("plist"), St("plist")) /\ Has(d, "plist", "daemon")
  BY <1>1, Single DEF OpsOf, Ops, InstallService
<1>6. Part("install", m, e, St("preflight"), St("wait")) /\ Has(e, "bootstrap", "daemon")
  BY <1>1, StartPart
<1>7. /\ Adjacent("install", St("ensurePaths"), St("readResolver"))
      /\ Adjacent("install", St("writeResolver"), St("mkcert"))
      /\ Adjacent("install", St("stage"), St("plist"))
      /\ Adjacent("install", St("plist"), St("preflight"))
  BY DEF Adjacent, Step, Late, Is
<1>8. /\ Adjacent("install", St("wait"), Mt("gui"))
      /\ Adjacent("install", Mt("gui"), Mt("stage"))
      /\ Adjacent("install", Mt("stage"), Mt("plist"))
      /\ Adjacent("install", Mt("plist"), Mt("chown"))
      /\ Adjacent("install", Mt("chown"), Mt("preflight"))
  BY DEF Adjacent, Step, Late, Is
<1>9. Final("install", St("wait")) /\ Final("install", Mt("wait")) /\ St("ensurePaths").op = "ensurePaths"
  BY DEF Final, Step
<1>10. Part("install", m, f, Mt("gui"), Mt("stage")) /\ Has(f, "stage", "menubar")
  BY <1>1, <1>8, Pair DEF OpsOf, Ops
<1>11. Part("install", m, g, Mt("plist"), Mt("plist"))
  BY <1>1, Single DEF OpsOf, Ops, InstallService
<1>12. Part("install", m, h, Mt("chown"), Mt("chown"))
  BY <1>1, Single DEF OpsOf, Ops
<1>13. Part("install", m, k, Mt("preflight"), Mt("wait"))
  BY <1>1, StartPart
<1> HIDE DEF a, b, c, d, e, f, g, h, k, St, Mt
<1>14. /\ Part("install", m, daemonPart, St("ensurePaths"), St("wait"))
       /\ Has(daemonPart, "writeResolver", "daemon") /\ Has(daemonPart, "plist", "daemon")
       /\ Has(daemonPart, "stage", "daemon") /\ Has(daemonPart, "bootstrap", "daemon")
  <2> DEFINE ab == a \o b
             abc == ab \o c
             abcd == abc \o d
  <2>1. Part("install", m, ab, St("ensurePaths"), St("writeResolver"))
        /\ Has(ab, "writeResolver", "daemon")
    BY <1>2, <1>3, <1>7, Join
  <2> HIDE DEF ab
  <2>2. Part("install", m, abc, St("ensurePaths"), St("stage"))
        /\ Has(abc, "writeResolver", "daemon") /\ Has(abc, "stage", "daemon")
    <3>1. /\ Part("install", m, abc, St("ensurePaths"), St("stage"))
          /\ \A op, svc : Has(ab, op, svc) \/ Has(c, op, svc) => Has(abc, op, svc)
      BY <1>4, <1>7, <2>1, Join
    <3> QED
      BY <1>4, <2>1, <3>1
  <2> HIDE DEF abc
  <2>3. Part("install", m, abcd, St("ensurePaths"), St("plist"))
        /\ Has(abcd, "writeResolver", "daemon")
        /\ Has(abcd, "stage", "daemon") /\ Has(abcd, "plist", "daemon")
    <3>1. /\ Part("install", m, abcd, St("ensurePaths"), St("plist"))
          /\ \A op, svc : Has(abc, op, svc) \/ Has(d, op, svc) => Has(abcd, op, svc)
      BY <1>5, <1>7, <2>2, Join
    <3> QED
      BY <1>5, <2>2, <3>1
  <2> HIDE DEF abcd
  <2>4. Part("install", m, abcd \o e, St("ensurePaths"), St("wait"))
        /\ Has(abcd \o e, "writeResolver", "daemon") /\ Has(abcd \o e, "plist", "daemon")
        /\ Has(abcd \o e, "stage", "daemon") /\ Has(abcd \o e, "bootstrap", "daemon")
    <3>1. /\ Part("install", m, abcd \o e, St("ensurePaths"), St("wait"))
          /\ \A op, svc : Has(abcd, op, svc) \/ Has(e, op, svc) => Has(abcd \o e, op, svc)
      BY <1>6, <1>7, <2>3, Join
    <3> QED
      BY <1>6, <2>3, <3>1
  <2> QED
    BY <2>4 DEF ab, abc, abcd
<1>15. Part("install", m, menubarPart, Mt("gui"), Mt("wait")) /\ Has(menubarPart, "stage", "menubar")
  <2>1. Part("install", m, f \o g, Mt("gui"), Mt("plist")) /\ Has(f \o g, "stage", "menubar")
    BY <1>8, <1>10, <1>11, Join
  <2>2. Part("install", m, f \o g \o h, Mt("gui"), Mt("chown")) /\ Has(f \o g \o h, "stage", "menubar")
    BY <1>8, <1>12, <2>1, Join
  <2> QED
    BY <1>8, <1>13, <2>2, Join
<1>16. Install(m) = daemonPart \o IF m THEN menubarPart ELSE <<>>
  BY DEF Install, a, b, c, d, e, f, g, h, k
<1> HIDE DEF daemonPart, menubarPart
<1>17. CASE m
  <2>1. Install(m) = daemonPart \o menubarPart
    BY <1>16, <1>17
  <2>2. Part("install", m, Install(m), St("ensurePaths"), Mt("wait"))
    <3>1. Part("install", m, daemonPart \o menubarPart, St("ensurePaths"), Mt("wait"))
      BY <1>8, <1>14, <1>15, Join
    <3> QED
      BY <2>1, <3>1
  <2>3. /\ Has(Install(m), "writeResolver", "daemon") /\ Has(Install(m), "plist", "daemon")
        /\ Has(Install(m), "stage", "daemon") /\ Has(Install(m), "bootstrap", "daemon")
        /\ Has(Install(m), "stage", "menubar")
    BY <1>14, <1>15, <2>1, HasJoin DEF Part
  <2> QED
    BY <1>9, <2>2, <2>3 DEF Part, Shaped
<1>18. CASE ~m
  <2>1. Install(m) = daemonPart
    BY <1>14, <1>16, <1>18, ConcatEmptySeq DEF Part, Plans
  <2> QED
    BY <1>9, <1>14, <1>18, <2>1 DEF Part, Shaped
<1> QED
  BY <1>17, <1>18

LEMMA JoinOne ==
  ASSUME NEW s \in Plans, NEW t \in Plans, Len(t) = 1
  PROVE  /\ s \o t \in Plans /\ Len(s \o t) = Len(s) + 1
         /\ \A i \in 1..Len(s) : (s \o t)[i] = s[i]
         /\ (s \o t)[Len(s) + 1] = t[1]
<1>1. Len(s) \in Nat
  BY LenProperties DEF Plans
<1>2. /\ s \o t \in Plans /\ Len(s \o t) = Len(s) + Len(t)
      /\ \A i \in 1 .. Len(s) + Len(t) : (s \o t)[i] =
                     IF i <= Len(s) THEN s[i] ELSE t[i - Len(s)]
  BY ConcatProperties DEF Plans
<1> QED
  BY <1>1, <1>2

\* The menu bar's part of uninstall: four steps that are required or not.
LEMMA MenubarSteps ==
  ASSUME NEW m \in BOOLEAN
  PROVE  LET q == RemoveMenubar(m)
             x(op) == [op |-> op, svc |-> "menubar", must |-> m]
         IN  /\ q \in Plans /\ Len(q) = 4
             /\ q[1] = x("gui") /\ q[2] = x("bootout") /\ q[3] = x("removePlist")
             /\ q[4] = x("unstage")
<1> DEFINE x(op) == [op |-> op, svc |-> "menubar", must |-> m]
           y(op) == Step(op, "menubar")
           a == Steps(<<"gui">>, "menubar")
           b == StopService("menubar")
           c == UninstallService("menubar")
           d == Steps(<<"unstage">>, "menubar")
           all == a \o b \o c \o d
           q == [i \in 1..Len(all) |-> [all[i] EXCEPT !.must = m]]
<1>1. ASSUME NEW op \in Ops
      PROVE  /\ Steps(<<op>>, "menubar") \in Plans
             /\ Len(Steps(<<op>>, "menubar")) = 1 /\ Steps(<<op>>, "menubar")[1] = y(op)
  <2> DEFINE ops == <<op>>
  <2>1. Len(ops) = 1 /\ ops[1] = op /\ "menubar" \in Services /\ \A i \in 1..1 : i = 1
    BY DEF Services
  <2> HIDE DEF ops
  <2>2. Steps(ops, "menubar") \in Plans /\ Len(Steps(ops, "menubar")) = 1
        /\ Steps(ops, "menubar")[1] = y(op)
    BY <2>1, StepsProperties
  <2> QED
    BY <2>2 DEF ops
<1>2. {"gui", "bootout", "removePlist", "unstage"} \subseteq Ops
  BY DEF Ops
<1>3. /\ a \in Plans /\ Len(a) = 1 /\ a[1] = y("gui")
      /\ b \in Plans /\ Len(b) = 1 /\ b[1] = y("bootout")
      /\ c \in Plans /\ Len(c) = 1 /\ c[1] = y("removePlist")
      /\ d \in Plans /\ Len(d) = 1 /\ d[1] = y("unstage")
  BY <1>1, <1>2 DEF StopService, UninstallService
<1> HIDE DEF a, b, c, d
<1>4. /\ all \in Plans /\ Len(all) = 4
      /\ all[1] = y("gui") /\ all[2] = y("bootout") /\ all[3] = y("removePlist")
      /\ all[4] = y("unstage")
  <2> DEFINE ab == a \o b
             abc == ab \o c
  <2>1. ab \in Plans /\ Len(ab) = 2 /\ ab[1] = a[1] /\ ab[2] = b[1]
    <3>1. ab \in Plans /\ Len(ab) = Len(a) + 1 /\ (\A i \in 1..Len(a) : ab[i] = a[i])
          /\ ab[Len(a) + 1] = b[1]
      BY <1>3, JoinOne
    <3> QED
      BY <1>3, <3>1
  <2> HIDE DEF ab
  <2>2. abc \in Plans /\ Len(abc) = 3 /\ abc[1] = a[1] /\ abc[2] = b[1] /\ abc[3] = c[1]
    <3>1. abc \in Plans /\ Len(abc) = Len(ab) + 1 /\ (\A i \in 1..Len(ab) : abc[i] = ab[i])
          /\ abc[Len(ab) + 1] = c[1]
      BY <1>3, <2>1, JoinOne
    <3> QED
      BY <2>1, <3>1
  <2> HIDE DEF abc
  <2> DEFINE abcd == abc \o d
  <2>3. /\ abcd \in Plans /\ Len(abcd) = 4
        /\ abcd[1] = a[1] /\ abcd[2] = b[1] /\ abcd[3] = c[1] /\ abcd[4] = d[1]
    <3>1. abcd \in Plans /\ Len(abcd) = Len(abc) + 1 /\ (\A i \in 1..Len(abc) : abcd[i] = abc[i])
          /\ abcd[Len(abc) + 1] = d[1]
      BY <1>3, <2>2, JoinOne
    <3> QED
      BY <2>2, <3>1
  <2>4. all = abcd
    BY DEF ab, abc
  <2> QED
    BY <1>3, <2>3, <2>4
<1>5. RemoveMenubar(m) = q
  BY DEF RemoveMenubar, a, b, c, d
<1> HIDE DEF all
<1>6. \A op : [y(op) EXCEPT !.must = m] = x(op)
  BY DEF Step
<1>7. /\ q \in [1..4 -> StepType]
      /\ q[1] = x("gui") /\ q[2] = x("bootout") /\ q[3] = x("removePlist")
      /\ q[4] = x("unstage")
  <2>1. \A i \in 1..4 : i = 1 \/ i = 2 \/ i = 3 \/ i = 4
    OBVIOUS
  <2>2. {x("gui"), x("bootout"), x("removePlist"), x("unstage")} \subseteq StepType
    BY <1>2 DEF StepType, Services
  <2>3. q = [i \in 1..4 |-> [all[i] EXCEPT !.must = m]]
    BY <1>4
  <2> HIDE DEF q, x, y
  <2>4. q[1] = x("gui") /\ q[2] = x("bootout") /\ q[3] = x("removePlist") /\ q[4] = x("unstage")
    BY <1>4, <1>6, <2>3
  <2>5. \A i \in 1..4 : q[i] \in StepType
    BY <2>1, <2>2, <2>4
  <2> QED
    BY <2>3, <2>4, <2>5
<1>8. q \in Plans /\ Len(q) = 4
  <2> HIDE DEF q
  <2>1. q \in Plans
    <3>1. q \in [1..4 -> StepType] /\ 4 \in Nat
      BY <1>7
    <3>2. \E n \in Nat : q \in [1..n -> StepType]
      BY <3>1
    <3>3. q \in UNION {[1..n -> StepType] : n \in Nat}
      BY <3>2
    <3> QED
      BY <3>3, SeqDef DEF Plans
  <2>2. DOMAIN q = 1..4
    BY <1>7
  <2>3. Len(q) \in Nat /\ 1..Len(q) = 1..4
    BY <2>1, <2>2, LenProperties DEF Plans
  <2>4. \A n \in Nat : 1..n = 1..4 => n = 4
    <3> TAKE n \in Nat
    <3> HAVE 1..n = 1..4
    <3>1. 4 \in 1..n /\ 5 \notin 1..n
      OBVIOUS
    <3> QED
      BY <3>1
  <2> QED
    BY <2>1, <2>3, <2>4
<1> QED
  BY <1>5, <1>7, <1>8

LEMMA MenubarPart ==
  ASSUME NEW m \in BOOLEAN
  PROVE  LET q == RemoveMenubar(m)
             x(op) == [op |-> op, svc |-> "menubar", must |-> m]
         IN  /\ Part("uninstall", m, q, x("gui"), x("unstage"))
             /\ Has(q, "bootout", "menubar") /\ Has(q, "removePlist", "menubar")
             /\ Has(q, "unstage", "menubar")
<1> DEFINE q == RemoveMenubar(m)
           x(op) == [op |-> op, svc |-> "menubar", must |-> m]
<1>1. /\ q \in Plans /\ Len(q) = 4
      /\ q[1] = x("gui") /\ q[2] = x("bootout") /\ q[3] = x("removePlist") /\ q[4] = x("unstage")
  BY MenubarSteps
<1>2. /\ \A i \in 1..4 : i = 1 \/ i = 2 \/ i = 3 \/ i = 4
      /\ \A i \in 2..4 : (i = 2 \/ i = 3 \/ i = 4) /\ i - 1 \in 1..4
      /\ {1, 2, 3, 4} \subseteq 1..4
  OBVIOUS
<1>3. ASSUME NEW op \in {"gui", "bootout", "removePlist", "unstage"}
      PROVE  StepOf("uninstall", m, x(op)) /\ Is(x(op), op, "menubar")
  BY DEF StepOf, StepType, Ops, OpsOf, Services, Is
<1>4. /\ Adjacent("uninstall", x("gui"), x("bootout"))
      /\ Adjacent("uninstall", x("bootout"), x("removePlist"))
      /\ Adjacent("uninstall", x("removePlist"), x("unstage"))
  BY DEF Adjacent, Late, Is
<1> HIDE DEF q, x
<1>5. Chain("uninstall", m, q)
  <2>1. \A i \in 1..Len(q) : StepOf("uninstall", m, q[i])
    BY <1>1, <1>2, <1>3
  <2>2. \A i \in 2..Len(q) : Adjacent("uninstall", q[i - 1], q[i])
    BY <1>1, <1>2, <1>4
  <2> QED
    BY <2>1, <2>2 DEF Chain
<1>6. Has(q, "bootout", "menubar") /\ Has(q, "removePlist", "menubar") /\ Has(q, "unstage", "menubar")
  BY <1>1, <1>2, <1>3 DEF Has
<1>7. Part("uninstall", m, q, x("gui"), x("unstage"))
  <2>1. q # <<>> /\ q[Len(q)] = x("unstage")
    BY <1>1
  <2> QED
    BY <1>1, <1>5, <2>1 DEF Part
<1> QED
  BY <1>6, <1>7 DEF q, x

\* The clean-up steps, none or some.
LateRun(m, q) ==
  \/ q = <<>>
  \/ \E f, l \in StepType : Part("uninstall", m, q, f, l) /\ f.op \in Late /\ l.op \in Late

LEMMA LateJoin ==
  ASSUME NEW m \in BOOLEAN, NEW s, NEW t, LateRun(m, s), LateRun(m, t)
  PROVE  LateRun(m, s \o t)
<1>1. CASE s = <<>>
  <2>1. t \in Plans
    BY EmptySeq DEF LateRun, Part, Plans
  <2>2. s \o t = t
    BY <1>1, <2>1, ConcatEmptySeq DEF Plans
  <2> QED
    BY <2>2
<1>2. CASE t = <<>>
  <2>1. s \in Plans
    BY EmptySeq DEF LateRun, Part, Plans
  <2>2. s \o t = s
    BY <1>2, <2>1, ConcatEmptySeq DEF Plans
  <2> QED
    BY <2>2
<1>3. CASE s # <<>> /\ t # <<>>
  <2>1. PICK f, l \in StepType : Part("uninstall", m, s, f, l) /\ f.op \in Late /\ l.op \in Late
    BY <1>3 DEF LateRun
  <2>2. PICK g, k \in StepType : Part("uninstall", m, t, g, k) /\ g.op \in Late /\ k.op \in Late
    BY <1>3 DEF LateRun
  <2>3. Adjacent("uninstall", l, g)
    BY <2>1, <2>2 DEF Adjacent, Late, Is
  <2>4. Part("uninstall", m, s \o t, f, k)
    BY <2>1, <2>2, <2>3, Join
  <2> QED
    BY <2>1, <2>2, <2>4 DEF LateRun
<1> QED
  BY <1>1, <1>2, <1>3

LEMMA CleanupRun ==
  ASSUME NEW m \in BOOLEAN, NEW scope
  PROVE  LateRun(m, Cleanup(scope))
<1>1. ASSUME NEW op \in Late PROVE LateRun(m, Asked(op, scope))
  <2>1. op \in OpsOf("uninstall") /\ op \in Ops /\ "daemon" \in Services
    BY DEF OpsOf, Ops, Late, Services
  <2>2. Part("uninstall", m, Steps(<<op>>, "daemon"), Step(op, "daemon"), Step(op, "daemon"))
    BY <2>1, Single
  <2>3. Step(op, "daemon") \in StepType /\ Step(op, "daemon").op = op
    BY <2>1 DEF Step, StepType
  <2>4. LateRun(m, Steps(<<op>>, "daemon"))
    BY <2>2, <2>3 DEF LateRun
  <2>5. LateRun(m, <<>>)
    BY DEF LateRun
  <2> QED
    BY <2>4, <2>5 DEF Asked
<1>2. {"config", "state", "logs", "certs"} \subseteq Late
  BY DEF Late
<1> QED
  BY <1>1, <1>2, LateJoin DEF Cleanup

LEMMA UninstallPlan ==
  ASSUME NEW m \in BOOLEAN, NEW scope
  PROVE  LET q == Uninstall(m, scope)
         IN  /\ Shaped("uninstall", m, q) /\ q # <<>> /\ q[1] = Step("bootout", "daemon")
             /\ Has(q, "bootout", "daemon") /\ Has(q, "removePlist", "daemon")
             /\ Has(q, "restore", "daemon") /\ Has(q, "dropBackup", "daemon")
             /\ Has(q, "bootout", "menubar") /\ Has(q, "removePlist", "menubar")
             /\ Has(q, "unstage", "menubar")
<1> DEFINE St(op) == Step(op, "daemon")
           x(op) == [op |-> op, svc |-> "menubar", must |-> m]
           a == StopService("daemon")
           b == UninstallService("daemon")
           c == RemoveMenubar(m)
           d == RemoveResolver
           e == Cleanup(scope)
           ab == a \o b
           abc == ab \o c
           abcd == abc \o d
<1>1. Part("uninstall", m, a, St("bootout"), St("bootout")) /\ Has(a, "bootout", "daemon")
  BY Single DEF OpsOf, Ops, Services, StopService
<1>2. Part("uninstall", m, b, St("removePlist"), St("removePlist")) /\ Has(b, "removePlist", "daemon")
  BY Single DEF OpsOf, Ops, Services, UninstallService
<1>3. /\ Part("uninstall", m, c, x("gui"), x("unstage"))
      /\ Has(c, "bootout", "menubar") /\ Has(c, "removePlist", "menubar")
      /\ Has(c, "unstage", "menubar")
  BY MenubarPart
<1>4. /\ Adjacent("uninstall", St("bootout"), St("removePlist"))
      /\ Adjacent("uninstall", St("removePlist"), x("gui"))
      /\ Adjacent("uninstall", x("unstage"), St("restore"))
      /\ Adjacent("uninstall", St("restore"), St("dropBackup"))
  BY DEF Adjacent, Step, Late, Is
<1>5. /\ Part("uninstall", m, d, St("restore"), St("dropBackup"))
      /\ Has(d, "restore", "daemon") /\ Has(d, "dropBackup", "daemon")
  BY <1>4, Pair DEF OpsOf, Ops, Services, Late, RemoveResolver
<1>6. LateRun(m, e)
  BY CleanupRun
<1>7. \A l : l.op \in Late => Adjacent("uninstall", St("dropBackup"), l) /\ Final("uninstall", l)
  BY DEF Adjacent, Final, Step, Late, Is
<1>8. Final("uninstall", St("dropBackup"))
  BY DEF Final, Step
<1> HIDE DEF a, b, c, d, e, St, x
<1>9. /\ Part("uninstall", m, ab, St("bootout"), St("removePlist"))
      /\ Has(ab, "bootout", "daemon") /\ Has(ab, "removePlist", "daemon")
  <2>1. /\ Part("uninstall", m, ab, St("bootout"), St("removePlist"))
        /\ \A op, svc : Has(a, op, svc) \/ Has(b, op, svc) => Has(ab, op, svc)
    BY <1>1, <1>2, <1>4, Join
  <2> QED
    BY <1>1, <1>2, <2>1
<1> HIDE DEF ab
<1>10. /\ Part("uninstall", m, abc, St("bootout"), x("unstage"))
       /\ Has(abc, "bootout", "daemon") /\ Has(abc, "removePlist", "daemon")
       /\ Has(abc, "bootout", "menubar") /\ Has(abc, "removePlist", "menubar")
       /\ Has(abc, "unstage", "menubar")
  <2>1. /\ Part("uninstall", m, abc, St("bootout"), x("unstage"))
        /\ \A op, svc : Has(ab, op, svc) \/ Has(c, op, svc) => Has(abc, op, svc)
    BY <1>3, <1>4, <1>9, Join
  <2> QED
    BY <1>3, <1>9, <2>1
<1> HIDE DEF abc
<1> DEFINE All(q) ==
      /\ Has(q, "bootout", "daemon") /\ Has(q, "removePlist", "daemon")
      /\ Has(q, "restore", "daemon") /\ Has(q, "dropBackup", "daemon")
      /\ Has(q, "bootout", "menubar") /\ Has(q, "removePlist", "menubar")
      /\ Has(q, "unstage", "menubar")
<1>11. Part("uninstall", m, abcd, St("bootout"), St("dropBackup")) /\ All(abcd)
  <2>1. /\ Part("uninstall", m, abcd, St("bootout"), St("dropBackup"))
        /\ \A op, svc : Has(abc, op, svc) \/ Has(d, op, svc) => Has(abcd, op, svc)
    BY <1>4, <1>5, <1>10, Join
  <2> QED
    BY <1>5, <1>10, <2>1
<1> HIDE DEF abcd
<1> DEFINE q == abcd \o e
<1>12. \E l : Part("uninstall", m, q, St("bootout"), l) /\ All(q) /\ Final("uninstall", l)
  <2>1. CASE e = <<>>
    <3>1. q = abcd
      BY <1>11, <2>1, ConcatEmptySeq DEF Part, Plans
    <3> QED
      BY <1>8, <1>11, <3>1
  <2>2. CASE e # <<>>
    <3>1. PICK f, l \in StepType : Part("uninstall", m, e, f, l) /\ f.op \in Late /\ l.op \in Late
      BY <1>6, <2>2 DEF LateRun
    <3>2. Adjacent("uninstall", St("dropBackup"), f) /\ Final("uninstall", l)
      BY <1>7, <3>1
    <3>3. /\ Part("uninstall", m, q, St("bootout"), l)
          /\ \A op, svc : Has(abcd, op, svc) \/ Has(e, op, svc) => Has(q, op, svc)
      BY <1>11, <3>1, <3>2, Join
    <3> QED
      BY <1>11, <3>2, <3>3
  <2> QED
    BY <2>1, <2>2
<1>13. Uninstall(m, scope) = q
  BY DEF Uninstall, a, b, c, d, e, ab, abc, abcd
<1> HIDE DEF q, All
<1>14. Shaped("uninstall", m, q) /\ q # <<>> /\ q[1] = St("bootout") /\ All(q)
  BY <1>12 DEF Part, Shaped
<1> QED
  BY <1>13, <1>14 DEF All, St

LEMMA ServicePlans ==
  /\ Shaped("start", FALSE, StartService("daemon")) /\ StartService("daemon")[1].op = "preflight"
  /\ Shaped("stop", FALSE, StopService("daemon")) /\ StopService("daemon")[1].op = "bootout"
  /\ StartService("daemon") # <<>> /\ StopService("daemon") # <<>>
<1>1. Part("start", FALSE, StartService("daemon"), Step("preflight", "daemon"), Step("wait", "daemon"))
  BY StartPart DEF Services
<1>2. Part("stop", FALSE, StopService("daemon"), Step("bootout", "daemon"), Step("bootout", "daemon"))
  BY Single DEF OpsOf, StartOps, Ops, Services, StopService
<1>3. Step("preflight", "daemon").op = "preflight" /\ Step("bootout", "daemon").op = "bootout"
  BY DEF Step
<1> QED
  BY <1>1, <1>2, <1>3 DEF Part, Shaped, Final

LEMMA TogglePlan ==
  ASSUME NEW enabled \in BOOLEAN
  PROVE  Shaped("toggle", FALSE, SetMenubarStartupEnabled(enabled))
<1> DEFINE Mt(op) == Step(op, "menubar")
           g == Steps(<<"gui">>, "menubar")
           i == InstallService("menubar")
           s == StartService("menubar")
           o == StopService("menubar")
           u == UninstallService("menubar")
<1>1. Part("toggle", FALSE, g, Mt("gui"), Mt("gui"))
  BY Single DEF OpsOf, ToggleOps, Ops, Services
<1>2. Part("toggle", FALSE, i, Mt("plist"), Mt("plist"))
  BY Single DEF OpsOf, ToggleOps, Ops, Services, InstallService
<1>3. Part("toggle", FALSE, s, Mt("preflight"), Mt("wait"))
  BY StartPart DEF Services
<1>4. Part("toggle", FALSE, o, Mt("bootout"), Mt("bootout"))
  BY Single DEF OpsOf, ToggleOps, StartOps, Ops, Services, StopService
<1>5. Part("toggle", FALSE, u, Mt("removePlist"), Mt("removePlist"))
  BY Single DEF OpsOf, ToggleOps, Ops, Services, UninstallService
<1>6. /\ Adjacent("toggle", Mt("plist"), Mt("preflight"))
      /\ Adjacent("toggle", Mt("bootout"), Mt("removePlist"))
      /\ Adjacent("toggle", Mt("gui"), Mt("plist"))
      /\ Adjacent("toggle", Mt("gui"), Mt("bootout"))
  BY DEF Adjacent, Step, Late, Is
<1> HIDE DEF g, i, s, o, u, Mt
<1>7. Part("toggle", FALSE, g \o (i \o s), Mt("gui"), Mt("wait"))
  <2>1. Part("toggle", FALSE, i \o s, Mt("plist"), Mt("wait"))
    BY <1>2, <1>3, <1>6, Join
  <2> QED
    BY <1>1, <1>6, <2>1, Join
<1>8. Part("toggle", FALSE, g \o (o \o u), Mt("gui"), Mt("removePlist"))
  <2>1. Part("toggle", FALSE, o \o u, Mt("bootout"), Mt("removePlist"))
    BY <1>4, <1>5, <1>6, Join
  <2> QED
    BY <1>1, <1>6, <2>1, Join
<1>9. SetMenubarStartupEnabled(enabled) = g \o IF enabled THEN i \o s ELSE o \o u
  BY DEF SetMenubarStartupEnabled, g, i, s, o, u
<1>10. CASE enabled
  <2>1. SetMenubarStartupEnabled(enabled) = g \o (i \o s)
    BY <1>9, <1>10
  <2> QED
    BY <1>7, <2>1 DEF Part, Shaped, Final
<1>11. CASE ~enabled
  <2>1. SetMenubarStartupEnabled(enabled) = g \o (o \o u)
    BY <1>9, <1>11
  <2> QED
    BY <1>8, <2>1 DEF Part, Shaped, Final
<1> QED
  BY <1>10, <1>11

(***************************************************************************)
(* What is left of a plan when a step has been taken                       *)
(***************************************************************************)
\* r is what is left of plan q after its first step.
Rest(cmd, m, q, r) ==
  /\ Shaped(cmd, m, r) /\ Head(q) = q[1] /\ StepOf(cmd, m, q[1])
  /\ r # <<>> => Adjacent(cmd, q[1], r[1]) /\ StepOf(cmd, m, r[1])
  /\ r = <<>> => Final(cmd, q[1])
  /\ \A op, s : Has(r, op, s) => Has(q, op, s)
  /\ \A op, s : Has(q, op, s) => Has(r, op, s) \/ Is(q[1], op, s)
  /\ cmd = "uninstall" => ~Has(r, "bootout", "daemon")

LEMMA TailPlan ==
  ASSUME NEW cmd, NEW m \in BOOLEAN, NEW q, Shaped(cmd, m, q), q # <<>>
  PROVE  Rest(cmd, m, q, Tail(q))
<1> DEFINE r == Tail(q)
<1>1. q \in Plans /\ Chain(cmd, m, q) /\ Final(cmd, q[Len(q)])
  BY DEF Shaped
<1>2. Len(q) \in Nat \ {0}
  BY <1>1, EmptySeq DEF Plans
<1>3. r \in Plans /\ Len(r) = Len(q) - 1 /\ \A i \in 1..Len(r) : r[i] = q[i + 1]
  BY <1>1, HeadTailProperties DEF Plans
<1>4. Head(q) = q[1]
  BY <1>1 DEF Plans
<1> HIDE DEF r
<1>5. \A i \in 1..Len(r) : i + 1 \in 1..Len(q) /\ i + 1 \in 2..Len(q) /\ r[i] = q[i + 1]
  BY <1>2, <1>3
<1>6. Chain(cmd, m, r)
  <2>1. \A i \in 1..Len(r) : StepOf(cmd, m, r[i])
    BY <1>1, <1>5 DEF Chain
  <2>2. ASSUME NEW i \in 2..Len(r) PROVE Adjacent(cmd, r[i - 1], r[i])
    <3>1. /\ i - 1 \in 1..Len(r) /\ i \in 1..Len(r) /\ (i - 1) + 1 = i /\ i + 1 \in 2..Len(q)
          /\ (i + 1) - 1 = i
      BY <1>2, <1>3
    <3>2. r[i - 1] = q[i] /\ r[i] = q[i + 1]
      BY <1>5, <3>1
    <3>3. Adjacent(cmd, q[(i + 1) - 1], q[i + 1])
      BY <1>1, <3>1 DEF Chain
    <3> QED
      BY <3>1, <3>2, <3>3
  <2> QED
    BY <2>1, <2>2 DEF Chain
<1>7. ASSUME r # <<>>
      PROVE  /\ Final(cmd, r[Len(r)]) /\ Adjacent(cmd, q[1], r[1]) /\ StepOf(cmd, m, r[1])
  <2>1. Len(r) \in Nat \ {0}
    BY <1>3, <1>7, EmptySeq DEF Plans
  <2>2. r[Len(r)] = q[Len(q)] /\ r[1] = q[2] /\ 2 \in 2..Len(q) /\ 2 \in 1..Len(q) /\ 2 - 1 = 1
    BY <1>2, <1>3, <1>5, <2>1
  <2>3. Adjacent(cmd, q[2 - 1], q[2]) /\ StepOf(cmd, m, q[2])
    BY <1>1, <2>2 DEF Chain
  <2> QED
    BY <1>1, <2>2, <2>3
<1>8. ASSUME r = <<>> PROVE Final(cmd, q[1])
  <2>1. Len(q) = 1
    BY <1>2, <1>3, <1>8
  <2> QED
    BY <1>1, <2>1
<1>9. ASSUME NEW op, NEW s, Has(r, op, s) PROVE Has(q, op, s)
  BY <1>5, <1>9 DEF Has
<1>10. ASSUME NEW op, NEW s, Has(q, op, s) PROVE Has(r, op, s) \/ Is(q[1], op, s)
  <2>1. PICK i \in 1..Len(q) : Is(q[i], op, s)
    BY <1>10 DEF Has
  <2>2. CASE i = 1
    BY <2>1, <2>2
  <2>3. CASE i # 1
    <3>1. i - 1 \in 1..Len(r) /\ (i - 1) + 1 = i
      BY <1>2, <1>3, <2>3
    <3>2. r[i - 1] = q[i]
      BY <1>5, <3>1
    <3> QED
      BY <2>1, <3>1, <3>2 DEF Has
  <2> QED
    BY <2>2, <2>3
<1>11. StepOf(cmd, m, q[1])
  BY <1>1, <1>2 DEF Chain
<1>12. ASSUME cmd = "uninstall", NEW i \in 1..Len(r) PROVE ~Is(r[i], "bootout", "daemon")
  <2>1. Adjacent(cmd, q[(i + 1) - 1], q[i + 1]) /\ r[i] = q[i + 1]
    BY <1>1, <1>5 DEF Chain
  <2> QED
    BY <1>12, <2>1 DEF Adjacent
<1> QED
  <2>1. cmd = "uninstall" => ~Has(r, "bootout", "daemon")
    BY <1>12 DEF Has
  <2> QED
    BY <1>3, <1>4, <1>6, <1>7, <1>8, <1>9, <1>10, <1>11, <2>1 DEF Shaped, Rest, r

\* Without a desktop user, uninstall passes over the menu bar's part: what is left
\* starts with neither a step that must follow another nor the daemon's bootout,
\* and no step of the daemon is lost.
LEMMA SkipPlan ==
  ASSUME NEW m \in BOOLEAN, NEW q, Shaped("uninstall", m, q), q # <<>>, q[1].op = "gui"
  PROVE  LET r == SubSeq(q, 1 + Len(RemoveMenubar(FALSE)), Len(q))
         IN  /\ Shaped("uninstall", m, r)
             /\ \A op, s : Has(r, op, s) => Has(q, op, s)
             /\ \A op : op # "gui" /\ Has(q, op, "daemon") => Has(r, op, "daemon")
             /\ r # <<>> => \E x : x.op = "unstage" /\ Adjacent("uninstall", x, r[1])
<1> DEFINE a == Tail(q)
           b == Tail(a)
           c == Tail(b)
           d == Tail(c)
           r == SubSeq(q, 1 + Len(RemoveMenubar(FALSE)), Len(q))
<1>1. /\ Shaped("uninstall", m, a) /\ a # <<>> /\ Is(a[1], "bootout", "menubar")
      /\ \A op, s : Has(a, op, s) => Has(q, op, s)
      /\ \A op : op # "gui" /\ Has(q, op, "daemon") => Has(a, op, "daemon")
  <2>1. Rest("uninstall", m, q, a)
    BY TailPlan
  <2> QED
    BY <2>1 DEF Rest, Adjacent, Final, Is
<1> HIDE DEF a
<1>2. /\ Shaped("uninstall", m, b) /\ b # <<>> /\ Is(b[1], "removePlist", "menubar")
      /\ \A op, s : Has(b, op, s) => Has(a, op, s)
      /\ \A op : Has(a, op, "daemon") => Has(b, op, "daemon")
  <2>1. Rest("uninstall", m, a, b)
    BY <1>1, TailPlan
  <2> QED
    BY <1>1, <2>1 DEF Rest, Adjacent, Final, Is
<1> HIDE DEF b
<1>3. /\ Shaped("uninstall", m, c) /\ c # <<>> /\ Is(c[1], "unstage", "menubar")
      /\ \A op, s : Has(c, op, s) => Has(b, op, s)
      /\ \A op : Has(b, op, "daemon") => Has(c, op, "daemon")
  <2>1. Rest("uninstall", m, b, c)
    BY <1>2, TailPlan
  <2> QED
    BY <1>2, <2>1 DEF Rest, Adjacent, Final, Is
<1> HIDE DEF c
<1>4. /\ Shaped("uninstall", m, d)
      /\ d # <<>> => Adjacent("uninstall", c[1], d[1])
      /\ \A op, s : Has(d, op, s) => Has(c, op, s)
      /\ \A op : Has(c, op, "daemon") => Has(d, op, "daemon")
  <2>1. Rest("uninstall", m, c, d)
    BY <1>3, TailPlan
  <2> QED
    BY <1>3, <2>1 DEF Rest, Is
<1> HIDE DEF d
<1>5. d = r
  <2>1. q \in Seq(StepType) /\ Len(q) \in Nat \ {0}
    BY EmptySeq DEF Shaped, Plans
  <2>2. a = SubSeq(q, 2, Len(q)) /\ a \in Seq(StepType) /\ Len(a) = Len(q) - 1
    BY <2>1, TailIsSubSeq, HeadTailProperties DEF a
  <2>3. 2 \in 1..Len(q) /\ Len(q) \in 2..Len(q)
    BY <1>1, <2>1, <2>2, EmptySeq
  <2>4. b = SubSeq(q, 3, Len(q)) /\ b \in Seq(StepType) /\ Len(b) = Len(q) - 2
    <3>1. Tail(SubSeq(q, 2, Len(q))) = SubSeq(q, 2 + 1, Len(q))
      BY <2>1, <2>3, HeadTailOfSubSeq
    <3> QED
      BY <1>1, <2>1, <2>2, <3>1, HeadTailProperties DEF b
  <2>5. 3 \in 1..Len(q) /\ Len(q) \in 3..Len(q)
    BY <1>2, <2>1, <2>4, EmptySeq
  <2>6. c = SubSeq(q, 4, Len(q)) /\ c \in Seq(StepType) /\ Len(c) = Len(q) - 3
    <3>1. Tail(SubSeq(q, 3, Len(q))) = SubSeq(q, 3 + 1, Len(q))
      BY <2>1, <2>5, HeadTailOfSubSeq
    <3> QED
      BY <1>2, <2>1, <2>4, <3>1, HeadTailProperties DEF c
  <2>7. 4 \in 1..Len(q) /\ Len(q) \in 4..Len(q)
    BY <1>3, <2>1, <2>6, EmptySeq
  <2>8. d = SubSeq(q, 5, Len(q))
    <3>1. Tail(SubSeq(q, 4, Len(q))) = SubSeq(q, 4 + 1, Len(q))
      BY <2>1, <2>7, HeadTailOfSubSeq
    <3> QED
      BY <2>6, <3>1 DEF d
  <2>9. Len(RemoveMenubar(FALSE)) = 4
    <3>1. FALSE \in BOOLEAN
      OBVIOUS
    <3> QED
      BY <3>1, MenubarSteps, Zenon
  <2>10. 1 + Len(RemoveMenubar(FALSE)) = 5
    <3> DEFINE n == Len(RemoveMenubar(FALSE))
    <3>1. n = 4
      BY <2>9, Zenon
    <3> HIDE DEF n
    <3>2. 1 + n = 5
      BY <3>1
    <3> QED
      BY <3>2, Zenon DEF n
  <2> QED
    BY <2>8, <2>10, Zenon
<1>6. /\ \A op, s : Has(d, op, s) => Has(q, op, s)
      /\ \A op : op # "gui" /\ Has(q, op, "daemon") => Has(d, op, "daemon")
  BY <1>1, <1>2, <1>3, <1>4
<1>7. d # <<>> => \E x : x.op = "unstage" /\ Adjacent("uninstall", x, d[1])
  BY <1>3, <1>4 DEF Is
<1> QED
  BY <1>4, <1>5, <1>6, <1>7

(***************************************************************************)
(* The inductive invariant                                                 *)
(***************************************************************************)
\* No write was torn and the user has not edited the resolver file.
Quiet == torn = 0 /\ edits = 0

\* Services whose entries only the CLI has touched.
Counted(s) == s = "daemon" \/ toggles = 0

\* The plans are those of the commands under way; a startup request lives no
\* longer than the daemon.
ShapeInv ==
  /\ Shaped(job.cmd, job.menubar, todo[CLI])
  /\ todo[CLI] # <<>> <=> job.result = "running"
  /\ \A t \in Toggles :
       /\ Shaped("toggle", FALSE, todo[t])
       /\ todo[t] # <<>> => loaded["daemon"] /\ toggles # 0

FileInv ==
  Quiet => /\ resolver # Torn /\ backup # Torn
           /\ IF resolver = Managed THEN backup = displaced ELSE backup \in {Absent, resolver}

\* What the steps before x have made true.
Ready(x) ==
  /\ (Quiet /\ x.op = "backup") =>
       IF resolver = Managed THEN held = Absent ELSE held = resolver /\ displaced = resolver
  /\ (Quiet /\ x.op = "writeResolver") => backup = displaced
  /\ x.op \in Late => resolver # Managed
  /\ (x.op = "removePlist" /\ Counted(x.svc)) => (loaded[x.svc] => stuck[x.svc])

HeadInv == todo[CLI] # <<>> => Ready(todo[CLI][1])

ServiceInv ==
  \A s \in Services : (loaded[s] /\ Counted(s)) => plist[s] # Absent \/ stuck[s]

\* The CLI has yet to take this step.
Left(op, s) == Has(todo[CLI], op, s)

\* What install has yet to do, or has done.
Installed ==
  /\ Left("writeResolver", "daemon") \/ resolver = Managed
  /\ Left("plist", "daemon") \/ plist["daemon"] = Managed
  /\ Left("stage", "daemon") \/ program["daemon"]
  /\ Left("bootstrap", "daemon") \/ loaded["daemon"]
  /\ job.menubar => Left("stage", "menubar") \/ program["menubar"]

InstallInv == (job.cmd = "install" /\ job.result = "running") => Installed

\* What uninstall has yet to do, or has done; with the daemon gone no startup
\* request undoes the menu bar's part.
Removed ==
  /\ Left("restore", "daemon") \/ resolver # Managed
  /\ Left("dropBackup", "daemon") \/ backup = Absent
  /\ Left("removePlist", "daemon") \/ plist["daemon"] = Absent
  /\ Left("bootout", "daemon") \/ (loaded["daemon"] => stuck["daemon"])

MenubarRemoved ==
  /\ Left("bootout", "daemon") =>
       Left("bootout", "menubar") /\ Left("removePlist", "menubar") /\ Left("unstage", "menubar")
  /\ ~loaded["daemon"] =>
       /\ Left("bootout", "menubar") \/ (loaded["menubar"] => stuck["menubar"])
       /\ Left("removePlist", "menubar") \/ plist["menubar"] = Absent
       /\ Left("unstage", "menubar") \/ ~program["menubar"]

\* Uninstall carries out the whole of the menu bar's part: it was asked to, or no
\* step has ever failed.
Whole == job.menubar \/ faults = 0

UninstallInv ==
  (job.cmd = "uninstall" /\ job.result # "failed") =>
    Removed /\ (Whole => MenubarRemoved)

InstallerInv ==
  TypeOK /\ ShapeInv /\ FileInv /\ HeadInv /\ ServiceInv /\ InstallInv /\ UninstallInv

(***************************************************************************)
(* The CLI's plan in a step                                                *)
(***************************************************************************)
JobType == [cmd : {"none", "install", "uninstall", "start", "stop"},
            menubar : BOOLEAN, result : {"ok", "failed", "running"}]

\* The types of what is neither a plan nor the job.
PlainTypes ==
  /\ resolver \in Contents
  /\ backup \in Contents \ {Managed}
  /\ held \in Contents \ {Managed}
  /\ displaced \in UserFiles \cup {Absent}
  /\ plist \in [Services -> {Absent, Managed, Torn}]
  /\ program \in [Services -> BOOLEAN]
  /\ loaded \in [Services -> BOOLEAN]
  /\ stuck \in [Services -> BOOLEAN]
  /\ commands \in 0..MaxCommands /\ toggles \in 0..MaxToggles
  /\ faults \in 0..MaxFaults /\ torn \in 0..MaxTorn /\ edits \in 0..MaxEdits

\* The CLI goes on to plan r; an empty one ends the command with the result.
Goes(r, result) ==
  /\ todo' \in [Actors -> Plans] /\ todo'[CLI] = r
  /\ Shaped(job.cmd, job.menubar, r)
  /\ job' \in JobType /\ job'.cmd = job.cmd /\ job'.menubar = job.menubar
  /\ job'.result = IF r = <<>> THEN result ELSE "running"

OthersStay == \A t \in Toggles : todo'[t] = todo[t]

LEMMA EmptyPlan ==
  ASSUME NEW cmd, NEW m
  PROVE  Shaped(cmd, m, <<>>)
<1>1. <<>> \in Plans /\ Len(<<>>) = 0
  BY EmptySeq DEF Plans
<1>2. 1..0 = {} /\ 2..0 = {}
  OBVIOUS
<1> QED
  BY <1>1, <1>2 DEF Shaped, Chain

LEMMA Advances ==
  ASSUME TypeOK, ShapeInv, todo[CLI] # <<>>, Advance(CLI)
  PROVE  /\ Goes(Tail(todo[CLI]), "ok") /\ OthersStay /\ job.result = "running"
         /\ Rest(job.cmd, job.menubar, todo[CLI], todo'[CLI])
<1> DEFINE q == todo[CLI]
           r == Tail(q)
<1>1. CLI \in Actors /\ todo \in [Actors -> Plans] /\ job \in JobType /\ job.menubar \in BOOLEAN
  BY DEF Actors, TypeOK, JobType
<1>2. Rest(job.cmd, job.menubar, q, r)
  BY <1>1, TailPlan DEF ShapeInv
<1>3. Shaped(job.cmd, job.menubar, r) /\ r \in Plans
  BY <1>2 DEF Rest, Shaped
<1> HIDE DEF r, q
<1>4. todo' = [todo EXCEPT ![CLI] = r]
      /\ job' = IF r = <<>> THEN [job EXCEPT !.result = "ok"] ELSE job
  BY DEF Advance, Ends, r, q
<1>5. job.result = "running"
  BY DEF ShapeInv
<1>6. todo' \in [Actors -> Plans] /\ todo'[CLI] = r /\ OthersStay
  BY <1>1, <1>3, <1>4 DEF OthersStay, Actors
<1>7. /\ job' \in JobType /\ job'.cmd = job.cmd /\ job'.menubar = job.menubar
      /\ job'.result = IF r = <<>> THEN "ok" ELSE "running"
  BY <1>1, <1>4, <1>5 DEF JobType
<1> QED
  BY <1>2, <1>3, <1>5, <1>6, <1>7 DEF Goes, r, q

LEMMA Aborts ==
  ASSUME TypeOK, ShapeInv, todo[CLI] # <<>>, Abort(CLI)
  PROVE  Goes(<<>>, "failed") /\ OthersStay /\ job.result = "running"
<1>1. CLI \in Actors /\ todo \in [Actors -> Plans] /\ job \in JobType /\ job.menubar \in BOOLEAN
  BY DEF Actors, TypeOK, JobType
<1>2. Shaped(job.cmd, job.menubar, <<>>) /\ <<>> \in Plans
  BY EmptyPlan DEF Shaped
<1>3. todo' = [todo EXCEPT ![CLI] = <<>>] /\ job' = [job EXCEPT !.result = "failed"]
  BY DEF Abort, Ends
<1>4. todo' \in [Actors -> Plans] /\ todo'[CLI] = <<>> /\ OthersStay
  BY <1>1, <1>2, <1>3 DEF OthersStay, Actors
<1>5. /\ job' \in JobType /\ job'.cmd = job.cmd /\ job'.menubar = job.menubar
      /\ job'.result = "failed"
  BY <1>1, <1>3 DEF JobType
<1> QED
  BY <1>2, <1>4, <1>5 DEF Goes, ShapeInv

\* A CLI that goes on: it is enough to look at the state, at what the next step
\* relies on and at what the command has brought about.
LEMMA GoesOn ==
  ASSUME InstallerInv, Goes(todo'[CLI], "ok"), job.result = "running", toggles' = toggles,
         faults' = 0 => faults = 0,
         \/ OthersStay /\ (loaded["daemon"] => loaded'["daemon"])
         \/ \A t \in Toggles : todo'[t] = <<>>,
         PlainTypes', FileInv', ServiceInv', HeadInv',
         job.cmd = "install" => Installed',
         job.cmd = "uninstall" =>
           Removed' /\ (Whole /\ (job.menubar \/ faults' = 0) => MenubarRemoved')
  PROVE  InstallerInv' /\ (job.cmd = "install" => Installed') /\ job'.menubar = job.menubar
<1>1. TypeOK'
  BY DEF Goes, TypeOK, PlainTypes, JobType
<1>2. ASSUME NEW t \in Toggles
      PROVE  Shaped("toggle", FALSE, todo'[t]) /\ (todo'[t] # <<>> => loaded'["daemon"] /\ toggles' # 0)
  <2>1. CASE todo'[t] = <<>>
    <3>1. Shaped("toggle", FALSE, <<>>)
      BY EmptyPlan
    <3> QED
      BY <2>1, <3>1
  <2>2. CASE OthersStay /\ (loaded["daemon"] => loaded'["daemon"])
    BY <2>2 DEF InstallerInv, ShapeInv, OthersStay
  <2> QED
    BY <2>1, <2>2
<1>3. ShapeInv'
  BY <1>2 DEF ShapeInv, Goes
<1>4. InstallInv' /\ UninstallInv'
  BY DEF Goes, InstallInv, UninstallInv, Whole
<1> QED
  BY <1>1, <1>3, <1>4 DEF InstallerInv, Goes

\* A CLI that gives up.
LEMMA GivesUp ==
  ASSUME InstallerInv, Goes(<<>>, "failed"), OthersStay, loaded' = loaded, toggles' = toggles,
         PlainTypes', FileInv', ServiceInv'
  PROVE  InstallerInv' /\ job'.result = "failed"
<1>1. TypeOK'
  BY DEF Goes, TypeOK, PlainTypes, JobType
<1>2. ShapeInv'
  BY DEF InstallerInv, ShapeInv, Goes, OthersStay
<1>3. HeadInv' /\ InstallInv' /\ UninstallInv'
  BY DEF Goes, HeadInv, InstallInv, UninstallInv
<1> QED
  BY <1>1, <1>2, <1>3 DEF InstallerInv, Goes

\* The step the CLI is at.
First == todo[CLI][1]

\* The CLI takes its first step.
Moves ==
  /\ InstallerInv /\ todo[CLI] # <<>>
  /\ Goes(todo'[CLI], "ok") /\ job.result = "running"
  /\ Rest(job.cmd, job.menubar, todo[CLI], todo'[CLI])

LEMMA AtFirst ==
  ASSUME InstallerInv, todo[CLI] # <<>>
  PROVE  /\ Head(todo[CLI]) = First /\ StepOf(job.cmd, job.menubar, First)
         /\ First \in StepType /\ First.svc \in Services /\ First.op \in OpsOf(job.cmd)
         /\ \A op : At(CLI, op) <=> First.op = op
         /\ Svc(CLI) = First.svc /\ Ready(First) /\ job.result = "running"
<1>1. Rest(job.cmd, job.menubar, todo[CLI], Tail(todo[CLI]))
  <2>1. job.menubar \in BOOLEAN /\ Shaped(job.cmd, job.menubar, todo[CLI])
    BY DEF InstallerInv, TypeOK, ShapeInv
  <2> QED
    BY <2>1, TailPlan
<1>2. Head(todo[CLI]) = First /\ StepOf(job.cmd, job.menubar, First)
  BY <1>1 DEF Rest, First
<1>3. First \in StepType /\ First.svc \in Services /\ First.op \in OpsOf(job.cmd)
  BY <1>2 DEF StepOf, StepType
<1>4. Ready(First) /\ job.result = "running"
  BY DEF InstallerInv, HeadInv, ShapeInv, First
<1> QED
  BY <1>2, <1>3, <1>4 DEF At, Svc

LEMMA AdvanceMoves ==
  ASSUME InstallerInv, todo[CLI] # <<>>, Advance(CLI)
  PROVE  Moves /\ OthersStay
<1>1. /\ Goes(Tail(todo[CLI]), "ok") /\ OthersStay /\ job.result = "running"
      /\ Rest(job.cmd, job.menubar, todo[CLI], todo'[CLI])
  BY Advances DEF InstallerInv
<1>2. Goes(todo'[CLI], "ok")
  BY <1>1 DEF Goes
<1> QED
  BY <1>1, <1>2 DEF Moves

\* What install has done stays done.
LEMMA InstalledKept ==
  ASSUME Moves, job.cmd = "install",
         Is(First, "writeResolver", "daemon") \/ resolver = Managed => resolver' = Managed,
         Is(First, "plist", "daemon") \/ plist["daemon"] = Managed => plist'["daemon"] = Managed,
         Is(First, "stage", "daemon") \/ program["daemon"] => program'["daemon"],
         Is(First, "bootstrap", "daemon") \/ loaded["daemon"] =>
           loaded'["daemon"] \/ Has(todo'[CLI], "bootstrap", "daemon"),
         Is(First, "stage", "menubar") \/ program["menubar"] => program'["menubar"]
  PROVE  Installed'
<1>1. Installed
  BY DEF Moves, InstallerInv, InstallInv
<1>2. \A op, s : Has(todo[CLI], op, s) => Has(todo'[CLI], op, s) \/ Is(First, op, s)
  BY DEF Moves, Rest, First
<1>3. job'.menubar = job.menubar
  BY DEF Moves, Goes
<1> QED
  BY <1>1, <1>2, <1>3 DEF Installed, Left

\* What uninstall has done stays done.
LEMMA RemovedKept ==
  ASSUME Moves, job.cmd = "uninstall",
         Is(First, "restore", "daemon") \/ resolver # Managed => resolver' # Managed,
         Is(First, "dropBackup", "daemon") \/ backup = Absent => backup' = Absent,
         Is(First, "removePlist", "daemon") \/ plist["daemon"] = Absent => plist'["daemon"] = Absent,
         Is(First, "bootout", "daemon") \/ (loaded["daemon"] => stuck["daemon"]) =>
           (loaded'["daemon"] => stuck'["daemon"])
  PROVE  Removed'
<1>1. Removed
  BY DEF Moves, InstallerInv, UninstallInv
<1>2. \A op, s : Has(todo[CLI], op, s) => Has(todo'[CLI], op, s) \/ Is(First, op, s)
  BY DEF Moves, Rest, First
<1> QED
  BY <1>1, <1>2 DEF Removed, Left

LEMMA MenubarRemovedKept ==
  ASSUME Moves, job.cmd = "uninstall", Whole,
         loaded["daemon"] => Is(First, "bootout", "daemon") \/ loaded'["daemon"],
         Is(First, "bootout", "menubar") \/ (loaded["menubar"] => stuck["menubar"]) =>
           (loaded'["menubar"] => stuck'["menubar"]),
         Is(First, "removePlist", "menubar") \/ plist["menubar"] = Absent =>
           plist'["menubar"] = Absent,
         Is(First, "unstage", "menubar") \/ ~program["menubar"] => ~program'["menubar"]
  PROVE  MenubarRemoved'
<1>1. MenubarRemoved
  BY DEF Moves, InstallerInv, UninstallInv
<1>2. /\ \A op, s : Has(todo[CLI], op, s) => Has(todo'[CLI], op, s) \/ Is(First, op, s)
      /\ \A op, s : Has(todo'[CLI], op, s) => Has(todo[CLI], op, s)
  BY DEF Moves, Rest, First
<1>3. Is(First, "bootout", "daemon") => Has(todo[CLI], "bootout", "daemon")
  <2>1. Len(todo[CLI]) \in Nat \ {0}
    BY EmptySeq DEF Moves, InstallerInv, ShapeInv, Shaped, Plans
  <2> QED
    BY <2>1 DEF First, Has
<1>4. ~Has(todo'[CLI], "bootout", "daemon")
  BY DEF Moves, Rest
<1>5. CASE loaded["daemon"] /\ ~loaded'["daemon"]
  <2>1. /\ Has(todo[CLI], "bootout", "menubar") /\ Has(todo[CLI], "removePlist", "menubar")
        /\ Has(todo[CLI], "unstage", "menubar")
    BY <1>1, <1>3, <1>5 DEF MenubarRemoved, Left
  <2>2. /\ Has(todo'[CLI], "bootout", "menubar") /\ Has(todo'[CLI], "removePlist", "menubar")
        /\ Has(todo'[CLI], "unstage", "menubar")
    BY <1>2, <1>5, <2>1 DEF Is
  <2> QED
    BY <2>2 DEF MenubarRemoved, Left
<1>6. CASE ~loaded["daemon"]
  BY <1>1, <1>2, <1>4, <1>6 DEF MenubarRemoved, Left
<1> QED
  BY <1>4, <1>5, <1>6 DEF MenubarRemoved, Left

\* A step that the next one does not build on.
LEMMA HeadKept ==
  ASSUME Moves, First.op \notin {"readResolver", "backup", "restore", "bootout"},
         First.op \in Late => resolver' = resolver
  PROVE  HeadInv'
<1>1. Ready(First)
  BY AtFirst DEF Moves
<1> DEFINE y == todo'[CLI][1]
<1>2. todo'[CLI] # <<>> => Adjacent(job.cmd, First, y)
  BY DEF Moves, Rest, First
<1> HIDE DEF y
<1>3. todo'[CLI] # <<>> =>
        /\ y.op \notin {"backup", "writeResolver", "removePlist"}
        /\ y.op \in Late => First.op \in Late
  BY <1>2 DEF Adjacent, Is
<1>4. First.op \in Late => resolver' # Managed
  BY <1>1 DEF Ready
<1> QED
  BY <1>3, <1>4 DEF HeadInv, Ready, y

\* Steps that leave the services alone.
LEMMA ServicesKept ==
  ASSUME ServiceInv, UNCHANGED services, toggles' = toggles
  PROVE  ServiceInv'
BY DEF ServiceInv, Counted, services

LEMMA FilesKept ==
  ASSUME FileInv, UNCHANGED files, torn' = torn, edits' = edits
  PROVE  FileInv'
BY DEF FileInv, Quiet, files

\* Every step keeps the invariant, and with it what install has brought about up
\* to and including its last step.
Kept ==
  /\ InstallerInv'
  /\ (job.cmd = "install" /\ job.result = "running" /\ job'.result # "failed") =>
       Installed' /\ job'.menubar = job.menubar

\* One step on the files of the resolver.
LEMMA FileSteps ==
  ASSUME InstallerInv, FileStep
  PROVE  Kept
<1>1. todo[CLI] # <<>> /\ Advance(CLI) /\ UNCHANGED <<services, bounds>>
  BY DEF FileStep, ReadResolver, WriteResolverBackup, WriteManaged, Restore, DropBackup, At
<1>2. Moves /\ OthersStay
  BY <1>1, AdvanceMoves
<1>3. /\ \A op : At(CLI, op) <=> First.op = op
      /\ Ready(First) /\ First.op \in OpsOf(job.cmd) /\ job.result = "running"
  BY <1>1, AtFirst
<1>4. PlainTypes' /\ PlainTypes
  BY <1>1 DEF InstallerInv, TypeOK, PlainTypes, FileStep, ReadResolver, WriteResolverBackup,
     WriteManaged, Restore, DropBackup, services, bounds, Contents
<1>5. UNCHANGED <<plist, program, loaded, stuck, torn, edits, toggles, faults>>
  BY <1>1 DEF services, bounds
<1>6. ServiceInv'
  BY <1>1, <1>5, ServicesKept DEF InstallerInv
<1>7. FileInv' /\ HeadInv'
  <2>1. (todo'[CLI] # <<>> => Adjacent(job.cmd, First, todo'[CLI][1])) /\ FileInv
    BY <1>2 DEF Moves, Rest, First, InstallerInv
  <2> DEFINE y == todo'[CLI][1]
  <2> HIDE DEF y
  <2>2. CASE ReadResolver
    <3>1. /\ First.op = "readResolver"
          /\ held' = IF resolver = Managed THEN Absent ELSE resolver
          /\ displaced' = IF resolver \in {Managed, Torn} THEN displaced ELSE resolver
          /\ resolver' = resolver /\ backup' = backup
      BY <1>3, <2>2 DEF ReadResolver
    <3>2. FileInv'
      BY <1>5, <2>1, <3>1 DEF FileInv, Quiet
    <3>3. todo'[CLI] # <<>> => y.op \notin Late \cup {"writeResolver", "removePlist"}
      BY <2>1, <3>1 DEF Adjacent, Is, Late, y
    <3>4. Quiet' => IF resolver' = Managed THEN held' = Absent
                    ELSE held' = resolver' /\ displaced' = resolver'
      BY <1>5, <2>1, <3>1 DEF FileInv, Quiet
    <3> QED
      BY <3>2, <3>3, <3>4 DEF HeadInv, Ready, y
  <2>3. CASE WriteResolverBackup
    <3>1. /\ First.op = "backup" /\ resolver' = resolver /\ held' = held /\ displaced' = displaced
          /\ backup' = IF held # Absent /\ backup = Absent THEN held ELSE backup
      BY <1>3, <2>3 DEF WriteResolverBackup
    <3>2. Quiet => IF resolver = Managed THEN held = Absent ELSE held = resolver /\ displaced = resolver
      BY <1>3, <3>1 DEF Ready
    <3>3. FileInv' /\ (Quiet' => backup' = displaced')
      BY <1>5, <2>1, <3>1, <3>2 DEF FileInv, Quiet
    <3>4. todo'[CLI] # <<>> => y.op \notin Late \cup {"backup", "removePlist"}
      BY <2>1, <3>1 DEF Adjacent, Is, Late, y
    <3> QED
      BY <3>3, <3>4 DEF HeadInv, Ready, y
  <2>4. CASE WriteManaged
    <3>1. /\ First.op = "writeResolver" /\ resolver' = Managed
          /\ backup' = backup /\ displaced' = displaced
      BY <1>3, <2>4 DEF WriteManaged
    <3>2. FileInv'
      BY <1>3, <1>5, <2>1, <3>1 DEF FileInv, Quiet, Ready
    <3> QED
      BY <1>2, <3>1, <3>2, HeadKept DEF Late
  <2>5. CASE Restore
    <3>1. /\ First.op = "restore" /\ resolver' = backup /\ backup' = backup /\ displaced' = displaced
      BY <1>3, <2>5 DEF Restore
    <3>2. FileInv' /\ resolver' # Managed
      BY <1>4, <1>5, <2>1, <3>1 DEF FileInv, Quiet, PlainTypes
    <3>3. todo'[CLI] # <<>> => y.op \notin {"backup", "writeResolver", "removePlist"}
      BY <2>1, <3>1 DEF Adjacent, Is, y
    <3> QED
      BY <3>2, <3>3 DEF HeadInv, Ready, y
  <2>6. CASE DropBackup
    <3>1. /\ First.op \in {"dropBackup", "state"} /\ backup' = Absent /\ resolver' = resolver
      BY <1>3, <2>6 DEF DropBackup
    <3>2. resolver # Managed
      BY <1>3, <3>1 DEF Ready, Late
    <3>3. FileInv'
      BY <1>5, <2>1, <3>1, <3>2 DEF FileInv, Quiet
    <3> QED
      BY <1>2, <3>1, <3>3, HeadKept
  <2> QED
    BY <2>2, <2>3, <2>4, <2>5, <2>6 DEF FileStep
<1>8. job.cmd = "install" => Installed'
  <2>1. HAVE job.cmd = "install"
  <2>2. First.op \in {"readResolver", "backup", "writeResolver"}
    BY <1>3, <2>1 DEF FileStep, ReadResolver, WriteResolverBackup, WriteManaged, Restore, DropBackup,
       OpsOf, StartOps
  <2>3. Is(First, "writeResolver", "daemon") \/ resolver = Managed => resolver' = Managed
    BY <1>3, <2>2 DEF FileStep, ReadResolver, WriteResolverBackup, WriteManaged, Restore, DropBackup, Is
  <2> QED
    BY <1>2, <1>5, <2>1, <2>2, <2>3, InstalledKept DEF Is
<1>9. job.cmd = "uninstall" => Removed' /\ (Whole => MenubarRemoved')
  <2>1. HAVE job.cmd = "uninstall"
  <2>2. First.op \in {"restore", "dropBackup", "state"}
    BY <1>3, <2>1 DEF FileStep, ReadResolver, WriteResolverBackup, WriteManaged, Restore, DropBackup,
       OpsOf, Late
  <2>3. Is(First, "restore", "daemon") \/ resolver # Managed => resolver' # Managed
    BY <1>3, <1>4, <2>2 DEF FileStep, ReadResolver, WriteResolverBackup, WriteManaged, Restore,
       DropBackup, Is, PlainTypes
  <2>4. Is(First, "dropBackup", "daemon") \/ backup = Absent => backup' = Absent
    BY <1>3, <2>2 DEF FileStep, ReadResolver, WriteResolverBackup, WriteManaged, Restore,
       DropBackup, Is
  <2>5. Removed'
    BY <1>2, <1>5, <2>1, <2>2, <2>3, <2>4, RemovedKept DEF Is
  <2>6. Whole => MenubarRemoved'
    BY <1>2, <1>5, <2>1, <2>2, MenubarRemovedKept DEF Is
  <2> QED
    BY <2>5, <2>6
<1> QED
  BY <1>2, <1>3, <1>4, <1>5, <1>6, <1>7, <1>8, <1>9, GoesOn DEF Moves, Kept

LEMMA PlainTypesKept ==
  ASSUME TypeOK, UNCHANGED <<files, services, bounds>>
  PROVE  PlainTypes'
BY DEF TypeOK, PlainTypes, files, services, bounds

\* Steps of the CLI that change neither files nor services.
LEMMA PlainSteps ==
  ASSUME InstallerInv, Minor(CLI) \/ Preflight(CLI) \/ Kickstart(CLI)
  PROVE  Kept
<1>1. todo[CLI] # <<>> /\ UNCHANGED <<files, services, bounds>> /\ (Advance(CLI) \/ Abort(CLI))
  BY DEF Minor, Preflight, Kickstart, At
<1>2. /\ PlainTypes' /\ FileInv' /\ ServiceInv'
      /\ toggles' = toggles /\ faults' = faults /\ loaded' = loaded
  BY <1>1, PlainTypesKept, FilesKept, ServicesKept DEF InstallerInv, bounds, services
<1>3. First.op \in {"ensurePaths", "mkcert", "gui", "chown", "config", "logs", "certs", "preflight",
                    "kickstart", "wait"}
  BY <1>1, AtFirst DEF Minor, Preflight, Kickstart
<1>4. UNCHANGED <<resolver, backup, plist, program, loaded, stuck>>
  BY <1>1 DEF files, services
<1>5. CASE Advance(CLI)
  <2>1. Moves /\ OthersStay
    BY <1>1, <1>5, AdvanceMoves
  <2>2. HeadInv'
    BY <1>3, <1>4, <2>1, HeadKept
  <2>3. job.cmd = "install" => Installed'
    BY <1>3, <1>4, <2>1, InstalledKept DEF Is
  <2>4. job.cmd = "uninstall" => Removed' /\ (Whole => MenubarRemoved')
    BY <1>3, <1>4, <2>1, RemovedKept, MenubarRemovedKept DEF Is
  <2> QED
    BY <1>2, <1>4, <2>1, <2>2, <2>3, <2>4, GoesOn DEF Moves, Kept
<1>6. CASE Abort(CLI)
  <2>1. Goes(<<>>, "failed") /\ OthersStay
    BY <1>1, <1>6, Aborts DEF InstallerInv
  <2> QED
    BY <1>2, <2>1, GivesUp DEF Kept
<1> QED
  BY <1>1, <1>5, <1>6

\* Counting a fault leaves the other bounds alone and stays within its own.
LEMMA FaultBound ==
  ASSUME TypeOK, Fault \/ UNCHANGED bounds
  PROVE  /\ commands' = commands /\ toggles' = toggles /\ torn' = torn /\ edits' = edits
         /\ faults' \in 0..MaxFaults /\ (faults' = 0 => faults = 0) /\ (Fault => faults' # 0)
<1>1. MaxFaults \in Nat /\ faults \in 0..MaxFaults
  BY DEF TypeOK
<1> QED
  BY <1>1 DEF Fault, bounds

LEMMA ServiceNames == "daemon" \in Services /\ "menubar" \in Services /\ Services = {"daemon", "menubar"}
BY DEF Services

LEMMA StageStep ==
  ASSUME InstallerInv, Stage(CLI)
  PROVE  Kept
<1>1. todo[CLI] # <<>> /\ Advance(CLI) /\ UNCHANGED <<files, plist, loaded, stuck, bounds>>
  BY DEF Stage, At
<1>2. Moves /\ OthersStay
  BY <1>1, AdvanceMoves
<1>3. /\ First.op \in {"stage", "unstage"} /\ First.svc \in Services /\ First.op \in OpsOf(job.cmd)
      /\ program' = [program EXCEPT ![First.svc] = (First.op = "stage")]
  <2>1. Svc(CLI) = First.svc /\ First.svc \in Services /\ First.op \in OpsOf(job.cmd)
        /\ \A op : At(CLI, op) <=> First.op = op
    BY <1>1, AtFirst
  <2>2. At(CLI, "stage") = (First.op = "stage")
    BY <2>1 DEF At
  <2> QED
    BY <2>1, <2>2, Zenon DEF Stage
<1>4. program \in [Services -> BOOLEAN]
  BY DEF InstallerInv, TypeOK
<1>5. PlainTypes'
  <2>1. program' \in [Services -> BOOLEAN]
    BY <1>3, <1>4
  <2> QED
    BY <1>1, <2>1 DEF InstallerInv, TypeOK, PlainTypes, files, bounds
<1>6. FileInv' /\ UNCHANGED <<resolver, backup, plist, loaded, stuck, toggles, faults>>
  BY <1>1, FilesKept DEF InstallerInv, bounds, files
<1>7. ServiceInv'
  BY <1>6 DEF InstallerInv, ServiceInv, Counted
<1>8. HeadInv'
  BY <1>2, <1>3, <1>6, HeadKept DEF Late
<1>9. job.cmd = "install" => Installed'
  <2>1. HAVE job.cmd = "install"
  <2>2. First.op = "stage"
    BY <1>3, <2>1 DEF OpsOf, StartOps
  <2>3. \A s \in Services : Is(First, "stage", s) \/ program[s] => program'[s]
    BY <1>3, <1>4, <2>2 DEF Is
  <2> QED
    BY <1>2, <1>6, <2>1, <2>2, <2>3, InstalledKept, ServiceNames DEF Is
<1>10. job.cmd = "uninstall" => Removed' /\ (Whole => MenubarRemoved')
  <2>1. HAVE job.cmd = "uninstall"
  <2>2. First.op = "unstage"
    BY <1>3, <2>1 DEF OpsOf, Late
  <2>3. \A s \in Services : Is(First, "unstage", s) \/ ~program[s] => ~program'[s]
    BY <1>3, <1>4, <2>2 DEF Is
  <2> QED
    BY <1>2, <1>6, <2>1, <2>2, <2>3, RemovedKept, MenubarRemovedKept, ServiceNames DEF Is
<1> QED
  BY <1>2, <1>5, <1>6, <1>7, <1>8, <1>9, <1>10, GoesOn DEF Moves, Kept

\* A staging or a removal that fails when the program is in place, or gone.
LEMMA StageFailsStep ==
  ASSUME InstallerInv, StageFails(CLI)
  PROVE  Kept
<1>1. todo[CLI] # <<>> /\ Fault /\ UNCHANGED <<files, plist, loaded, stuck>>
  BY DEF StageFails, At
<1>2. /\ commands' = commands /\ toggles' = toggles /\ torn' = torn /\ edits' = edits
      /\ faults' \in 0..MaxFaults /\ faults' # 0
  BY <1>1, FaultBound DEF InstallerInv
<1>3. /\ First.op \in {"stage", "unstage"} /\ First.op \in OpsOf(job.cmd) /\ First.svc \in Services
      /\ Head(todo[CLI]) = First /\ StepOf(job.cmd, job.menubar, First)
      /\ \E v \in BOOLEAN : program' = [program EXCEPT ![First.svc] = v]
  <2>1. At(CLI, "stage") \in BOOLEAN
    BY DEF At
  <2> QED
    BY <1>1, <2>1, AtFirst DEF StageFails
<1>4. program \in [Services -> BOOLEAN]
  BY DEF InstallerInv, TypeOK
<1>5. program' \in [Services -> BOOLEAN]
  BY <1>3, <1>4
<1>6. PlainTypes'
  BY <1>1, <1>2, <1>5 DEF InstallerInv, TypeOK, PlainTypes, files
<1>7. FileInv' /\ ServiceInv' /\ UNCHANGED <<resolver, backup>>
  BY <1>1, <1>2, FilesKept DEF InstallerInv, ServiceInv, Counted, files
<1>8. CASE Abort(CLI)
  <2>1. Goes(<<>>, "failed") /\ OthersStay
    BY <1>1, <1>8, Aborts DEF InstallerInv
  <2> QED
    BY <1>1, <1>2, <1>6, <1>7, <2>1, GivesUp DEF Kept
<1>9. CASE Advance(CLI) /\ ~First.must
  <2>1. Moves /\ OthersStay
    BY <1>1, <1>9, AdvanceMoves
  <2>2. job.cmd = "uninstall" /\ ~job.menubar
    BY <1>3, <1>9 DEF StepOf
  <2>3. HeadInv'
    BY <1>3, <1>7, <2>1, HeadKept DEF Late
  <2>4. Removed'
    BY <1>1, <1>3, <1>7, <2>1, <2>2, RemovedKept DEF Is
  <2> QED
    BY <1>1, <1>2, <1>6, <1>7, <2>1, <2>2, <2>3, <2>4, GoesOn DEF Moves, Kept
<1> QED
  BY <1>3, <1>8, <1>9 DEF StageFails

LEMMA PlistStep ==
  ASSUME InstallerInv, WritePlist(CLI)
  PROVE  Kept
<1>1. todo[CLI] # <<>> /\ Advance(CLI) /\ UNCHANGED <<files, program, loaded, stuck, bounds>>
  BY DEF WritePlist, At
<1>2. Moves /\ OthersStay
  BY <1>1, AdvanceMoves
<1>3. /\ First.op \in {"plist", "removePlist"} /\ First.svc \in Services /\ First.op \in OpsOf(job.cmd)
      /\ plist' = [plist EXCEPT ![First.svc] = IF First.op = "plist" THEN Managed ELSE Absent]
      /\ Ready(First)
  BY <1>1, AtFirst DEF WritePlist
<1>4. plist \in [Services -> {Absent, Managed, Torn}]
  BY DEF InstallerInv, TypeOK
<1>5. PlainTypes'
  <2>1. plist' \in [Services -> {Absent, Managed, Torn}]
    BY <1>3, <1>4
  <2> QED
    BY <1>1, <2>1 DEF InstallerInv, TypeOK, PlainTypes, files, bounds
<1>6. FileInv' /\ UNCHANGED <<resolver, backup, program, loaded, stuck, toggles, faults>>
  BY <1>1, FilesKept DEF InstallerInv, bounds, files
<1>7. ServiceInv'
  <2>1. ASSUME NEW s \in Services, loaded[s], Counted(s), s # First.svc
        PROVE  plist'[s] # Absent \/ stuck[s]
    BY <1>3, <1>4, <2>1 DEF InstallerInv, ServiceInv
  <2>2. ASSUME loaded[First.svc], Counted(First.svc)
        PROVE  plist'[First.svc] # Absent \/ stuck[First.svc]
    BY <1>3, <1>4, <2>2 DEF Ready
  <2> QED
    BY <1>6, <2>1, <2>2 DEF ServiceInv, Counted
<1>8. HeadInv'
  BY <1>2, <1>3, <1>6, HeadKept DEF Late
<1>9. job.cmd = "install" => Installed'
  <2>1. HAVE job.cmd = "install"
  <2>2. First.op = "plist"
    BY <1>3, <2>1 DEF OpsOf, StartOps
  <2>3. \A s \in Services : Is(First, "plist", s) \/ plist[s] = Managed => plist'[s] = Managed
    BY <1>3, <1>4, <2>2 DEF Is
  <2> QED
    BY <1>2, <1>6, <2>1, <2>2, <2>3, InstalledKept, ServiceNames DEF Is
<1>10. job.cmd = "uninstall" => Removed' /\ (Whole => MenubarRemoved')
  <2>1. HAVE job.cmd = "uninstall"
  <2>2. First.op = "removePlist"
    BY <1>3, <2>1 DEF OpsOf, Late
  <2>3. \A s \in Services : Is(First, "removePlist", s) \/ plist[s] = Absent => plist'[s] = Absent
    BY <1>3, <1>4, <2>2 DEF Is
  <2> QED
    BY <1>2, <1>6, <2>1, <2>2, <2>3, RemovedKept, MenubarRemovedKept, ServiceNames DEF Is
<1> QED
  BY <1>2, <1>5, <1>6, <1>7, <1>8, <1>9, <1>10, GoesOn DEF Moves, Kept

LEMMA BootstrapStep ==
  ASSUME InstallerInv, Bootstrap(CLI)
  PROVE  Kept
<1>1. todo[CLI] # <<>> /\ UNCHANGED <<files, plist, program, stuck, bounds>>
  BY DEF Bootstrap, At
<1>2. First.op = "bootstrap" /\ First.svc \in Services /\ First.op \in OpsOf(job.cmd) /\ Svc(CLI) = First.svc
  BY <1>1, AtFirst DEF Bootstrap
<1>3. loaded \in [Services -> BOOLEAN] /\ job.cmd # "uninstall"
  BY <1>2 DEF InstallerInv, TypeOK, OpsOf, Late
<1>4. FileInv' /\ UNCHANGED <<resolver, backup, plist, program, stuck, toggles, faults>>
  BY <1>1, FilesKept DEF InstallerInv, bounds, files
<1>5. CASE Abort(CLI) /\ UNCHANGED loaded
  <2>1. Goes(<<>>, "failed") /\ OthersStay
    BY <1>1, <1>5, Aborts DEF InstallerInv
  <2>2. PlainTypes' /\ ServiceInv'
    BY <1>1, <1>4, <1>5, PlainTypesKept, ServicesKept DEF InstallerInv, services
  <2> QED
    BY <1>4, <1>5, <2>1, <2>2, GivesUp DEF Kept
<1>6. CASE /\ plist[First.svc] = Managed /\ Advance(CLI)
           /\ loaded' = [loaded EXCEPT ![First.svc] = TRUE]
  <2>1. Moves /\ OthersStay
    BY <1>1, <1>6, AdvanceMoves
  <2>2. loaded' \in [Services -> BOOLEAN] /\ \A s \in Services : loaded'[s] <=> s = First.svc \/ loaded[s]
    BY <1>2, <1>3, <1>6
  <2>3. PlainTypes'
    BY <1>1, <2>2 DEF InstallerInv, TypeOK, PlainTypes, files, bounds
  <2>4. ServiceInv'
    BY <1>4, <1>6, <2>2 DEF InstallerInv, ServiceInv, Counted
  <2>5. HeadInv'
    BY <1>2, <1>4, <2>1, HeadKept
  <2>6. job.cmd = "install" => Installed'
    BY <1>2, <1>4, <2>1, <2>2, InstalledKept, ServiceNames DEF Is
  <2> QED
    BY <1>3, <1>4, <2>1, <2>2, <2>3, <2>4, <2>5, <2>6, GoesOn, ServiceNames DEF Moves, Kept
<1> QED
  BY <1>2, <1>5, <1>6 DEF Bootstrap

\* A bootout taken for done: the property list may go next.
LEMMA BootoutHead ==
  ASSUME Moves, First.op = "bootout", loaded'[First.svc] => stuck'[First.svc]
  PROVE  HeadInv'
<1> DEFINE y == todo'[CLI][1]
<1>1. todo'[CLI] # <<>> => Adjacent(job.cmd, First, y)
  BY DEF Moves, Rest, First
<1> HIDE DEF y
<1>2. todo'[CLI] # <<>> =>
        /\ y.op \notin {"backup", "writeResolver"} \cup Late
        /\ y.op = "removePlist" => y.svc = First.svc
  BY <1>1 DEF Adjacent, Is, Late
<1> QED
  BY <1>2 DEF HeadInv, Ready, y

\* Install bootstraps again what it boots out.
LEMMA BootoutBootstrap ==
  ASSUME Moves, First.op = "bootout", job.cmd = "install"
  PROVE  Has(todo'[CLI], "bootstrap", First.svc)
<1>1. todo'[CLI] # <<>> /\ Is(todo'[CLI][1], "bootstrap", First.svc)
  BY DEF Moves, Rest, First, Final, Adjacent
<1>2. Len(todo'[CLI]) \in Nat \ {0}
  BY <1>1, EmptySeq DEF Moves, Rest, Shaped, Plans
<1> QED
  BY <1>1, <1>2 DEF Has

LEMMA BootoutStep ==
  ASSUME InstallerInv, Bootout(CLI)
  PROVE  Kept
<1>1. todo[CLI] # <<>> /\ UNCHANGED <<files, plist, program, bounds>>
  BY DEF Bootout, At
<1>2. /\ First.op = "bootout" /\ First.svc \in Services /\ Svc(CLI) = First.svc
      /\ job.result = "running"
  BY <1>1, AtFirst DEF Bootout
<1>3. /\ loaded \in [Services -> BOOLEAN] /\ stuck \in [Services -> BOOLEAN]
      /\ todo \in [Actors -> Plans] /\ job \in JobType /\ CLI \in Actors /\ CLI \notin Toggles
      /\ Toggles \subseteq Actors
  BY DEF InstallerInv, TypeOK, JobType, Actors
<1>4. FileInv' /\ UNCHANGED <<resolver, backup, plist, program, toggles, faults>>
  BY <1>1, FilesKept DEF InstallerInv, bounds, files
<1>5. /\ loaded' = [loaded EXCEPT ![First.svc] = FALSE]
      /\ stuck' = [stuck EXCEPT ![First.svc] = FALSE]
  BY <1>2 DEF Bootout
<1>6. /\ loaded' \in [Services -> BOOLEAN] /\ stuck' \in [Services -> BOOLEAN]
      /\ \A s \in Services : IF s = First.svc THEN ~loaded'[s]
                             ELSE loaded'[s] = loaded[s] /\ stuck'[s] = stuck[s]
  BY <1>2, <1>3, <1>5
<1> DEFINE r == Tail(todo[CLI])
<1>7. Rest(job.cmd, job.menubar, todo[CLI], r)
  BY <1>1, <1>3, TailPlan DEF InstallerInv, ShapeInv, JobType
<1>8. Shaped(job.cmd, job.menubar, r) /\ r \in Plans
  BY <1>7 DEF Rest, Shaped
<1> HIDE DEF r
<1>9. /\ todo' = [b \in Actors |-> IF b = CLI THEN r
                                   ELSE IF First.svc = "daemon" /\ b \in Toggles THEN <<>> ELSE todo[b]]
      /\ job' = IF r = <<>> THEN [job EXCEPT !.result = "ok"] ELSE job
  BY <1>2 DEF Bootout, Ends, r
<1>10. /\ todo' \in [Actors -> Plans] /\ todo'[CLI] = r
       /\ First.svc # "daemon" => OthersStay
       /\ First.svc = "daemon" => \A t \in Toggles : todo'[t] = <<>>
  <2>1. <<>> \in Plans
    BY EmptyPlan DEF Shaped
  <2>2. \A b \in Actors : todo'[b] \in Plans
    BY <1>3, <1>8, <1>9, <2>1
  <2>3. todo' \in [Actors -> Plans]
    BY <1>9, <2>2
  <2> QED
    BY <1>3, <1>9, <2>3 DEF OthersStay
<1>11. /\ job' \in JobType /\ job'.cmd = job.cmd /\ job'.menubar = job.menubar
       /\ job'.result = IF r = <<>> THEN "ok" ELSE "running"
  BY <1>2, <1>3, <1>9 DEF JobType
<1>12. Moves
  BY <1>1, <1>2, <1>7, <1>8, <1>10, <1>11 DEF Moves, Goes
<1>13. PlainTypes'
  BY <1>1, <1>6 DEF InstallerInv, TypeOK, PlainTypes, files, bounds
<1>14. ServiceInv'
  BY <1>4, <1>6 DEF InstallerInv, ServiceInv, Counted
<1>15. HeadInv'
  BY <1>2, <1>6, <1>12, BootoutHead
<1>16. job.cmd = "install" => Installed'
  <2>1. HAVE job.cmd = "install"
  <2>2. Has(todo'[CLI], "bootstrap", First.svc)
    BY <1>2, <1>12, <2>1, BootoutBootstrap
  <2>3. loaded["daemon"] => loaded'["daemon"] \/ Has(todo'[CLI], "bootstrap", "daemon")
    BY <1>6, <2>2, ServiceNames
  <2> QED
    BY <1>2, <1>4, <1>12, <2>1, <2>3, InstalledKept DEF Is
<1>17. job.cmd = "uninstall" => Removed' /\ (Whole => MenubarRemoved')
  <2>1. HAVE job.cmd = "uninstall"
  <2>2. \A s \in Services : Is(First, "bootout", s) \/ (loaded[s] => stuck[s]) => (loaded'[s] => stuck'[s])
    BY <1>2, <1>6 DEF Is
  <2>3. loaded["daemon"] => Is(First, "bootout", "daemon") \/ loaded'["daemon"]
    BY <1>2, <1>6, ServiceNames DEF Is
  <2> QED
    BY <1>2, <1>4, <1>12, <2>1, <2>2, <2>3, RemovedKept, MenubarRemovedKept, ServiceNames DEF Is
<1>18. \/ OthersStay /\ (loaded["daemon"] => loaded'["daemon"])
       \/ \A t \in Toggles : todo'[t] = <<>>
  BY <1>6, <1>10, ServiceNames
<1> QED
  BY <1>4, <1>12, <1>13, <1>14, <1>15, <1>16, <1>17, <1>18, GoesOn DEF Moves, Kept

\* A bootout of the CLI that leaves the service loaded, if it was, and goes on.
LEMMA StaysLoaded ==
  ASSUME InstallerInv, todo[CLI] # <<>>, Advance(CLI), First.op = "bootout",
         UNCHANGED <<files, plist, program, loaded, toggles, torn, edits>>, PlainTypes',
         faults' = 0 => faults = 0,
         stuck' \in [Services -> BOOLEAN],
         \A s \in Services : loaded[s] /\ stuck[s] => stuck'[s],
         loaded[First.svc] => stuck'[First.svc]
  PROVE  Kept
<1>1. Moves /\ OthersStay
  BY AdvanceMoves
<1>2. First.svc \in Services
  BY AtFirst
<1>3. FileInv' /\ UNCHANGED <<resolver, backup>>
  BY FilesKept DEF InstallerInv, files
<1>4. ServiceInv'
  BY DEF InstallerInv, ServiceInv, Counted
<1>5. HeadInv'
  BY <1>1, BootoutHead
<1>6. job.cmd = "install" => Installed'
  BY <1>1, <1>3, InstalledKept DEF Is
<1>7. job.cmd = "uninstall" => Removed' /\ (Whole => MenubarRemoved')
  <2>1. \A s \in Services : Is(First, "bootout", s) \/ (loaded[s] => stuck[s]) => (loaded'[s] => stuck'[s])
    BY <1>2 DEF Is
  <2> QED
    BY <1>1, <1>3, <2>1, RemovedKept, MenubarRemovedKept, ServiceNames DEF Is
<1> QED
  BY <1>1, <1>3, <1>4, <1>5, <1>6, <1>7, GoesOn DEF Moves, Kept

LEMMA BootoutMissingStep ==
  ASSUME InstallerInv, BootoutMissing(CLI)
  PROVE  Kept
<1>1. todo[CLI] # <<>> /\ Advance(CLI) /\ UNCHANGED <<files, plist, program, loaded, bounds>>
  BY DEF BootoutMissing, At
<1>2. /\ First.op = "bootout" /\ First.svc \in Services
      /\ stuck' = [stuck EXCEPT ![First.svc] = loaded[First.svc]]
  BY <1>1, AtFirst DEF BootoutMissing
<1>3. loaded \in [Services -> BOOLEAN] /\ stuck \in [Services -> BOOLEAN]
  BY DEF InstallerInv, TypeOK
<1>4. stuck' \in [Services -> BOOLEAN] /\ stuck'[First.svc] = loaded[First.svc]
      /\ \A s \in Services : loaded[s] /\ stuck[s] => stuck'[s]
  BY <1>2, <1>3
<1>5. PlainTypes'
  BY <1>1, <1>4 DEF InstallerInv, TypeOK, PlainTypes, files, bounds
<1>6. UNCHANGED <<toggles, torn, edits, faults>>
  BY <1>1 DEF bounds
<1> QED
  BY <1>1, <1>2, <1>4, <1>5, <1>6, StaysLoaded

LEMMA BootoutRefusedStep ==
  ASSUME InstallerInv, BootoutRefused(CLI)
  PROVE  Kept
<1>1. todo[CLI] # <<>> /\ UNCHANGED <<files, plist, program, loaded>> /\ (Fault \/ UNCHANGED bounds)
  BY DEF BootoutRefused, At
<1>2. First.op = "bootout" /\ First.svc \in Services /\ Svc(CLI) = First.svc
  BY <1>1, AtFirst DEF BootoutRefused
<1>3. /\ commands' = commands /\ toggles' = toggles /\ torn' = torn /\ edits' = edits
      /\ faults' \in 0..MaxFaults /\ (faults' = 0 => faults = 0)
  BY <1>1, FaultBound DEF InstallerInv
<1>4. stuck \in [Services -> BOOLEAN]
  BY DEF InstallerInv, TypeOK
<1>5. CASE Advance(CLI) /\ stuck' = [stuck EXCEPT ![First.svc] = TRUE]
  <2>1. stuck' \in [Services -> BOOLEAN] /\ stuck'[First.svc]
        /\ \A s \in Services : loaded[s] /\ stuck[s] => stuck'[s]
    BY <1>2, <1>4, <1>5
  <2>2. PlainTypes'
    BY <1>1, <1>3, <2>1 DEF InstallerInv, TypeOK, PlainTypes, files
  <2> QED
    BY <1>1, <1>2, <1>3, <1>5, <2>1, <2>2, StaysLoaded
<1>6. CASE Abort(CLI) /\ UNCHANGED stuck
  <2>1. Goes(<<>>, "failed") /\ OthersStay
    BY <1>1, <1>6, Aborts DEF InstallerInv
  <2>2. PlainTypes'
    BY <1>1, <1>3, <1>6 DEF InstallerInv, TypeOK, PlainTypes, files
  <2>3. FileInv' /\ ServiceInv'
    BY <1>1, <1>3, <1>6, FilesKept, ServicesKept DEF InstallerInv, services
  <2> QED
    BY <1>1, <1>3, <2>1, <2>2, <2>3, GivesUp DEF Kept
<1> QED
  BY <1>2, <1>5, <1>6 DEF BootoutRefused

LEMMA InterruptedStep ==
  ASSUME InstallerInv, Interrupted(CLI)
  PROVE  Kept
<1>1. todo[CLI] # <<>> /\ Abort(CLI) /\ UNCHANGED <<files, services>>
  BY DEF Interrupted
<1>2. /\ commands' = commands /\ toggles' = toggles /\ torn' = torn /\ edits' = edits
      /\ faults' \in 0..MaxFaults
  BY FaultBound DEF InstallerInv, Interrupted
<1>3. Goes(<<>>, "failed") /\ OthersStay
  BY <1>1, Aborts DEF InstallerInv
<1>4. PlainTypes' /\ loaded' = loaded
  BY <1>1, <1>2 DEF InstallerInv, TypeOK, PlainTypes, files, services
<1>5. FileInv' /\ ServiceInv'
  BY <1>1, <1>2, FilesKept, ServicesKept DEF InstallerInv
<1> QED
  BY <1>2, <1>3, <1>4, <1>5, GivesUp DEF Kept

LEMMA WriteTornStep ==
  ASSUME InstallerInv, WriteTorn(CLI)
  PROVE  Kept
<1>1. todo[CLI] # <<>> /\ Abort(CLI)
      /\ UNCHANGED <<held, displaced, program, loaded, stuck, commands, toggles, faults, edits>>
  BY DEF WriteTorn, At
<1>2. Goes(<<>>, "failed") /\ OthersStay
  BY <1>1, Aborts DEF InstallerInv
<1>3. MaxTorn \in Nat /\ torn \in 0..MaxTorn /\ torn' \in 0..MaxTorn /\ torn' # 0
  <2>1. MaxTorn \in Nat /\ torn \in 0..MaxTorn
    BY DEF InstallerInv, TypeOK
  <2> QED
    BY <2>1 DEF WriteTorn
<1>4. /\ resolver' \in Contents /\ backup' \in Contents \ {Managed}
      /\ plist' \in [Services -> {Absent, Managed, Torn}]
      /\ \A s \in Services : plist[s] # Absent => plist'[s] # Absent
  <2>1. /\ resolver \in Contents /\ backup \in Contents \ {Managed}
        /\ plist \in [Services -> {Absent, Managed, Torn}] /\ Svc(CLI) \in Services
    BY <1>1, AtFirst DEF InstallerInv, TypeOK
  <2>2. CASE backup' = Torn /\ UNCHANGED <<resolver, plist>>
    BY <2>1, <2>2 DEF Contents
  <2>3. CASE resolver' = Torn /\ UNCHANGED <<backup, plist>>
    BY <2>1, <2>3 DEF Contents
  <2>4. CASE plist' = [plist EXCEPT ![Svc(CLI)] = Torn] /\ UNCHANGED <<resolver, backup>>
    BY <2>1, <2>4 DEF Contents
  <2> QED
    BY <2>2, <2>3, <2>4 DEF WriteTorn
<1>5. PlainTypes'
  BY <1>1, <1>3, <1>4 DEF InstallerInv, TypeOK, PlainTypes
<1>6. FileInv'
  BY <1>3 DEF FileInv, Quiet
<1>7. ServiceInv'
  BY <1>1, <1>4 DEF InstallerInv, ServiceInv, Counted
<1> QED
  BY <1>1, <1>2, <1>5, <1>6, <1>7, GivesUp DEF Kept

\* A step of the CLI fails: the command ends, or goes on without the step, or
\* without the whole of the menu bar's part.
LEMMA StepFailsStep ==
  ASSUME InstallerInv, StepFails(CLI)
  PROVE  Kept
<1>1. todo[CLI] # <<>> /\ UNCHANGED <<files, plist, program, loaded>> /\ Fault
  BY DEF StepFails
<1>2. /\ commands' = commands /\ toggles' = toggles /\ torn' = torn /\ edits' = edits
      /\ faults' \in 0..MaxFaults /\ faults' # 0
  BY <1>1, FaultBound DEF InstallerInv
<1>3. /\ Head(todo[CLI]) = First /\ StepOf(job.cmd, job.menubar, First) /\ First.svc \in Services
      /\ \A op : At(CLI, op) <=> First.op = op
      /\ Svc(CLI) = First.svc /\ job.result = "running"
  BY <1>1, AtFirst
<1>4. /\ stuck \in [Services -> BOOLEAN] /\ loaded \in [Services -> BOOLEAN] /\ CLI \in Actors
      /\ job \in JobType /\ job.menubar \in BOOLEAN /\ todo \in [Actors -> Plans]
  BY DEF InstallerInv, TypeOK, JobType, Actors
<1>5. stuck' = [s \in Services |->
                  stuck[s] \/ (First.op = "bootout" /\ ~First.must /\ s = First.svc /\ loaded[s])]
  <2>1. stuck' = [s \in Services |->
                    \/ stuck[s]
                    \/ At(CLI, "bootout") /\ ~Head(todo[CLI]).must /\ s = Svc(CLI) /\ loaded[s]]
    BY DEF StepFails
  <2> QED
    BY <1>3, <2>1 DEF At
<1>6. stuck' \in [Services -> BOOLEAN] /\ \A s \in Services : stuck[s] => stuck'[s]
  BY <1>4, <1>5
<1>7. PlainTypes'
  BY <1>1, <1>2, <1>6 DEF InstallerInv, TypeOK, PlainTypes, files
<1>8. FileInv' /\ ServiceInv' /\ UNCHANGED <<resolver, backup>>
  BY <1>1, <1>2, <1>6, FilesKept DEF InstallerInv, ServiceInv, Counted, files
<1>9. CASE First.must
  <2>1. Abort(CLI)
    BY <1>3, <1>9 DEF StepFails
  <2>2. Goes(<<>>, "failed") /\ OthersStay
    BY <1>1, <2>1, Aborts DEF InstallerInv
  <2> QED
    BY <1>1, <1>2, <1>7, <1>8, <2>2, GivesUp DEF Kept
<1>10. CASE ~First.must
  <2>1. /\ job.cmd = "uninstall" /\ ~job.menubar /\ First.svc = "menubar"
        /\ First.op \in {"gui", "bootout", "removePlist", "unstage"}
    BY <1>3, <1>10 DEF StepOf
  <2>2. CASE First.op = "gui"
    <3> DEFINE r == SubSeq(todo[CLI], 1 + Len(RemoveMenubar(FALSE)), Len(todo[CLI]))
    <3>1. /\ Shaped("uninstall", job.menubar, r)
          /\ \A op : op # "gui" /\ Has(todo[CLI], op, "daemon") => Has(r, op, "daemon")
          /\ r # <<>> => \E x : x.op = "unstage" /\ Adjacent("uninstall", x, r[1])
      <4>1. Shaped("uninstall", job.menubar, todo[CLI]) /\ todo[CLI][1].op = "gui"
        BY <2>1, <2>2 DEF InstallerInv, ShapeInv, First
      <4> QED
        BY <1>1, <1>4, <4>1, SkipPlan
    <3>2. todo' = [todo EXCEPT ![CLI] = r] /\ Ends(CLI, r, "ok")
      BY <1>3, <1>10, <2>2 DEF StepFails
    <3> HIDE DEF r
    <3>3. todo' \in [Actors -> Plans] /\ todo'[CLI] = r /\ OthersStay
      BY <1>4, <3>1, <3>2 DEF OthersStay, Actors, Shaped
    <3>4. /\ job' \in JobType /\ job'.cmd = job.cmd /\ job'.menubar = job.menubar
          /\ job'.result = IF r = <<>> THEN "ok" ELSE "running"
      BY <1>3, <1>4, <3>2 DEF JobType, Ends
    <3>5. Goes(todo'[CLI], "ok")
      BY <2>1, <3>1, <3>3, <3>4 DEF Goes
    <3>6. HeadInv'
      <4>1. r # <<>> => r[1].op \notin {"backup", "writeResolver", "removePlist"} \cup Late
        BY <3>1 DEF Adjacent, Is, Late
      <4> QED
        BY <3>3, <4>1 DEF HeadInv, Ready
    <3>7. Removed'
      <4>1. Removed /\ stuck'["daemon"] = stuck["daemon"]
        BY <1>3, <1>4, <1>5, <2>1, <2>2, ServiceNames DEF InstallerInv, UninstallInv
      <4>2. \A op \in {"restore", "dropBackup", "removePlist", "bootout"} :
              Has(todo[CLI], op, "daemon") => Has(todo'[CLI], op, "daemon")
        BY <3>1, <3>3
      <4> QED
        BY <1>1, <1>8, <4>1, <4>2 DEF Removed, Left
    <3> QED
      BY <1>1, <1>2, <1>3, <1>7, <1>8, <2>1, <3>3, <3>5, <3>6, <3>7, GoesOn DEF Kept
  <2>3. CASE First.op # "gui"
    <3>1. Advance(CLI)
      BY <1>3, <1>10, <2>3 DEF StepFails
    <3>2. CASE First.op = "bootout"
      <4>1. loaded[First.svc] => stuck'[First.svc]
        BY <1>3, <1>4, <1>5, <1>10, <3>2
      <4> QED
        BY <1>1, <1>2, <1>6, <1>7, <3>1, <3>2, <4>1, StaysLoaded
    <3>3. CASE First.op # "bootout"
      <4>1. Moves /\ OthersStay
        BY <1>1, <3>1, AdvanceMoves
      <4>2. HeadInv'
        BY <1>8, <2>1, <2>3, <3>3, <4>1, HeadKept DEF Late
      <4>3. Removed'
        BY <1>1, <1>6, <1>8, <2>1, <4>1, RemovedKept, ServiceNames DEF Is
      <4> QED
        BY <1>1, <1>2, <1>7, <1>8, <2>1, <4>1, <4>2, <4>3, GoesOn DEF Moves, Kept
    <3> QED
      BY <3>2, <3>3
  <2> QED
    BY <2>2, <2>3
<1> QED
  BY <1>9, <1>10

(***************************************************************************)
(* Startup requests                                                        *)
(***************************************************************************)
\* What a startup request's step does to the plans.
ToggleQueue ==
  /\ todo' \in [Actors -> Plans] /\ todo'[CLI] = todo[CLI] /\ job' = job
  /\ \A u \in Toggles : /\ Shaped("toggle", FALSE, todo'[u])
                        /\ todo'[u] # <<>> => todo[u] # <<>>

\* It changes nothing but the menu bar's service and bounds.
ToggleEffect ==
  /\ ToggleQueue /\ PlainTypes'
  /\ UNCHANGED <<files, program, toggles, edits>>
  /\ plist'["daemon"] = plist["daemon"] /\ loaded'["daemon"] = loaded["daemon"]
  /\ stuck'["daemon"] = stuck["daemon"]
  /\ torn' = 0 => torn = 0
  /\ faults' = 0 => faults = 0
  /\ loaded["daemon"] /\ toggles # 0

LEMMA ToggleFirst ==
  ASSUME InstallerInv, NEW t \in Toggles, todo[t] # <<>>
  PROVE  /\ Rest("toggle", FALSE, todo[t], Tail(todo[t])) /\ t # CLI /\ t \in Actors
         /\ \A op : At(t, op) => op \in ToggleOps
         /\ Svc(t) = "menubar" /\ Head(todo[t]).must
         /\ loaded["daemon"] /\ toggles # 0
<1>1. Shaped("toggle", FALSE, todo[t]) /\ loaded["daemon"] /\ toggles # 0
  BY DEF InstallerInv, ShapeInv
<1>2. Rest("toggle", FALSE, todo[t], Tail(todo[t]))
  BY <1>1, TailPlan
<1>3. Head(todo[t]) = todo[t][1] /\ StepOf("toggle", FALSE, todo[t][1])
  BY <1>2 DEF Rest
<1>4. t # CLI /\ t \in Actors
  BY DEF Actors
<1> QED
  BY <1>1, <1>2, <1>3, <1>4 DEF At, Svc, StepOf, OpsOf

LEMMA ToggleMoves ==
  ASSUME InstallerInv, NEW t \in Toggles, todo[t] # <<>>, Advance(t) \/ Abort(t)
  PROVE  ToggleQueue
<1>1. todo \in [Actors -> Plans] /\ CLI \in Actors /\ Toggles \subseteq Actors
  BY DEF InstallerInv, TypeOK, Actors
<1>2. t # CLI /\ t \in Actors /\ Rest("toggle", FALSE, todo[t], Tail(todo[t]))
  BY ToggleFirst
<1>3. job' = job
  BY <1>2 DEF Advance, Abort, Ends
<1>4. PICK r : r \in {Tail(todo[t]), <<>>} /\ todo' = [todo EXCEPT ![t] = r]
  BY DEF Advance, Abort
<1>5. Shaped("toggle", FALSE, r) /\ r \in Plans
  <2>1. Shaped("toggle", FALSE, Tail(todo[t])) /\ Shaped("toggle", FALSE, <<>>)
    BY <1>2, EmptyPlan DEF Rest
  <2> QED
    BY <1>4, <2>1 DEF Shaped
<1>6. /\ todo' \in [Actors -> Plans] /\ todo'[CLI] = todo[CLI]
      /\ \A u \in Toggles : todo'[u] = IF u = t THEN r ELSE todo[u]
  BY <1>1, <1>2, <1>4, <1>5
<1> QED
  BY <1>3, <1>5, <1>6 DEF ToggleQueue, InstallerInv, ShapeInv

LEMMA ToggleSteps ==
  ASSUME InstallerInv, NEW t \in Toggles,
         ServiceStep(t) \/ StepFails(t) \/ Interrupted(t) \/ WriteTorn(t)
  PROVE  ToggleEffect
<1>1. todo[t] # <<>>
  BY DEF ServiceStep, Minor, Stage, WritePlist, Preflight, Bootout, BootoutMissing, BootoutRefused,
     Bootstrap, Kickstart, StageFails, StepFails, Interrupted, WriteTorn, At
<1>2. /\ t # CLI /\ t \in Actors /\ Svc(t) = "menubar" /\ Head(todo[t]).must
      /\ loaded["daemon"] /\ toggles # 0
      /\ \A op : At(t, op) => op \in ToggleOps
  BY <1>1, ToggleFirst
<1>3. /\ PlainTypes
      /\ plist \in [Services -> {Absent, Managed, Torn}] /\ loaded \in [Services -> BOOLEAN]
      /\ stuck \in [Services -> BOOLEAN] /\ todo \in [Actors -> Plans]
      /\ Toggles \subseteq Actors /\ CLI \in Actors
  BY DEF InstallerInv, TypeOK, PlainTypes, Actors
<1> DEFINE Frame ==
      /\ PlainTypes' /\ UNCHANGED <<files, program, toggles, edits>>
      /\ plist'["daemon"] = plist["daemon"] /\ loaded'["daemon"] = loaded["daemon"]
      /\ stuck'["daemon"] = stuck["daemon"] /\ (torn' = 0 => torn = 0)
      /\ faults' = 0 => faults = 0
<1>4. CASE Minor(t) \/ Preflight(t) \/ Kickstart(t)
  <2>1. (Advance(t) \/ Abort(t)) /\ UNCHANGED <<files, services, bounds>>
    BY <1>4 DEF Minor, Preflight, Kickstart
  <2>2. Frame
    BY <1>3, <2>1 DEF PlainTypes, files, services, bounds
  <2> QED
    BY <1>1, <1>2, <2>1, <2>2, ToggleMoves DEF ToggleEffect
<1>5. CASE Stage(t)
  BY <1>2, <1>5 DEF Stage, ToggleOps, StartOps
<1>14. CASE StageFails(t)
  BY <1>2, <1>14 DEF StageFails, ToggleOps, StartOps
<1>6. CASE WritePlist(t)
  <2>1. Advance(t) /\ UNCHANGED <<files, program, loaded, stuck, bounds>>
    BY <1>6 DEF WritePlist
  <2>2. PICK v \in {Managed, Absent} : plist' = [plist EXCEPT !["menubar"] = v]
    BY <1>2, <1>6 DEF WritePlist
  <2>3. plist' \in [Services -> {Absent, Managed, Torn}] /\ plist'["daemon"] = plist["daemon"]
    BY <1>3, <2>2, ServiceNames
  <2>4. Frame
    BY <1>3, <2>1, <2>3 DEF PlainTypes, files, bounds
  <2> QED
    BY <1>1, <1>2, <2>1, <2>4, ToggleMoves DEF ToggleEffect
<1>7. CASE Bootout(t)
  <2>1. /\ UNCHANGED <<files, plist, program, bounds>>
        /\ loaded' = [loaded EXCEPT !["menubar"] = FALSE]
        /\ stuck' = [stuck EXCEPT !["menubar"] = FALSE]
        /\ job' = job
    BY <1>2, <1>7 DEF Bootout, Ends
  <2>2. todo' = [b \in Actors |-> IF b = t THEN Tail(todo[t]) ELSE todo[b]]
    BY <1>2, <1>7 DEF Bootout
  <2>3. Advance(t)
    <3>1. todo' = [todo EXCEPT ![t] = Tail(@)]
      BY <1>2, <1>3, <2>2
    <3> QED
      BY <1>2, <2>1, <3>1 DEF Advance, Ends
  <2>4. /\ loaded' \in [Services -> BOOLEAN] /\ loaded'["daemon"] = loaded["daemon"]
        /\ stuck' \in [Services -> BOOLEAN] /\ stuck'["daemon"] = stuck["daemon"]
    BY <1>3, <2>1, ServiceNames
  <2>5. Frame
    BY <1>3, <2>1, <2>4 DEF PlainTypes, files, bounds
  <2> QED
    BY <1>1, <1>2, <2>3, <2>5, ToggleMoves DEF ToggleEffect
<1>8. CASE BootoutMissing(t)
  <2>1. /\ Advance(t) /\ UNCHANGED <<files, plist, program, loaded, bounds>>
        /\ stuck' = [stuck EXCEPT !["menubar"] = loaded["menubar"]]
    BY <1>2, <1>8 DEF BootoutMissing
  <2>2. stuck' \in [Services -> BOOLEAN] /\ stuck'["daemon"] = stuck["daemon"]
    BY <1>3, <2>1, ServiceNames
  <2>3. Frame
    BY <1>3, <2>1, <2>2 DEF PlainTypes, files, bounds
  <2> QED
    BY <1>1, <1>2, <2>1, <2>3, ToggleMoves DEF ToggleEffect
<1>9. CASE BootoutRefused(t)
  <2>1. Abort(t) /\ UNCHANGED <<files, plist, program, loaded, stuck>> /\ (Fault \/ UNCHANGED bounds)
    BY <1>2, <1>9 DEF BootoutRefused
  <2>2. /\ commands' = commands /\ toggles' = toggles /\ torn' = torn /\ edits' = edits
        /\ faults' \in 0..MaxFaults /\ (faults' = 0 => faults = 0)
    BY <2>1, FaultBound DEF InstallerInv
  <2>3. Frame
    BY <1>3, <2>1, <2>2 DEF PlainTypes, files
  <2> QED
    BY <1>1, <1>2, <2>1, <2>3, ToggleMoves DEF ToggleEffect
<1>10. CASE Bootstrap(t)
  <2>1. (Advance(t) \/ Abort(t)) /\ UNCHANGED <<files, plist, program, stuck, bounds>>
    BY <1>10 DEF Bootstrap
  <2>2. loaded' = [loaded EXCEPT !["menubar"] = TRUE] \/ loaded' = loaded
    BY <1>2, <1>10 DEF Bootstrap
  <2>3. loaded' \in [Services -> BOOLEAN] /\ loaded'["daemon"] = loaded["daemon"]
    BY <1>3, <2>2, ServiceNames
  <2>4. Frame
    BY <1>3, <2>1, <2>3 DEF PlainTypes, files, bounds
  <2> QED
    BY <1>1, <1>2, <2>1, <2>4, ToggleMoves DEF ToggleEffect
<1>11. CASE StepFails(t)
  <2>1. Abort(t) /\ UNCHANGED <<files, plist, program, loaded>> /\ Fault
    BY <1>2, <1>11 DEF StepFails
  <2>2. stuck' \in [Services -> BOOLEAN] /\ stuck'["daemon"] = stuck["daemon"]
    BY <1>2, <1>3, <1>11, ServiceNames DEF StepFails
  <2>3. /\ commands' = commands /\ toggles' = toggles /\ torn' = torn /\ edits' = edits
        /\ faults' \in 0..MaxFaults /\ (faults' = 0 => faults = 0)
    BY <2>1, FaultBound DEF InstallerInv
  <2>4. Frame
    BY <1>3, <2>1, <2>2, <2>3 DEF PlainTypes, files
  <2> QED
    BY <1>1, <1>2, <2>1, <2>4, ToggleMoves DEF ToggleEffect
<1>12. CASE Interrupted(t)
  <2>1. Abort(t) /\ UNCHANGED <<files, services>> /\ Fault
    BY <1>12 DEF Interrupted
  <2>2. /\ commands' = commands /\ toggles' = toggles /\ torn' = torn /\ edits' = edits
        /\ faults' \in 0..MaxFaults /\ (faults' = 0 => faults = 0)
    BY <2>1, FaultBound DEF InstallerInv
  <2>3. Frame
    BY <1>3, <2>1, <2>2 DEF PlainTypes, files, services
  <2> QED
    BY <1>1, <1>2, <2>1, <2>3, ToggleMoves DEF ToggleEffect
<1>13. CASE WriteTorn(t)
  <2>1. /\ Abort(t) /\ plist' = [plist EXCEPT !["menubar"] = Torn] /\ torn < MaxTorn /\ torn' = torn + 1
        /\ UNCHANGED <<files, program, loaded, stuck, commands, toggles, faults, edits>>
    BY <1>2, <1>13 DEF WriteTorn, ToggleOps, StartOps, files
  <2>2. MaxTorn \in Nat /\ torn \in 0..MaxTorn
    BY <1>3 DEF PlainTypes
  <2>3. torn' \in 0..MaxTorn /\ torn' # 0
    BY <2>1, <2>2
  <2>4. plist' \in [Services -> {Absent, Managed, Torn}] /\ plist'["daemon"] = plist["daemon"]
    BY <1>3, <2>1, ServiceNames
  <2>5. Frame
    BY <1>3, <2>1, <2>3, <2>4 DEF PlainTypes, files
  <2> QED
    BY <1>1, <1>2, <2>1, <2>5, ToggleMoves DEF ToggleEffect
<1> QED
  BY <1>4, <1>5, <1>6, <1>7, <1>8, <1>9, <1>10, <1>11, <1>12, <1>13, <1>14 DEF ServiceStep

\* A startup request only disturbs what is said of the menu bar, and that only
\* while the daemon is loaded.
LEMMA ToggleKept ==
  ASSUME InstallerInv, ToggleEffect
  PROVE  Kept
<1>1. /\ ToggleQueue /\ PlainTypes' /\ UNCHANGED <<resolver, backup, held, displaced, program, toggles, edits>>
      /\ plist'["daemon"] = plist["daemon"] /\ loaded'["daemon"] = loaded["daemon"]
      /\ stuck'["daemon"] = stuck["daemon"] /\ (torn' = 0 => torn = 0)
      /\ (faults' = 0 => faults = 0) /\ loaded["daemon"] /\ toggles # 0
  BY DEF ToggleEffect, files
<1>2. todo' \in [Actors -> Plans] /\ todo'[CLI] = todo[CLI] /\ job' = job
  BY <1>1 DEF ToggleQueue
<1>3. TypeOK'
  BY <1>1, <1>2 DEF InstallerInv, TypeOK, PlainTypes
<1>4. ShapeInv'
  BY <1>1, <1>2 DEF InstallerInv, ShapeInv, ToggleQueue
<1>5. FileInv'
  BY <1>1 DEF InstallerInv, FileInv, Quiet
<1>6. HeadInv'
  <2>1. (todo[CLI] # <<>> /\ Counted(todo[CLI][1].svc)) => todo[CLI][1].svc = "daemon"
    BY <1>1 DEF Counted
  <2> QED
    BY <1>1, <1>2, <2>1 DEF InstallerInv, HeadInv, Ready, Quiet, Counted
<1>7. ServiceInv'
  BY <1>1, ServiceNames DEF InstallerInv, ServiceInv, Counted
<1>8. (job.cmd = "install" /\ job.result = "running") => Installed'
  BY <1>1, <1>2 DEF InstallerInv, InstallInv, Installed, Left
<1>9. UninstallInv'
  BY <1>1, <1>2 DEF InstallerInv, UninstallInv, Removed, MenubarRemoved, Whole, Left
<1> QED
  BY <1>2, <1>3, <1>4, <1>5, <1>6, <1>7, <1>8, <1>9 DEF InstallerInv, InstallInv, Kept

LEMMA BeginToggleStep ==
  ASSUME InstallerInv, NEW t \in Toggles, BeginToggle(t)
  PROVE  Kept
<1>1. /\ loaded["daemon"] /\ toggles < MaxToggles /\ toggles' = toggles + 1
      /\ UNCHANGED <<files, services, job, commands, faults, torn, edits>>
  BY DEF BeginToggle
<1>2. PICK enabled \in BOOLEAN : todo' = [todo EXCEPT ![t] = SetMenubarStartupEnabled(enabled)]
  BY DEF BeginToggle
<1>3. Shaped("toggle", FALSE, SetMenubarStartupEnabled(enabled))
  BY TogglePlan
<1>4. todo \in [Actors -> Plans] /\ t \in Actors /\ t # CLI /\ CLI \in Actors /\ Toggles \subseteq Actors
  BY DEF InstallerInv, TypeOK, Actors
<1> DEFINE r == SetMenubarStartupEnabled(enabled)
<1> HIDE DEF r
<1>5. /\ todo' \in [Actors -> Plans] /\ todo'[CLI] = todo[CLI]
      /\ \A u \in Toggles : todo'[u] = IF u = t THEN r ELSE todo[u]
  <2>1. r \in Plans /\ todo' = [todo EXCEPT ![t] = r]
    BY <1>2, <1>3 DEF Shaped, r
  <2> QED
    BY <1>4, <2>1
<1>6. MaxToggles \in Nat /\ toggles \in 0..MaxToggles
  BY DEF InstallerInv, TypeOK
<1>7. toggles' \in 0..MaxToggles /\ toggles' # 0
  BY <1>1, <1>6
<1>8. UNCHANGED <<resolver, backup, held, displaced, plist, program, loaded, stuck>>
  BY <1>1 DEF files, services
<1>9. TypeOK'
  BY <1>1, <1>5, <1>7, <1>8 DEF InstallerInv, TypeOK
<1>10. ShapeInv'
  BY <1>1, <1>3, <1>5, <1>7, <1>8 DEF InstallerInv, ShapeInv, r
<1>11. FileInv'
  BY <1>1, <1>8 DEF InstallerInv, FileInv, Quiet
<1>12. HeadInv'
  BY <1>1, <1>5, <1>7, <1>8 DEF InstallerInv, HeadInv, Ready, Quiet, Counted
<1>13. ServiceInv'
  BY <1>7, <1>8 DEF InstallerInv, ServiceInv, Counted
<1>14. (job.cmd = "install" /\ job.result = "running") => Installed'
  BY <1>1, <1>5, <1>8 DEF InstallerInv, InstallInv, Installed, Left
<1>15. UninstallInv'
  BY <1>1, <1>5, <1>8 DEF InstallerInv, UninstallInv, Removed, MenubarRemoved, Whole, Left
<1> QED
  BY <1>1, <1>9, <1>10, <1>11, <1>12, <1>13, <1>14, <1>15 DEF InstallerInv, InstallInv, Kept

(***************************************************************************)
(* Commands and the user                                                   *)
(***************************************************************************)
\* A command starts with a plan of its own, whose first step relies on nothing.
LEMMA CommandStep ==
  ASSUME InstallerInv, NEW cmd \in {"install", "uninstall", "start", "stop"}, NEW m \in BOOLEAN,
         NEW q, Command(cmd, m, q), Shaped(cmd, m, q), q # <<>>,
         q[1].op \in {"ensurePaths", "preflight", "bootout"},
         cmd = "install" =>
           /\ Has(q, "writeResolver", "daemon") /\ Has(q, "plist", "daemon")
           /\ Has(q, "stage", "daemon") /\ Has(q, "bootstrap", "daemon")
           /\ m => Has(q, "stage", "menubar"),
         cmd = "uninstall" =>
           /\ Has(q, "bootout", "daemon") /\ Has(q, "removePlist", "daemon")
           /\ Has(q, "restore", "daemon") /\ Has(q, "dropBackup", "daemon")
           /\ Has(q, "bootout", "menubar") /\ Has(q, "removePlist", "menubar")
           /\ Has(q, "unstage", "menubar")
  PROVE  Kept
<1>1. /\ todo[CLI] = <<>> /\ commands < MaxCommands /\ commands' = commands + 1
      /\ todo' = [todo EXCEPT ![CLI] = q]
      /\ job' = [cmd |-> cmd, menubar |-> m, result |-> "running"]
      /\ UNCHANGED <<files, services, toggles, faults, torn, edits>>
  BY DEF Command
<1>2. todo \in [Actors -> Plans] /\ CLI \in Actors /\ q \in Plans
  BY DEF InstallerInv, TypeOK, Actors, Shaped
<1>3. todo' \in [Actors -> Plans] /\ todo'[CLI] = q /\ OthersStay
  BY <1>1, <1>2 DEF OthersStay, Actors
<1>4. /\ job' \in JobType /\ job'.cmd = cmd /\ job'.menubar = m /\ job'.result = "running"
  BY <1>1 DEF JobType
<1>5. MaxCommands \in Nat /\ commands \in 0..MaxCommands
  BY DEF InstallerInv, TypeOK
<1>6. commands' \in 0..MaxCommands
  BY <1>1, <1>5
<1>7. UNCHANGED <<resolver, backup, held, displaced, plist, program, loaded, stuck>>
  BY <1>1 DEF files, services
<1>8. TypeOK'
  BY <1>1, <1>3, <1>4, <1>6, <1>7 DEF InstallerInv, TypeOK, JobType
<1>9. ShapeInv'
  BY <1>1, <1>3, <1>4, <1>7 DEF InstallerInv, ShapeInv, OthersStay
<1>10. FileInv' /\ ServiceInv'
  BY <1>1, FilesKept, ServicesKept DEF InstallerInv
<1>11. HeadInv'
  BY <1>3 DEF HeadInv, Ready, Late
<1>12. cmd = "install" => Installed'
  BY <1>3, <1>4 DEF Installed, Left
<1>13. UninstallInv'
  <2>1. cmd = "uninstall" => Removed'
    BY <1>3 DEF Removed, Left
  <2>2. cmd = "uninstall" => MenubarRemoved'
    BY <1>3 DEF MenubarRemoved, Left
  <2> QED
    BY <1>4, <2>1, <2>2 DEF UninstallInv
<1>14. InstallInv'
  BY <1>4, <1>12 DEF InstallInv
<1>15. job.result # "running"
  BY <1>1 DEF InstallerInv, ShapeInv
<1> QED
  BY <1>8, <1>9, <1>10, <1>11, <1>13, <1>14, <1>15 DEF InstallerInv, Kept

LEMMA BeginSteps ==
  ASSUME InstallerInv, BeginInstall \/ BeginUninstall \/ BeginStart \/ BeginStop
  PROVE  Kept
<1>1. CASE BeginInstall
  <2>1. PICK m \in BOOLEAN : Command("install", m, Install(m))
    BY <1>1 DEF BeginInstall
  <2> DEFINE q == Install(m)
  <2>2. /\ Shaped("install", m, q) /\ q # <<>> /\ q[1].op = "ensurePaths"
        /\ Has(q, "writeResolver", "daemon") /\ Has(q, "plist", "daemon")
        /\ Has(q, "stage", "daemon") /\ Has(q, "bootstrap", "daemon")
        /\ m => Has(q, "stage", "menubar")
    BY InstallPlan
  <2> HIDE DEF q
  <2>3. Command("install", m, q)
    BY <2>1 DEF q
  <2> QED
    BY <2>2, <2>3, CommandStep
<1>2. CASE BeginUninstall
  <2>1. PICK m \in BOOLEAN, scope \in Scopes : Command("uninstall", m, Uninstall(m, scope))
    BY <1>2 DEF BeginUninstall
  <2> DEFINE q == Uninstall(m, scope)
  <2>2. /\ Shaped("uninstall", m, q) /\ q # <<>> /\ q[1] = Step("bootout", "daemon")
        /\ Has(q, "bootout", "daemon") /\ Has(q, "removePlist", "daemon")
        /\ Has(q, "restore", "daemon") /\ Has(q, "dropBackup", "daemon")
        /\ Has(q, "bootout", "menubar") /\ Has(q, "removePlist", "menubar")
        /\ Has(q, "unstage", "menubar")
    BY UninstallPlan
  <2> HIDE DEF q
  <2>3. Command("uninstall", m, q) /\ q[1].op = "bootout"
    BY <2>1, <2>2 DEF q, Step
  <2> QED
    BY <2>2, <2>3, CommandStep
<1>3. CASE BeginStart
  <2> DEFINE q == StartService("daemon")
  <2>1. Shaped("start", FALSE, q) /\ q # <<>> /\ q[1].op = "preflight" /\ Command("start", FALSE, q)
    BY <1>3, ServicePlans DEF BeginStart
  <2> HIDE DEF q
  <2> QED
    BY <2>1, CommandStep
<1>4. CASE BeginStop
  <2> DEFINE q == StopService("daemon")
  <2>1. Shaped("stop", FALSE, q) /\ q # <<>> /\ q[1].op = "bootout" /\ Command("stop", FALSE, q)
    BY <1>4, ServicePlans DEF BeginStop
  <2> HIDE DEF q
  <2> QED
    BY <2>1, CommandStep
<1> QED
  BY <1>1, <1>2, <1>3, <1>4

\* The user edits the resolver file between two commands.
LEMMA UserEditStep ==
  ASSUME InstallerInv, UserEdit
  PROVE  Kept
<1>1. /\ todo[CLI] = <<>> /\ edits' = edits + 1 /\ edits < MaxEdits
      /\ resolver' \in UserFiles \cup {Absent}
      /\ UNCHANGED <<backup, held, displaced, services, todo, job, commands, toggles, faults, torn>>
  BY DEF UserEdit
<1>2. MaxEdits \in Nat /\ edits \in 0..MaxEdits
  BY DEF InstallerInv, TypeOK
<1>3. edits' \in 0..MaxEdits /\ edits' # 0
  BY <1>1, <1>2
<1>4. resolver' \in Contents /\ resolver' # Managed
  BY <1>1 DEF Contents
<1>5. UNCHANGED <<plist, program, loaded, stuck>> /\ job.result # "running"
  BY <1>1 DEF services, InstallerInv, ShapeInv
<1>6. TypeOK'
  BY <1>1, <1>3, <1>4, <1>5 DEF InstallerInv, TypeOK
<1>7. ShapeInv' /\ HeadInv' /\ InstallInv'
  BY <1>1, <1>5 DEF InstallerInv, ShapeInv, HeadInv, InstallInv
<1>8. FileInv'
  BY <1>3 DEF FileInv, Quiet
<1>9. ServiceInv'
  BY <1>1, ServicesKept DEF InstallerInv
<1>10. UninstallInv'
  BY <1>1, <1>4, <1>5 DEF InstallerInv, UninstallInv, Removed, MenubarRemoved, Whole, Left
<1> QED
  BY <1>5, <1>6, <1>7, <1>8, <1>9, <1>10 DEF InstallerInv, Kept

LEMMA InitInv == Init => InstallerInv
<1> SUFFICES ASSUME Init PROVE InstallerInv
  OBVIOUS
<1>1. CLI \in Actors /\ Toggles \subseteq Actors
  BY DEF Actors
<1>2. <<>> \in Plans
  BY EmptySeq DEF Plans
<1>3. todo \in [Actors -> Plans] /\ \A a \in Actors : todo[a] = <<>>
  BY <1>2 DEF Init
<1>4. job \in JobType /\ job.cmd = "none" /\ job.result = "ok"
  BY DEF Init, JobType
<1>5. TypeOK
  BY <1>3, <1>4 DEF Init, TypeOK, JobType, Contents
<1>6. ShapeInv
  <2>1. Shaped(job.cmd, job.menubar, <<>>) /\ Shaped("toggle", FALSE, <<>>)
    BY EmptyPlan
  <2>2. todo[CLI] = <<>> /\ \A t \in Toggles : todo[t] = <<>>
    BY <1>1, <1>3
  <2> QED
    BY <1>4, <2>1, <2>2 DEF ShapeInv
<1>7. FileInv /\ HeadInv /\ ServiceInv /\ InstallInv /\ UninstallInv
  BY <1>1, <1>3, <1>4 DEF Init, FileInv, HeadInv, ServiceInv, InstallInv, UninstallInv
<1> QED
  BY <1>5, <1>6, <1>7 DEF InstallerInv

LEMMA NextInv ==
  ASSUME InstallerInv, [Next]_vars
  PROVE  Kept
<1>1. CASE UNCHANGED vars
  <2>1. UNCHANGED <<resolver, backup, held, displaced, plist, program, loaded, stuck, todo, job,
                    commands, toggles, faults, torn, edits>>
    BY <1>1 DEF vars, files, services, bounds
  <2>2. TypeOK' /\ ShapeInv' /\ FileInv'
    BY <2>1 DEF InstallerInv, TypeOK, ShapeInv, FileInv, Quiet
  <2>3. HeadInv' /\ ServiceInv'
    BY <2>1 DEF InstallerInv, HeadInv, ServiceInv, Ready, Quiet, Counted
  <2>4. InstallInv' /\ ((job.cmd = "install" /\ job.result = "running") => Installed')
    BY <2>1 DEF InstallerInv, InstallInv, Installed, Left
  <2>5. UninstallInv'
    BY <2>1 DEF InstallerInv, UninstallInv, Removed, MenubarRemoved, Whole, Left
  <2> QED
    BY <2>1, <2>2, <2>3, <2>4, <2>5 DEF InstallerInv, Kept
<1>2. ASSUME NEW a \in Actors, ServiceStep(a) \/ StepFails(a) \/ Interrupted(a) \/ WriteTorn(a)
      PROVE  Kept
  <2>1. CASE a = CLI
    BY <1>2, <2>1, PlainSteps, StageStep, StageFailsStep, PlistStep, BootoutStep, BootoutMissingStep,
       BootoutRefusedStep, BootstrapStep, StepFailsStep, InterruptedStep, WriteTornStep DEF ServiceStep
  <2>2. CASE a \in Toggles
    BY <1>2, <2>2, ToggleSteps, ToggleKept
  <2> QED
    BY <2>1, <2>2 DEF Actors
<1>3. CASE FileStep
  BY <1>3, FileSteps
<1>4. CASE \E t \in Toggles : BeginToggle(t)
  BY <1>4, BeginToggleStep
<1>5. CASE BeginInstall \/ BeginUninstall \/ BeginStart \/ BeginStop
  BY <1>5, BeginSteps
<1>6. CASE UserEdit
  BY <1>6, UserEditStep
<1>7. CASE Done
  BY <1>1, <1>7 DEF Done
<1> QED
  BY <1>1, <1>2, <1>3, <1>4, <1>5, <1>6, <1>7 DEF Next

(***************************************************************************)
(* A clean history                                                         *)
(***************************************************************************)
\* No step has failed, no command was interrupted and no write torn: then no bootout
\* of a service that only the CLI has touched left it loaded.
CleanInv ==
  (faults = 0 /\ torn = 0) =>
    \A s \in Services : plist[s] # Torn /\ (Counted(s) => ~stuck[s])

LEMMA CleanKept ==
  ASSUME InstallerInv, CleanInv, [Next]_vars
  PROVE  CleanInv'
<1> SUFFICES ASSUME faults' = 0, torn' = 0, NEW s \in Services
             PROVE  plist'[s] # Torn /\ (Counted(s)' => ~stuck'[s])
  BY DEF CleanInv
<1>1. /\ plist \in [Services -> {Absent, Managed, Torn}] /\ stuck \in [Services -> BOOLEAN]
      /\ loaded \in [Services -> BOOLEAN]
      /\ faults \in Nat /\ torn \in Nat /\ toggles \in Nat
  BY DEF InstallerInv, TypeOK
<1>2. ASSUME faults = 0, torn = 0, toggles' = 0 => toggles = 0, UNCHANGED <<plist, stuck>>
      PROVE  plist'[s] # Torn /\ (Counted(s)' => ~stuck'[s])
  BY <1>2 DEF CleanInv, Counted
<1>3. CASE UNCHANGED vars
  BY <1>2, <1>3 DEF vars, services, bounds
<1>4. ASSUME NEW a \in Actors, ServiceStep(a) \/ StepFails(a) \/ Interrupted(a) \/ WriteTorn(a)
      PROVE  plist'[s] # Torn /\ (Counted(s)' => ~stuck'[s])
  <2>1. ~Fault
    BY <1>1 DEF Fault
  <2>2. torn' # torn + 1
    BY <1>1
  <2>3. CASE Minor(a) \/ Stage(a) \/ Preflight(a) \/ Bootstrap(a) \/ Kickstart(a)
    <3>1. UNCHANGED <<plist, stuck, bounds>>
      BY <2>3 DEF Minor, Stage, Preflight, Bootstrap, Kickstart, services
    <3> QED
      BY <1>2, <3>1 DEF bounds
  <2>4. CASE WritePlist(a)
    <3>1. /\ stuck' = stuck /\ UNCHANGED bounds
          /\ \E v \in {Managed, Absent} : plist' = [plist EXCEPT ![Svc(a)] = v]
      BY <2>4 DEF WritePlist
    <3>2. faults = 0 /\ torn = 0 /\ toggles' = toggles
      BY <3>1 DEF bounds
    <3>3. plist'[s] \in {plist[s], Managed, Absent}
      BY <1>1, <3>1
    <3> QED
      BY <3>1, <3>2, <3>3 DEF CleanInv, Counted
  <2>5. CASE Bootout(a)
    <3>1. plist' = plist /\ stuck' = [stuck EXCEPT ![Svc(a)] = FALSE] /\ UNCHANGED bounds
      BY <2>5 DEF Bootout
    <3>2. faults = 0 /\ torn = 0 /\ toggles' = toggles
      BY <3>1 DEF bounds
    <3>3. stuck'[s] => stuck[s]
      BY <1>1, <3>1
    <3> QED
      BY <3>1, <3>2, <3>3 DEF CleanInv, Counted
  <2>6. CASE BootoutMissing(a)
    <3>1. /\ plist' = plist /\ stuck' = [stuck EXCEPT ![Svc(a)] = loaded[Svc(a)]]
          /\ UNCHANGED bounds /\ (loaded[Svc(a)] => plist[Svc(a)] = Absent)
      BY <2>6 DEF BootoutMissing
    <3>2. faults = 0 /\ torn = 0 /\ toggles' = toggles
      BY <3>1 DEF bounds
    <3>3. (s # Svc(a) /\ stuck'[s]) => stuck[s]
      BY <1>1, <3>1
    <3>4. (s = Svc(a) /\ stuck'[s] /\ Counted(s)) => stuck[s]
      BY <1>1, <3>1 DEF InstallerInv, ServiceInv
    <3> QED
      BY <3>1, <3>2, <3>3, <3>4 DEF CleanInv, Counted
  <2>7. CASE BootoutRefused(a)
    <3>1. /\ plist' = plist /\ loaded[Svc(a)] /\ plist[Svc(a)] # Managed /\ UNCHANGED bounds
          /\ stuck' = [stuck EXCEPT ![Svc(a)] = TRUE] \/ stuck' = stuck
      BY <2>1, <2>7 DEF BootoutRefused
    <3>2. faults = 0 /\ torn = 0 /\ toggles' = toggles
      BY <3>1 DEF bounds
    <3>3. (s # Svc(a) /\ stuck'[s]) => stuck[s]
      BY <1>1, <3>1
    <3>4. (s = Svc(a) /\ Counted(s)) => stuck[s]
      BY <1>1, <3>1, <3>2 DEF InstallerInv, ServiceInv, CleanInv
    <3> QED
      BY <3>1, <3>2, <3>3, <3>4 DEF CleanInv, Counted
  <2>8. ~StageFails(a) /\ ~StepFails(a) /\ ~Interrupted(a) /\ ~WriteTorn(a)
    BY <2>1, <2>2 DEF StageFails, StepFails, Interrupted, WriteTorn
  <2> QED
    BY <1>4, <2>3, <2>4, <2>5, <2>6, <2>7, <2>8 DEF ServiceStep
<1>5. CASE FileStep \/ UserEdit \/ Done
  <2>1. UNCHANGED <<plist, stuck, faults, torn, toggles>>
    BY <1>5 DEF FileStep, ReadResolver, WriteResolverBackup, WriteManaged, Restore, DropBackup,
       UserEdit, Done, vars, services, bounds
  <2> QED
    BY <1>2, <2>1
<1>6. CASE \E t \in Toggles : BeginToggle(t)
  <2>1. UNCHANGED <<plist, stuck, faults, torn>> /\ toggles' = toggles + 1
    BY <1>6 DEF BeginToggle, services
  <2>2. toggles' # 0
    BY <1>1, <2>1
  <2> QED
    BY <1>2, <2>1, <2>2
<1>7. CASE BeginInstall \/ BeginUninstall \/ BeginStart \/ BeginStop
  <2>1. UNCHANGED <<plist, stuck, faults, torn, toggles>>
    BY <1>7 DEF BeginInstall, BeginUninstall, BeginStart, BeginStop, Command, services
  <2> QED
    BY <1>2, <2>1
<1> QED
  BY <1>3, <1>4, <1>5, <1>6, <1>7 DEF Next

LEMMA CleanHolds == Spec => [](InstallerInv /\ CleanInv)
<1>1. Init => InstallerInv /\ CleanInv
  <2>1. Init => CleanInv
    BY DEF Init, CleanInv, Counted
  <2> QED
    BY <2>1, InitInv
<1>2. (InstallerInv /\ CleanInv) /\ [Next]_vars => (InstallerInv /\ CleanInv)'
  BY NextInv, CleanKept DEF Kept
<1> QED
  BY <1>1, <1>2, PTL DEF Spec

(***************************************************************************)
(* Theorems                                                                *)
(***************************************************************************)

\* The inductive invariant holds throughout: whatever commands are run, however
\* they fail, are killed or repeated, and whatever startup requests do beside them.
THEOREM Invariance == Spec => []InstallerInv
<1>1. InstallerInv /\ [Next]_vars => InstallerInv'
  BY NextInv DEF Kept
<1> QED
  BY InitInv, <1>1, PTL DEF Spec

\* Plans stay sequences of known steps, the files known contents and the counters
\* within their bounds.
THEOREM TypeCorrect == Spec => []TypeOK
<1>1. InstallerInv => TypeOK
  BY DEF InstallerInv
<1> QED
  BY <1>1, Invariance, PTL

\* WriteResolver and RemoveResolver: while devproxy's resolver file is in place the
\* file it displaced is in the backup, which never is devproxy's own file.
THEOREM BackupKept == Spec => []ManagedHasBackup
<1>1. InstallerInv => ManagedHasBackup
  BY DEF InstallerInv, TypeOK, FileInv, Quiet, ManagedHasBackup
<1> QED
  BY <1>1, Invariance, PTL

\* StopService before UninstallService: no service is left loaded without the
\* property list a later bootout needs, unless launchctl refused to unload it.
THEOREM LoadedInstalled == Spec => []LoadedIsInstalled
<1>1. InstallerInv => LoadedIsInstalled
  BY DEF InstallerInv, ServiceInv, Counted, LoadedIsInstalled
<1> QED
  BY <1>1, Invariance, PTL

\* Uninstall: its success means that the daemon's list, the managed resolver and
\* the backup are gone and that the daemon is stopped unless a bootout that left it
\* loaded was taken for done; then the startup requests are over and the menu bar
\* is removed, if that was asked for or nothing ever failed.  With no failed step
\* and no torn write the two services are stopped without exception.
THEOREM UninstalledStays == Spec => []UninstallFinal
<1>1. InstallerInv /\ CleanInv => UninstallFinal
  <2> SUFFICES ASSUME InstallerInv, CleanInv, job.cmd = "uninstall", job.result = "ok"
               PROVE  UninstallFinal
    BY DEF UninstallFinal
  <2>1. todo[CLI] = <<>>
    BY DEF InstallerInv, ShapeInv
  <2>2. \A op, s : ~Has(todo[CLI], op, s)
    <3>1. Len(<<>>) = 0 /\ 1..0 = {}
      OBVIOUS
    <3> QED
      BY <2>1, <3>1 DEF Has
  <2>3. /\ resolver # Managed /\ backup = Absent /\ plist["daemon"] = Absent
        /\ loaded["daemon"] => stuck["daemon"]
        /\ (Whole /\ ~loaded["daemon"]) =>
             /\ plist["menubar"] = Absent /\ ~program["menubar"]
             /\ loaded["menubar"] => stuck["menubar"]
    BY <2>2 DEF InstallerInv, UninstallInv, Removed, MenubarRemoved, Left
  <2>4. ~loaded["daemon"] => \A t \in Toggles : todo[t] = <<>>
    BY DEF InstallerInv, ShapeInv
  <2>5. (faults = 0 /\ torn = 0) => ~stuck["daemon"] /\ (toggles = 0 => ~stuck["menubar"])
    BY ServiceNames DEF CleanInv, Counted
  <2> QED
    BY <2>3, <2>4, <2>5 DEF UninstallFinal, Whole
<1> QED
  BY <1>1, CleanHolds, PTL

\* Install: when it reports success the resolver is managed and the daemon is
\* installed and running, whatever startup requests and earlier failures did.
THEOREM InstalledInPlace == Spec => InstallInPlace
<1> DEFINE Complete == (job.cmd = "install" /\ job.result = "running" /\ job'.result = "ok") =>
             /\ resolver' = Managed
             /\ plist'["daemon"] = Managed /\ program'["daemon"] /\ loaded'["daemon"]
             /\ job.menubar => program'["menubar"]
<1>1. InstallerInv /\ [Next]_vars => [Complete]_vars
  <2> SUFFICES ASSUME InstallerInv, [Next]_vars, job.cmd = "install", job.result = "running",
                      job'.result = "ok"
               PROVE  /\ resolver' = Managed
                      /\ plist'["daemon"] = Managed /\ program'["daemon"] /\ loaded'["daemon"]
                      /\ job.menubar => program'["menubar"]
    OBVIOUS
  <2>1. InstallerInv' /\ Installed' /\ job'.menubar = job.menubar
    BY NextInv DEF Kept
  <2>2. todo'[CLI] = <<>>
    BY <2>1 DEF InstallerInv, ShapeInv
  <2>3. \A op, s : ~Has(todo'[CLI], op, s)
    <3>1. Len(<<>>) = 0 /\ 1..0 = {}
      OBVIOUS
    <3> QED
      BY <2>2, <3>1 DEF Has
  <2> QED
    BY <2>1, <2>3 DEF Installed, Left
<1> QED
  BY <1>1, Invariance, PTL DEF Spec, InstallInPlace
===============================================================================
