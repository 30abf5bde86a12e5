-------------------------- MODULE UsbLifecycleProofs --------------------------
(* Proofs about UsbLifecycle for every size of packet and ring.                 *)
(*                                                                              *)
(* What makes the invariants inductive is what is left of a handler: a job that *)
(* a callback starts while its endpoint is being torn down is harmless because  *)
(* the step that switches the endpoint off is still to come.                    *)
EXTENDS UsbLifecycle, TLAPS

USE DEF Eps

--------------------------------------------------------------------------------
(* The invariant.                                                               *)

Later(s, i, t)  == \E j \in DOMAIN s : i < j /\ s[j] = t
Before(s, i, t) == \E j \in DOMAIN s : j < i /\ s[j] = t

\* A handler tears down before it sets up.
Ordered(s) ==
    \A i, j \in DOMAIN s : i < j =>
        /\ s[i][1] = "alloc" => s[j][1] \notin {"abort", "halt", "off", "conf0", "conf1"}
        /\ s[i][1] = "conf1" => s[j][1] # "conf0"

\* An endpoint that is enabled when its job is aborted is about to be switched off or halted,
AbortInv(s) ==
    \A i \in DOMAIN s :
        s[i][1] = "abort" => \/ ep[s[i][2]] # "on"
                             \/ Later(s, i, <<"off", s[i][2]>>)
                             \/ i + 1 \in DOMAIN s /\ s[i + 1] = <<"halt", s[i][2]>>
                             \/ Before(s, i, <<"halt", s[i][2]>>)

\* its job is aborted again after a halt,
HaltedInv(s) ==
    \A i \in DOMAIN s : s[i][1] = "halt" => Later(s, i, <<"abort", s[i][2]>>)

\* all are off when the configuration is dropped,
Conf0Inv(s) ==
    \A i \in DOMAIN s :
        s[i][1] = "conf0" => \A e \in Eps : ep[e] = "off" \/ Before(s, i, <<"off", e>>)

\* and one is enabled only in a configuration.
AllocInv(s) ==
    \A i \in DOMAIN s :
        s[i][1] = "alloc" => \/ Before(s, i, <<"conf1", "all">>)
                             \/ conf = 1 /\ \A j \in DOMAIN s : s[j][1] # "conf0"

Plan(s) == Ordered(s) /\ AbortInv(s) /\ HaltedInv(s) /\ Conf0Inv(s) /\ AllocInv(s)

ConfInv == conf = 0 => \A e \in Eps : ep[e] = "off"

\* This step is the next.
Coming(t) == todo # << >> /\ todo[1] = t

\* A transfer that is complete still has its job, and the endpoint is closed meanwhile.
PendInv ==
    \A e \in Eps :
        tc[e] /\ ep[e] = "on" => \/ nack[e] /\ job[e]
                                 \/ Later(todo, 0, <<"off", e>>)
                                 \/ Coming(<<"halt", e>>)
                                 \/ e = "IN" /\ "IN" \in cut

\* A halted endpoint has no job, and is closed before the halt can be cleared.
HaltInv ==
    \A e \in Eps :
        ep[e] = "halted" => \/ Later(todo, 0, <<"abort", e>>)
                            \/ ~job[e] /\ nack[e]
                            \/ ~job[e] /\ e = "IN" /\ "IN" \in cut

\* A packet of IN is complete, and another was offered since: the endpoint is about to be
\* switched off, or to be halted with the new job.
AgainInv ==
    ep["IN"] # "off" /\ tc["IN"] /\ data["IN"] = 0 =>
        \/ "IN" \in cut
        \/ Later(todo, 0, <<"off", "IN">>)
        \/ /\ job["IN"]
           /\ \/ Coming(<<"halt", "IN">>)
              \/ ep["IN"] = "halted" /\ Later(todo, 0, <<"abort", "IN">>)

EpInv == ConfInv /\ PendInv /\ HaltInv /\ AgainInv

IInv ==
    /\ TypeOK /\ SleepLockBalanced
    /\ Plan(todo) /\ EpInv
    /\ OpenHasJob /\ StaleEventsSleep

--------------------------------------------------------------------------------
(* Sequences of steps.                                                          *)

\* A step names an endpoint or the whole interface.
LEMMA StepKinds ==
    ASSUME NEW s \in Steps
    PROVE  /\ s = <<s[1], s[2]>>
           /\ \/ s[1] \in {"abort", "halt", "off", "alloc"} /\ s[2] \in Eps
              \/ s[1] \in {"enable", "disable", "conf0", "conf1", "ctrl"} /\ s[2] = "all"
  BY DEF Steps

\* The positions of a tail are those of the sequence but the first.
LEMMA TailFacts ==
    ASSUME NEW s \in Seq(Steps), s # << >>
    PROVE  /\ Head(s) = s[1] /\ s[1] \in Steps /\ 1 \in DOMAIN s
           /\ Tail(s) \in Seq(Steps)
           /\ \A i \in DOMAIN Tail(s) : i \in Nat /\ i >= 1 /\ i + 1 \in DOMAIN s /\ Tail(s)[i] = s[i + 1]
           /\ \A j \in DOMAIN s : /\ j \in Nat /\ j >= 1 /\ s[j] \in Steps
                                  /\ j # 1 => j - 1 \in DOMAIN Tail(s) /\ Tail(s)[j - 1] = s[j]
  <1> HIDE DEF Steps
  <1> QED  OBVIOUS

\* A concatenation is the sequence that has its elements.
LEMMA CatIs ==
    ASSUME NEW s \in Seq(Steps), NEW t \in Seq(Steps), NEW v \in Seq(Steps),
           Len(v) = Len(s) + Len(t),
           \A i \in 1 .. Len(s) : v[i] = s[i],
           \A i \in 1 .. Len(t) : v[i + Len(s)] = t[i]
    PROVE  s \o t = v
  <1> HIDE DEF Steps
  <1> QED  OBVIOUS

\* What comes later in a sequence, seen from its tail.
LEMMA LaterInTail ==
    ASSUME NEW s \in Seq(Steps), s # << >>, NEW t,
           NEW i \in Nat
    PROVE  /\ Later(Tail(s), i, t) <=> Later(s, i + 1, t)
           /\ i >= 1 => (Before(s, i + 1, t) => s[1] = t \/ Before(Tail(s), i, t))
           /\ Later(s, 0, t) => s[1] = t \/ Later(Tail(s), 0, t)
  <1> HIDE DEF Steps
  <1>1. Later(Tail(s), i, t) => Later(s, i + 1, t)
    BY TailFacts DEF Later
  <1>2. Later(s, i + 1, t) => Later(Tail(s), i, t)
    BY TailFacts DEF Later
  <1>3. ASSUME i >= 1, Before(s, i + 1, t), s[1] # t PROVE Before(Tail(s), i, t)
    BY <1>3, TailFacts DEF Before
  <1>4. ASSUME Later(s, 0, t), s[1] # t PROVE Later(Tail(s), 0, t)
    <2>1. PICK j \in DOMAIN s : 0 < j /\ s[j] = t
      BY <1>4 DEF Later
    <2>2. j \in Nat /\ j # 1 /\ j - 1 \in DOMAIN Tail(s) /\ Tail(s)[j - 1] = t
      BY <1>4, <2>1, TailFacts
    <2> QED  BY <2>1, <2>2 DEF Later
  <1> QED  BY <1>1, <1>2, <1>3, <1>4
--------------------------------------------------------------------------------
(* Plans of the handlers.                                                       *)

\* The handlers are made of these.
TearDown  == <<<<"abort", "OUT">>, <<"off", "OUT">>, <<"abort", "IN">>,
               <<"off", "IN">>, <<"disable", "all">>, <<"conf0", "all">>>>
Configure == <<<<"conf1", "all">>, <<"alloc", "OUT">>, <<"alloc", "IN">>,
               <<"enable", "all">>>>
OneStep(kind) == <<<<kind, "all">>>>

\* udc_reset in a configuration.
LEMMA ResetSteps ==
    conf = 1 => Reset = TearDown
  <1> SUFFICES ASSUME conf = 1 PROVE Reset = TearDown
    OBVIOUS
  <1> DEFINE s == IfaceDisable
             t == OneStep("conf0")
             v == TearDown
  <1>1. s \in Seq(Steps) /\ t \in Seq(Steps) /\ v \in Seq(Steps)
    BY DEF Steps, IfaceDisable, TearDown, OneStep
  <1>2. /\ Len(v) = Len(s) + Len(t)
        /\ \A i \in 1 .. Len(s) : v[i] = s[i]
        /\ \A i \in 1 .. Len(t) : v[i + Len(s)] = t[i]
    BY DEF IfaceDisable, TearDown, OneStep
  <1> HIDE DEF s, t, v
  <1>3. s \o t = v
    BY <1>1, <1>2, CatIs
  <1> QED  BY <1>3 DEF Reset, OneStep, s, t, v

\* A configuration is set up.
LEMMA EnableSteps ==
    OneStep("conf1") \o IfaceEnable = Configure
  <1> DEFINE s == OneStep("conf1")
             t == IfaceEnable
             v == Configure
  <1>1. s \in Seq(Steps) /\ t \in Seq(Steps) /\ v \in Seq(Steps)
    BY DEF Steps, IfaceEnable, OneStep, Configure
  <1>2. /\ Len(v) = Len(s) + Len(t)
        /\ \A i \in 1 .. Len(s) : v[i] = s[i]
        /\ \A i \in 1 .. Len(t) : v[i + Len(s)] = t[i]
    BY DEF IfaceEnable, OneStep, Configure
  <1> HIDE DEF s, t, v
  <1>3. s \o t = v
    BY <1>1, <1>2, CatIs
  <1> QED  BY <1>3 DEF s, t, v

\* udc_req_std_dev_set_configuration where none was,
LEMMA ConfigureSteps ==
    OneStep("conf0") \o Configure = <<<<"conf0", "all">>, <<"conf1", "all">>, <<"alloc", "OUT">>,
                                           <<"alloc", "IN">>, <<"enable", "all">>>>
  <1> DEFINE s == OneStep("conf0")
             t == Configure
             v == <<<<"conf0", "all">>, <<"conf1", "all">>, <<"alloc", "OUT">>,
                    <<"alloc", "IN">>, <<"enable", "all">>>>
  <1>1. s \in Seq(Steps) /\ t \in Seq(Steps) /\ v \in Seq(Steps)
    BY DEF Steps, OneStep, Configure
  <1>2. /\ Len(v) = Len(s) + Len(t)
        /\ \A i \in 1 .. Len(s) : v[i] = s[i]
        /\ \A i \in 1 .. Len(t) : v[i + Len(s)] = t[i]
    BY DEF OneStep, Configure
  <1> HIDE DEF s, t, v
  <1>3. s \o t = v
    BY <1>1, <1>2, CatIs
  <1> QED  BY <1>3 DEF s, t, v

\* and where one was.
LEMMA ReconfigureSteps ==
    TearDown \o Configure =
        <<<<"abort", "OUT">>, <<"off", "OUT">>, <<"abort", "IN">>, <<"off", "IN">>,
            <<"disable", "all">>, <<"conf0", "all">>, <<"conf1", "all">>,
            <<"alloc", "OUT">>, <<"alloc", "IN">>, <<"enable", "all">>>>
  <1> DEFINE s == TearDown
             t == Configure
             v == <<<<"abort", "OUT">>, <<"off", "OUT">>, <<"abort", "IN">>,
                    <<"off", "IN">>, <<"disable", "all">>, <<"conf0", "all">>,
                    <<"conf1", "all">>, <<"alloc", "OUT">>, <<"alloc", "IN">>,
                    <<"enable", "all">>>>
  <1>1. s \in Seq(Steps) /\ t \in Seq(Steps) /\ v \in Seq(Steps)
    BY DEF Steps, TearDown, Configure
  <1>2. /\ Len(v) = Len(s) + Len(t)
        /\ \A i \in 1 .. Len(s) : v[i] = s[i]
        /\ \A i \in 1 .. Len(t) : v[i + Len(s)] = t[i]
    BY DEF TearDown, Configure
  <1> HIDE DEF s, t, v
  <1>3. s \o t = v
    BY <1>1, <1>2, CatIs
  <1> QED  BY <1>3 DEF s, t, v

\* udc_req_std_iface_set_setting.
LEMMA SettingSteps ==
    IfaceDisable \o IfaceEnable =
        <<<<"abort", "OUT">>, <<"off", "OUT">>, <<"abort", "IN">>, <<"off", "IN">>,
            <<"disable", "all">>, <<"alloc", "OUT">>, <<"alloc", "IN">>,
            <<"enable", "all">>>>
  <1> DEFINE s == IfaceDisable
             t == IfaceEnable
             v == <<<<"abort", "OUT">>, <<"off", "OUT">>, <<"abort", "IN">>,
                    <<"off", "IN">>, <<"disable", "all">>, <<"alloc", "OUT">>,
                    <<"alloc", "IN">>, <<"enable", "all">>>>
  <1>1. s \in Seq(Steps) /\ t \in Seq(Steps) /\ v \in Seq(Steps)
    BY DEF Steps, IfaceDisable, IfaceEnable
  <1>2. /\ Len(v) = Len(s) + Len(t)
        /\ \A i \in 1 .. Len(s) : v[i] = s[i]
        /\ \A i \in 1 .. Len(t) : v[i + Len(s)] = t[i]
    BY DEF IfaceDisable, IfaceEnable
  <1> HIDE DEF s, t, v
  <1>3. s \o t = v
    BY <1>1, <1>2, CatIs
  <1> QED  BY <1>3 DEF s, t, v

\* A bus reset without a configuration,
LEMMA IdleResetSteps ==
    <<<<"abort", "OUT">>, <<"abort", "IN">>>> \o OneStep("conf0") =
        <<<<"abort", "OUT">>, <<"abort", "IN">>, <<"conf0", "all">>>>
  <1> DEFINE s == <<<<"abort", "OUT">>, <<"abort", "IN">>>>
             t == OneStep("conf0")
             v == <<<<"abort", "OUT">>, <<"abort", "IN">>, <<"conf0", "all">>>>
  <1>1. s \in Seq(Steps) /\ t \in Seq(Steps) /\ v \in Seq(Steps)
    BY DEF Steps, OneStep
  <1>2. /\ Len(v) = Len(s) + Len(t)
        /\ \A i \in 1 .. Len(s) : v[i] = s[i]
        /\ \A i \in 1 .. Len(t) : v[i + Len(s)] = t[i]
    BY DEF OneStep
  <1> HIDE DEF s, t, v
  <1>3. s \o t = v
    BY <1>1, <1>2, CatIs
  <1> QED  BY <1>3 DEF s, t, v

\* to its end,
LEMMA IdleBusResetSteps ==
    <<<<"abort", "OUT">>, <<"abort", "IN">>, <<"conf0", "all">>>> \o OneStep("ctrl") =
        <<<<"abort", "OUT">>, <<"abort", "IN">>, <<"conf0", "all">>,
            <<"ctrl", "all">>>>
  <1> DEFINE s == <<<<"abort", "OUT">>, <<"abort", "IN">>, <<"conf0", "all">>>>
             t == OneStep("ctrl")
             v == <<<<"abort", "OUT">>, <<"abort", "IN">>, <<"conf0", "all">>,
                    <<"ctrl", "all">>>>
  <1>1. s \in Seq(Steps) /\ t \in Seq(Steps) /\ v \in Seq(Steps)
    BY DEF Steps, OneStep
  <1>2. /\ Len(v) = Len(s) + Len(t)
        /\ \A i \in 1 .. Len(s) : v[i] = s[i]
        /\ \A i \in 1 .. Len(t) : v[i + Len(s)] = t[i]
    BY DEF OneStep
  <1> HIDE DEF s, t, v
  <1>3. s \o t = v
    BY <1>1, <1>2, CatIs
  <1> QED  BY <1>3 DEF s, t, v

\* and in one,
LEMMA TearResetSteps ==
    <<<<"abort", "OUT">>, <<"abort", "IN">>>> \o TearDown =
        <<<<"abort", "OUT">>, <<"abort", "IN">>, <<"abort", "OUT">>,
            <<"off", "OUT">>, <<"abort", "IN">>, <<"off", "IN">>, <<"disable", "all">>,
            <<"conf0", "all">>>>
  <1> DEFINE s == <<<<"abort", "OUT">>, <<"abort", "IN">>>>
             t == TearDown
             v == <<<<"abort", "OUT">>, <<"abort", "IN">>, <<"abort", "OUT">>,
                    <<"off", "OUT">>, <<"abort", "IN">>, <<"off", "IN">>,
                    <<"disable", "all">>, <<"conf0", "all">>>>
  <1>1. s \in Seq(Steps) /\ t \in Seq(Steps) /\ v \in Seq(Steps)
    BY DEF Steps, TearDown
  <1>2. /\ Len(v) = Len(s) + Len(t)
        /\ \A i \in 1 .. Len(s) : v[i] = s[i]
        /\ \A i \in 1 .. Len(t) : v[i + Len(s)] = t[i]
    BY DEF TearDown
  <1> HIDE DEF s, t, v
  <1>3. s \o t = v
    BY <1>1, <1>2, CatIs
  <1> QED  BY <1>3 DEF s, t, v

\* to its end.
LEMMA TearBusResetSteps ==
    <<<<"abort", "OUT">>, <<"abort", "IN">>, <<"abort", "OUT">>,
            <<"off", "OUT">>, <<"abort", "IN">>, <<"off", "IN">>, <<"disable", "all">>,
            <<"conf0", "all">>>> \o OneStep("ctrl") =
        <<<<"abort", "OUT">>, <<"abort", "IN">>, <<"abort", "OUT">>,
            <<"off", "OUT">>, <<"abort", "IN">>, <<"off", "IN">>, <<"disable", "all">>,
            <<"conf0", "all">>, <<"ctrl", "all">>>>
  <1> DEFINE s == <<<<"abort", "OUT">>, <<"abort", "IN">>, <<"abort", "OUT">>,
            <<"off", "OUT">>, <<"abort", "IN">>, <<"off", "IN">>, <<"disable", "all">>,
            <<"conf0", "all">>>>
             t == OneStep("ctrl")
             v == <<<<"abort", "OUT">>, <<"abort", "IN">>, <<"abort", "OUT">>,
                    <<"off", "OUT">>, <<"abort", "IN">>, <<"off", "IN">>,
                    <<"disable", "all">>, <<"conf0", "all">>, <<"ctrl", "all">>>>
  <1>1. s \in Seq(Steps) /\ t \in Seq(Steps) /\ v \in Seq(Steps)
    BY DEF Steps, OneStep
  <1>2. /\ Len(v) = Len(s) + Len(t)
        /\ \A i \in 1 .. Len(s) : v[i] = s[i]
        /\ \A i \in 1 .. Len(t) : v[i + Len(s)] = t[i]
    BY DEF OneStep
  <1> HIDE DEF s, t, v
  <1>3. s \o t = v
    BY <1>1, <1>2, CatIs
  <1> QED  BY <1>3 DEF s, t, v

\* Every handler has a plan: it ends what it begins, in order.
LEMMA Plans ==
    ASSUME TypeOK, ConfInv
    PROVE  /\ Reset \in Seq(Steps) /\ Plan(Reset)
           /\ Reset \o (OneStep("conf1") \o IfaceEnable) \in Seq(Steps)
           /\ Plan(Reset \o (OneStep("conf1") \o IfaceEnable))
           /\ <<<<"abort", "OUT">>, <<"abort", "IN">>>> \o Reset \o OneStep("ctrl") \in Seq(Steps)
           /\ Plan(<<<<"abort", "OUT">>, <<"abort", "IN">>>> \o Reset \o OneStep("ctrl"))
           /\ IfaceDisable \in Seq(Steps) /\ Plan(IfaceDisable)
           /\ IfaceDisable \o IfaceEnable \in Seq(Steps)
           /\ conf # 0 => Plan(IfaceDisable \o IfaceEnable)
  <1>1. conf \in {0, 1}
    BY DEF TypeOK
  <1>2. IfaceDisable \in Seq(Steps) /\ Plan(IfaceDisable)
    BY DEF IfaceDisable, Steps, Plan, Ordered, AbortInv, HaltedInv, Conf0Inv, AllocInv,
           Later, Before
  <1>3. /\ IfaceDisable \o IfaceEnable \in Seq(Steps)
        /\ conf # 0 => Plan(IfaceDisable \o IfaceEnable)
    <2> DEFINE v == <<<<"abort", "OUT">>, <<"off", "OUT">>, <<"abort", "IN">>,
                      <<"off", "IN">>, <<"disable", "all">>, <<"alloc", "OUT">>,
                      <<"alloc", "IN">>, <<"enable", "all">>>>
    <2>1. IfaceDisable \o IfaceEnable = v
      BY SettingSteps
    <2>2. v \in Seq(Steps) /\ (conf = 1 => Plan(v))
      BY DEF Plan, Ordered, AbortInv, HaltedInv, Conf0Inv, AllocInv, Later, Before, Steps
    <2> HIDE DEF v
    <2> QED  BY <1>1, <2>1, <2>2
  <1>4. CASE conf = 0
    <2>1. Reset = OneStep("conf0")
      BY <1>4 DEF Reset, OneStep
    <2>2. Reset \in Seq(Steps) /\ Plan(Reset)
      BY <1>4, <2>1 DEF OneStep, Steps, ConfInv, Plan, Ordered, AbortInv, HaltedInv, Conf0Inv, AllocInv, Later, Before
    <2>3. /\ Reset \o (OneStep("conf1") \o IfaceEnable) \in Seq(Steps)
          /\ Plan(Reset \o (OneStep("conf1") \o IfaceEnable))
      <3> DEFINE v == <<<<"conf0", "all">>, <<"conf1", "all">>, <<"alloc", "OUT">>,
                        <<"alloc", "IN">>, <<"enable", "all">>>>
      <3>1. Reset \o (OneStep("conf1") \o IfaceEnable) = v
        BY <2>1, EnableSteps, ConfigureSteps
      <3>2. v \in Seq(Steps) /\ Plan(v)
        BY <1>4 DEF Plan, Ordered, AbortInv, HaltedInv, Conf0Inv, AllocInv, Later, Before, Steps, ConfInv
      <3> HIDE DEF v
      <3> QED  BY <3>1, <3>2
    <2>4. /\ <<<<"abort", "OUT">>, <<"abort", "IN">>>> \o Reset \o OneStep("ctrl") \in Seq(Steps)
          /\ Plan(<<<<"abort", "OUT">>, <<"abort", "IN">>>> \o Reset \o OneStep("ctrl"))
      <3> DEFINE v == <<<<"abort", "OUT">>, <<"abort", "IN">>, <<"conf0", "all">>,
                        <<"ctrl", "all">>>>
      <3>1. <<<<"abort", "OUT">>, <<"abort", "IN">>>> \o Reset \o OneStep("ctrl") = v
        BY <2>1, IdleResetSteps, IdleBusResetSteps
      <3>2. v \in Seq(Steps) /\ Plan(v)
        BY <1>4 DEF Plan, Ordered, AbortInv, HaltedInv, Conf0Inv, AllocInv, Later, Before, Steps, ConfInv
      <3> HIDE DEF v
      <3> QED  BY <3>1, <3>2
    <2> QED  BY <1>2, <1>3, <2>2, <2>3, <2>4
  <1>5. CASE conf = 1
    <2>1. Reset = TearDown
      BY <1>5, ResetSteps
    <2>2. Reset \in Seq(Steps) /\ Plan(Reset)
      BY <2>1 DEF TearDown, Steps, Plan, Ordered, AbortInv, HaltedInv, Conf0Inv, AllocInv, Later, Before
    <2>3. /\ Reset \o (OneStep("conf1") \o IfaceEnable) \in Seq(Steps)
          /\ Plan(Reset \o (OneStep("conf1") \o IfaceEnable))
      <3> DEFINE v == <<<<"abort", "OUT">>, <<"off", "OUT">>, <<"abort", "IN">>,
                        <<"off", "IN">>, <<"disable", "all">>, <<"conf0", "all">>,
                        <<"conf1", "all">>, <<"alloc", "OUT">>, <<"alloc", "IN">>,
                        <<"enable", "all">>>>
      <3>1. Reset \o (OneStep("conf1") \o IfaceEnable) = v
        BY <2>1, EnableSteps, ReconfigureSteps
      <3>2. v \in Seq(Steps) /\ Plan(v)
        BY DEF Plan, Ordered, AbortInv, HaltedInv, Conf0Inv, AllocInv, Later, Before, Steps
      <3> HIDE DEF v
      <3> QED  BY <3>1, <3>2
    <2>4. /\ <<<<"abort", "OUT">>, <<"abort", "IN">>>> \o Reset \o OneStep("ctrl") \in Seq(Steps)
          /\ Plan(<<<<"abort", "OUT">>, <<"abort", "IN">>>> \o Reset \o OneStep("ctrl"))
      <3> DEFINE v == <<<<"abort", "OUT">>, <<"abort", "IN">>, <<"abort", "OUT">>,
                        <<"off", "OUT">>, <<"abort", "IN">>, <<"off", "IN">>,
                        <<"disable", "all">>, <<"conf0", "all">>, <<"ctrl", "all">>>>
      <3>1. <<<<"abort", "OUT">>, <<"abort", "IN">>>> \o Reset \o OneStep("ctrl") = v
        BY <2>1, TearResetSteps, TearBusResetSteps
      <3>2. v \in Seq(Steps) /\ Plan(v)
        BY DEF Plan, Ordered, AbortInv, HaltedInv, Conf0Inv, AllocInv, Later, Before, Steps
      <3> HIDE DEF v
      <3> QED  BY <3>1, <3>2
    <2> QED  BY <1>2, <1>3, <2>2, <2>3, <2>4
  <1> QED  BY <1>1, <1>4, <1>5
--------------------------------------------------------------------------------
(* Callbacks.                                                                   *)

\* What is left of a job.
LEMMA JobFacts ==
    ASSUME TypeOK, NEW e \in Eps, NEW again \in BOOLEAN, NEW busy \in BOOLEAN, NEW nak \in BOOLEAN,
           Job(e, again, busy, nak)
    PROVE  /\ job' \in [Eps -> BOOLEAN] /\ nack' \in [Eps -> BOOLEAN]
           /\ data' \in [Eps -> 0 .. Packet]
           /\ job'[e] = (again \/ busy) /\ nack'[e] = (nak /\ ~again)
           /\ \A f \in Eps : f # e => job'[f] = job[f] /\ nack'[f] = nack[f]
  BY PacketAssumption DEF Job, TypeOK

\* OUT is run again only after the last event.
LEMMA ProcessFacts ==
    ASSUME TypeOK, NEW n \in 0 .. Packet, NEW r \in 0 .. RingCap,
           NEW busy \in BOOLEAN, NEW nak \in BOOLEAN, Process(n, r, busy, nak)
    PROVE  /\ \E again \in BOOLEAN :
                 /\ Job("OUT", again, busy, nak)
                 /\ again => left' = 0 /\ ep["OUT"] = "on" /\ ~busy
           /\ left' \in 0 .. Packet /\ ring' \in 0 .. RingCap
           /\ dre' \in BOOLEAN /\ want' \in BOOLEAN /\ odd' = odd
  <1> DEFINE m == Sendable(n)
             k == IF m <= RingCap - r THEN m ELSE RingCap - r
             again == k = n /\ Starts("OUT", busy)
  <1>1. /\ left' = n - k /\ ring' = r + k
        /\ dre' = (dre \/ k > 0) /\ want' = (k < m \/ (want /\ k = 0))
        /\ Job("OUT", again, busy, nak) /\ odd' = odd
    BY DEF Process
  <1>0. m \in 0 .. n
    BY PacketAssumption DEF Sendable
  <1> HIDE DEF m
  <1>2. k \in 0 .. n /\ r + k \in 0 .. RingCap
    BY <1>0, RingCapAssumption
  <1>3. again \in BOOLEAN /\ (again => n - k = 0 /\ ep["OUT"] = "on" /\ ~busy)
    BY <1>2 DEF Starts
  <1>4. dre' \in BOOLEAN /\ want' \in BOOLEAN
    BY <1>1 DEF TypeOK
  <1>5. left' \in 0 .. Packet /\ ring' \in 0 .. RingCap
    BY <1>1, <1>2, PacketAssumption
  <1> HIDE DEF k, again
  <1> QED  BY <1>1, <1>3, <1>4, <1>5

\* usb_send_busy and the job of IN end together.
LEMMA SentFacts ==
    ASSUME TypeOK, NEW nak \in BOOLEAN, Sent(nak)
    PROVE  /\ \E again \in BOOLEAN :
                 /\ Job("IN", again, FALSE, nak)
                 /\ again => ep["IN"] = "on"
                 /\ sending' = again
           /\ queue' \in 0 .. Packet
  <1> DEFINE again == queue # 0 /\ Starts("IN", FALSE)
  <1>1. queue' = 0 /\ sending' = again /\ Job("IN", again, FALSE, nak)
    BY DEF Sent
  <1>2. again \in BOOLEAN /\ (again => ep["IN"] = "on")
    BY DEF Starts
  <1>3. queue' \in 0 .. Packet
    BY <1>1, PacketAssumption
  <1> HIDE DEF again
  <1> QED  BY <1>1, <1>2, <1>3

LEMMA EmptyPlan == Plan(<< >>)
  BY DEF Plan, Ordered, AbortInv, HaltedInv, Conf0Inv, AllocInv

\* A plan needs no more than the endpoints and the configuration.
LEMMA SamePlan ==
    ASSUME Plan(todo), UNCHANGED <<todo, ep, conf>>
    PROVE  Plan(todo)'
  BY DEF Plan, Ordered, AbortInv, HaltedInv, Conf0Inv, AllocInv

--------------------------------------------------------------------------------
(* The steps of the traffic.                                                    *)

LEMMA HostInv == ASSUME IInv, NEW e \in Eps, NEW n \in 1 .. Packet, Host(e, n) PROVE IInv'
  <1>1. /\ ep[e] = "on" /\ ~nack[e] /\ attached
        /\ job[e] \/ (e = "IN" /\ "IN" \in cut)
        /\ nack' = [nack EXCEPT ![e] = TRUE] /\ tc' = [tc EXCEPT ![e] = TRUE]
        /\ data' = [data EXCEPT ![e] = n] /\ (e = "IN" => n = 1)
        /\ UNCHANGED <<ep, job, left, ring, want, dre, busVars, inVars, midiVars, menu, todo, cut>>
    BY DEF Host, Open, IInv, OpenHasJob
  <1> USE DEF busVars, inVars, midiVars
  <1>0. odd' \in BOOLEAN
    BY DEF Host, IInv, TypeOK
  <1>2. TypeOK'
    <2>1. n \in 0 .. Packet
      BY PacketAssumption
    <2>2. /\ nack' \in [Eps -> BOOLEAN] /\ tc' \in [Eps -> BOOLEAN]
          /\ data' \in [Eps -> 0 .. Packet]
      BY <1>1, <2>1 DEF IInv, TypeOK
    <2> QED  BY <1>0, <1>1, <2>2 DEF IInv, TypeOK
  <1>3. Plan(todo)'
    BY <1>1, SamePlan DEF IInv
  <1>4. /\ nack'[e] /\ tc'[e] /\ data'[e] = n /\ n # 0
        /\ \A f \in Eps : f # e => nack'[f] = nack[f] /\ tc'[f] = tc[f] /\ data'[f] = data[f]
    <2>1. /\ nack \in [Eps -> BOOLEAN] /\ tc \in [Eps -> BOOLEAN]
          /\ data \in [Eps -> 0 .. Packet] /\ n # 0
      BY DEF IInv, TypeOK
    <2> QED  BY <1>1, <2>1
  <1>5. EpInv'
    BY <1>1, <1>4 DEF IInv, EpInv, ConfInv, PendInv, HaltInv, AgainInv, Coming
  <1>6. OpenHasJob' /\ StaleEventsSleep' /\ SleepLockBalanced'
    BY <1>1, <1>4 DEF IInv, OpenHasJob, StaleEventsSleep, SleepLockBalanced, Open
  <1> QED  BY <1>2, <1>3, <1>5, <1>6 DEF IInv

LEMMA OutCompleteInv == ASSUME IInv, OutComplete PROVE IInv'
  <1>1. /\ attached /\ todo = << >> /\ tc["OUT"]
        /\ tc' = [tc EXCEPT !["OUT"] = FALSE]
        /\ UNCHANGED <<ep, busVars, inVars, midiVars, menu, todo, cut>>
    BY DEF OutComplete
  <1> USE DEF busVars, outVars, inVars, midiVars
  <1>2. tc' \in [Eps -> BOOLEAN] /\ ~tc'["OUT"] /\ tc'["IN"] = tc["IN"]
    BY <1>1 DEF IInv, TypeOK
  <1>3. Plan(todo)' /\ SleepLockBalanced'
    BY <1>1, SamePlan DEF IInv, SleepLockBalanced
  <1>4. ep["OUT"] = "on" => nack["OUT"]
    BY <1>1 DEF IInv, EpInv, PendInv, Later, Coming
  <1>5. CASE ~job["OUT"]
    <2>1. UNCHANGED <<job, nack, data, outVars>>
      BY <1>5 DEF OutComplete
    <2>2. TypeOK'
      BY <1>1, <1>2, <2>1 DEF IInv, TypeOK
    <2>3. EpInv' /\ OpenHasJob' /\ StaleEventsSleep'
      BY <1>1, <1>2, <2>1
      DEF IInv, EpInv, ConfInv, PendInv, HaltInv, AgainInv, OpenHasJob, StaleEventsSleep, Open,
          Later, Coming
    <2> QED  BY <1>3, <2>2, <2>3 DEF IInv
  <1>6. CASE job["OUT"]
    <2>1. /\ data["OUT"] \in 0 .. Packet /\ ring \in 0 .. RingCap
          /\ nack["OUT"] \in BOOLEAN /\ TypeOK
      BY DEF IInv, TypeOK
    <2>2. Process(data["OUT"], ring, FALSE, nack["OUT"])
      BY <1>6 DEF OutComplete
    <2>3. /\ left' \in 0 .. Packet /\ ring' \in 0 .. RingCap
          /\ dre' \in BOOLEAN /\ want' \in BOOLEAN /\ odd' = odd
      BY <2>1, <2>2, ProcessFacts, ZenonT(60)
    <2>4. PICK again \in BOOLEAN :
             /\ Job("OUT", again, FALSE, nack["OUT"])
             /\ again => left' = 0 /\ ep["OUT"] = "on"
      <3> DEFINE busy == FALSE
                 nak == nack["OUT"]
      <3>1. busy \in BOOLEAN /\ nak \in BOOLEAN /\ Process(data["OUT"], ring, busy, nak)
        BY <2>1, <2>2
      <3> HIDE DEF busy, nak
      <3>2. \E again \in BOOLEAN : /\ Job("OUT", again, busy, nak)
                                   /\ again => left' = 0 /\ ep["OUT"] = "on"
        BY <2>1, <3>1, ProcessFacts
      <3> QED  BY <3>2 DEF busy, nak
    <2>5. /\ job' \in [Eps -> BOOLEAN] /\ nack' \in [Eps -> BOOLEAN]
          /\ data' \in [Eps -> 0 .. Packet]
          /\ job'["OUT"] = again /\ nack'["OUT"] = (nack["OUT"] /\ ~again)
          /\ job'["IN"] = job["IN"] /\ nack'["IN"] = nack["IN"]
      BY <2>1, <2>4, JobFacts
    <2>6. TypeOK'
      BY <1>1, <1>2, <2>3, <2>5 DEF IInv, TypeOK
    <2>9. data'["IN"] = data["IN"]
      BY <2>4 DEF Job, IInv, TypeOK
    <2>7. EpInv'
      BY <1>1, <1>2, <2>4, <2>5, <2>9
      DEF IInv, EpInv, ConfInv, PendInv, HaltInv, AgainInv, Later, Coming
    <2>8. OpenHasJob' /\ StaleEventsSleep'
      BY <1>1, <1>4, <2>4, <2>5 DEF IInv, OpenHasJob, StaleEventsSleep, Open
    <2> QED  BY <1>3, <2>6, <2>7, <2>8 DEF IInv
  <1> QED  BY <1>5, <1>6

LEMMA InCompleteInv == ASSUME IInv, InComplete PROVE IInv'
  <1>1. /\ attached /\ todo = << >> /\ tc["IN"]
        /\ tc' = [tc EXCEPT !["IN"] = FALSE]
        /\ UNCHANGED <<ep, busVars, outVars, midiVars, menu, todo, cut>>
    BY DEF InComplete
  <1> USE DEF busVars, outVars, inVars, midiVars
  <1>2. tc' \in [Eps -> BOOLEAN] /\ ~tc'["IN"] /\ tc'["OUT"] = tc["OUT"]
    BY <1>1 DEF IInv, TypeOK
  <1>3. Plan(todo)' /\ SleepLockBalanced'
    BY <1>1, SamePlan DEF IInv, SleepLockBalanced
  <1>4. /\ ep["IN"] = "on" => (nack["IN"] /\ job["IN"]) \/ "IN" \in cut
        /\ ep["IN"] = "halted" => ~job["IN"] /\ (data["IN"] = 0 => "IN" \in cut)
    BY <1>1 DEF IInv, EpInv, PendInv, HaltInv, AgainInv, Later, Coming
  <1>5. CASE data["IN"] = 0
    <2>1. nack' = [nack EXCEPT !["IN"] = FALSE] /\ UNCHANGED <<job, data, inVars>>
      BY <1>5 DEF InComplete
    <2>2. nack' \in [Eps -> BOOLEAN] /\ nack'["OUT"] = nack["OUT"]
      BY <2>1 DEF IInv, TypeOK
    <2>3. TypeOK'
      BY <1>1, <1>2, <2>1, <2>2 DEF IInv, TypeOK
    <2>4. EpInv' /\ OpenHasJob' /\ StaleEventsSleep'
      BY <1>1, <1>2, <1>4, <1>5, <2>1, <2>2
      DEF IInv, EpInv, ConfInv, PendInv, HaltInv, AgainInv, OpenHasJob, StaleEventsSleep, Open,
          Later, Coming
    <2> QED  BY <1>3, <2>3, <2>4 DEF IInv
  <1>6. CASE data["IN"] # 0 /\ ~job["IN"]
    <2>1. UNCHANGED <<job, nack, data, inVars>>
      BY <1>6 DEF InComplete
    <2>2. TypeOK'
      BY <1>1, <1>2, <2>1 DEF IInv, TypeOK
    <2>3. EpInv' /\ OpenHasJob' /\ StaleEventsSleep'
      BY <1>1, <1>2, <2>1
      DEF IInv, EpInv, ConfInv, PendInv, HaltInv, AgainInv, OpenHasJob, StaleEventsSleep, Open,
          Later, Coming
    <2> QED  BY <1>3, <2>2, <2>3 DEF IInv
  <1>7. CASE data["IN"] # 0 /\ job["IN"]
    <2>1. nack["IN"] \in BOOLEAN /\ TypeOK
      BY DEF IInv, TypeOK
    <2>2. Sent(nack["IN"])
      BY <1>7 DEF InComplete
    <2>3. PICK again \in BOOLEAN :
             Job("IN", again, FALSE, nack["IN"]) /\ (again => ep["IN"] = "on") /\ sending' = again
      BY <2>1, <2>2, SentFacts
    <2>4. queue' \in 0 .. Packet
      BY <2>1, <2>2, SentFacts
    <2>5. /\ job' \in [Eps -> BOOLEAN] /\ nack' \in [Eps -> BOOLEAN]
          /\ data' \in [Eps -> 0 .. Packet]
          /\ job'["IN"] = again /\ nack'["IN"] = (nack["IN"] /\ ~again)
          /\ job'["OUT"] = job["OUT"] /\ nack'["OUT"] = nack["OUT"]
      BY <2>1, <2>3, JobFacts
    <2>6. TypeOK'
      BY <1>1, <1>2, <2>3, <2>4, <2>5 DEF IInv, TypeOK
    <2>7. EpInv'
      BY <1>1, <1>2, <1>4, <2>3, <2>5
      DEF IInv, EpInv, ConfInv, PendInv, HaltInv, AgainInv, Later, Coming
    <2>8. OpenHasJob' /\ StaleEventsSleep'
      BY <1>1, <1>4, <2>3, <2>5 DEF IInv, OpenHasJob, StaleEventsSleep, Open
    <2> QED  BY <1>3, <2>6, <2>7, <2>8 DEF IInv
  <1> QED  BY <1>5, <1>6, <1>7

LEMMA RxEventInv == ASSUME IInv, RxEvent PROVE IInv'
  <1>1. UNCHANGED <<ep, tc, busVars, outVars, midiVars, menu, todo, cut>>
    BY DEF RxEvent
  <1> USE DEF busVars, outVars, inVars, midiVars
  <1>2. Plan(todo)' /\ SleepLockBalanced'
    BY <1>1, SamePlan DEF IInv, SleepLockBalanced
  <1>3. CASE sending
    <2>1. queue' = queue + 1 /\ queue < Packet /\ UNCHANGED <<sending, nack, data, job>>
      BY <1>3 DEF RxEvent
    <2>2. queue' \in 0 .. Packet
      BY <2>1, PacketAssumption DEF IInv, TypeOK
    <2>3. TypeOK'
      BY <1>1, <2>1, <2>2 DEF IInv, TypeOK
    <2>4. EpInv' /\ OpenHasJob' /\ StaleEventsSleep'
      BY <1>1, <2>1
      DEF IInv, EpInv, ConfInv, PendInv, HaltInv, AgainInv, OpenHasJob, StaleEventsSleep, Open, Coming
    <2> QED  BY <1>2, <2>3, <2>4 DEF IInv
  <1>4. CASE ~sending
    <2> DEFINE again == Starts("IN", job["IN"])
    <2>1. queue' = 0 /\ sending' = again /\ Job("IN", again, job["IN"], nack["IN"])
      BY <1>4 DEF RxEvent
    <2>2. again \in BOOLEAN /\ (again => ep["IN"] = "on" /\ ~job["IN"])
      BY DEF Starts
    <2>3. job["IN"] \in BOOLEAN /\ nack["IN"] \in BOOLEAN /\ TypeOK
      BY DEF IInv, TypeOK
    <2>4. queue' \in 0 .. Packet
      BY <2>1, PacketAssumption
    <2> HIDE DEF again
    <2>5. /\ job' \in [Eps -> BOOLEAN] /\ nack' \in [Eps -> BOOLEAN]
          /\ data' \in [Eps -> 0 .. Packet]
          /\ job'["IN"] = (again \/ job["IN"]) /\ nack'["IN"] = (nack["IN"] /\ ~again)
          /\ job'["OUT"] = job["OUT"] /\ nack'["OUT"] = nack["OUT"]
      BY <2>1, <2>2, <2>3, JobFacts
    <2>6. TypeOK'
      BY <1>1, <2>1, <2>2, <2>4, <2>5 DEF IInv, TypeOK
    <2>9. tc["IN"] /\ again => \/ Later(todo, 0, <<"off", "IN">>)
                              \/ Coming(<<"halt", "IN">>)
                              \/ "IN" \in cut
      BY <2>2 DEF IInv, EpInv, PendInv
    <2>10. ~again => data'["IN"] = data["IN"]
      BY <2>1 DEF Job, IInv, TypeOK
    <2>7. EpInv'
      BY <1>1, <2>2, <2>5, <2>9, <2>10
      DEF IInv, EpInv, ConfInv, PendInv, HaltInv, AgainInv, Coming
    <2>8. OpenHasJob' /\ StaleEventsSleep'
      BY <1>1, <2>2, <2>5 DEF IInv, OpenHasJob, StaleEventsSleep, Open
    <2> QED  BY <1>2, <2>6, <2>7, <2>8 DEF IInv
  <1> QED  BY <1>3, <1>4

LEMMA DreSendInv == ASSUME IInv, DreSend PROVE IInv'
  <1>1. /\ dre /\ ring > 0
        /\ UNCHANGED <<ep, tc, busVars, inVars, midiVars, menu, todo, cut>>
    BY DEF DreSend
  <1> USE DEF busVars, outVars, inVars, midiVars
  <1>2. Plan(todo)' /\ SleepLockBalanced'
    BY <1>1, SamePlan DEF IInv, SleepLockBalanced
  <1>3. ring - 1 \in 0 .. RingCap
    BY <1>1, RingCapAssumption DEF IInv, TypeOK
  <1>4. CASE want /\ left > 0
    <2>1. /\ job["OUT"] \in BOOLEAN /\ nack["OUT"] \in BOOLEAN
          /\ left \in 0 .. Packet /\ TypeOK
      BY DEF IInv, TypeOK
    <2>2. Process(left, ring - 1, job["OUT"], nack["OUT"])
      BY <1>4 DEF DreSend
    <2>3. /\ left' \in 0 .. Packet /\ ring' \in 0 .. RingCap
          /\ dre' \in BOOLEAN /\ want' \in BOOLEAN /\ odd' = odd
      BY <1>3, <2>1, <2>2, ProcessFacts, ZenonT(60)
    <2>4. PICK again \in BOOLEAN :
             /\ Job("OUT", again, job["OUT"], nack["OUT"])
             /\ again => left' = 0 /\ ep["OUT"] = "on" /\ ~job["OUT"]
      BY <1>3, <2>1, <2>2, ProcessFacts
    <2>5. /\ job' \in [Eps -> BOOLEAN] /\ nack' \in [Eps -> BOOLEAN]
          /\ data' \in [Eps -> 0 .. Packet]
          /\ job'["OUT"] = (again \/ job["OUT"]) /\ nack'["OUT"] = (nack["OUT"] /\ ~again)
          /\ job'["IN"] = job["IN"] /\ nack'["IN"] = nack["IN"]
      BY <2>1, <2>4, JobFacts
    <2>6. TypeOK'
      BY <1>1, <2>3, <2>5 DEF IInv, TypeOK
    <2>9. data'["IN"] = data["IN"]
      BY <2>4 DEF Job, IInv, TypeOK
    <2>7. EpInv'
      BY <1>1, <2>4, <2>5, <2>9 DEF IInv, EpInv, ConfInv, PendInv, HaltInv, AgainInv, Coming
    <2>8. OpenHasJob' /\ StaleEventsSleep'
      BY <1>1, <1>4, <2>4, <2>5 DEF IInv, OpenHasJob, StaleEventsSleep, Open
    <2> QED  BY <1>2, <2>6, <2>7, <2>8 DEF IInv
  <1>5. CASE ~(want /\ left > 0)
    <2>1. ring' = ring - 1 /\ UNCHANGED <<left, odd, want, dre, nack, data, job>>
      BY <1>5 DEF DreSend
    <2>2. TypeOK'
      BY <1>1, <1>3, <2>1 DEF IInv, TypeOK
    <2>3. EpInv' /\ OpenHasJob' /\ StaleEventsSleep'
      BY <1>1, <2>1
      DEF IInv, EpInv, ConfInv, PendInv, HaltInv, AgainInv, OpenHasJob, StaleEventsSleep, Open, Coming
    <2> QED  BY <1>2, <2>2, <2>3 DEF IInv
  <1> QED  BY <1>4, <1>5

LEMMA DreOffInv == ASSUME IInv, DreOff PROVE IInv'
  <1>1. dre' = FALSE /\ UNCHANGED <<left, odd, ring, want, epVars, busVars, inVars, midiVars, menu, todo, cut>>
    BY DEF DreOff
  <1> USE DEF epVars, busVars, inVars, midiVars
  <1>2. Plan(todo)' /\ SleepLockBalanced' /\ TypeOK'
    BY <1>1, SamePlan DEF IInv, SleepLockBalanced, TypeOK
  <1>3. EpInv' /\ OpenHasJob' /\ StaleEventsSleep'
    BY <1>1 DEF IInv, EpInv, ConfInv, PendInv, HaltInv, AgainInv, OpenHasJob, StaleEventsSleep, Open,
                Coming
  <1> QED  BY <1>2, <1>3 DEF IInv

--------------------------------------------------------------------------------
(* The handlers begin.                                                          *)

\* A handler that has a plan may begin.
LEMMA HandleInv ==
    ASSUME IInv, NEW s \in Seq(Steps), Plan(s), todo = << >>, todo' = s,
           UNCHANGED <<epVars, outVars, inVars, midiVars, conf, ctrl, cut>>,
           attached' \in BOOLEAN, attached' => attached, menu' \in {"none", "start", "stop"}
    PROVE  IInv'
  <1> USE DEF epVars, outVars, inVars, midiVars
  <1>1. TypeOK' /\ SleepLockBalanced'
    BY DEF IInv, TypeOK, SleepLockBalanced
  <1>2. Plan(todo)'
    BY DEF Plan, Ordered, AbortInv, HaltedInv, Conf0Inv, AllocInv, Later, Before
  <1>3. ConfInv' /\ OpenHasJob' /\ StaleEventsSleep'
    BY DEF IInv, EpInv, ConfInv, OpenHasJob, StaleEventsSleep, Open
  <1>4. \A t : ~Later(todo, 0, t) /\ ~Coming(t)
    BY DEF Later, Coming
  <1>5. PendInv' /\ HaltInv' /\ AgainInv'
    BY <1>4 DEF IInv, EpInv, PendInv, HaltInv, AgainInv
  <1> QED  BY <1>1, <1>2, <1>3, <1>5 DEF IInv, EpInv

LEMMA BusResetInv == ASSUME IInv, BusReset PROVE IInv'
  <1> DEFINE s == <<<<"abort", "OUT">>, <<"abort", "IN">>>> \o Reset \o OneStep("ctrl")
  <1>1. s \in Seq(Steps) /\ Plan(s)
    BY Plans DEF IInv, EpInv
  <1>2. todo = << >> /\ todo' = s
    BY DEF BusReset, Handle, OneStep
  <1>3. /\ UNCHANGED <<epVars, outVars, inVars, midiVars, conf, ctrl, cut, attached, menu>>
        /\ attached \in BOOLEAN /\ menu \in {"none", "start", "stop"}
    BY DEF BusReset, Handle, busVars, IInv, TypeOK
  <1> HIDE DEF s
  <1> QED  BY <1>1, <1>2, <1>3, HandleInv

LEMMA SetConfigurationInv == ASSUME IInv, NEW c \in {0, 1}, SetConfiguration(c) PROVE IInv'
  <1>1. /\ UNCHANGED <<epVars, outVars, inVars, midiVars, conf, ctrl, cut, attached, menu>>
        /\ attached \in BOOLEAN /\ menu \in {"none", "start", "stop"}
        /\ todo = << >>
    BY DEF SetConfiguration, Handle, busVars, IInv, TypeOK
  <1>2. CASE c = 0
    <2> DEFINE s == Reset
    <2>1. s \in Seq(Steps) /\ Plan(s)
      BY Plans DEF IInv, EpInv
    <2>2. todo' = s
      <3>1. todo' = Reset \o << >>
        BY <1>2 DEF SetConfiguration, Handle
      <3> HIDE DEF Steps
      <3>2. s \o << >> = s
        BY <2>1
      <3> QED  BY <3>1, <3>2
    <2> HIDE DEF s
    <2> QED  BY <1>1, <2>1, <2>2, HandleInv
  <1>3. CASE c = 1
    <2> DEFINE s == Reset \o (OneStep("conf1") \o IfaceEnable)
    <2>1. s \in Seq(Steps) /\ Plan(s)
      BY Plans DEF IInv, EpInv
    <2>2. todo' = s
      BY <1>3 DEF SetConfiguration, Handle, OneStep
    <2> HIDE DEF s
    <2> QED  BY <1>1, <2>1, <2>2, HandleInv
  <1> QED  BY <1>2, <1>3

LEMMA SetInterfaceInv == ASSUME IInv, NEW exists \in BOOLEAN, SetInterface(exists) PROVE IInv'
  <1>1. /\ UNCHANGED <<epVars, outVars, inVars, midiVars, conf, ctrl, cut, attached, menu>>
        /\ attached \in BOOLEAN /\ menu \in {"none", "start", "stop"}
        /\ todo = << >> /\ conf # 0
    BY DEF SetInterface, Handle, busVars, IInv, TypeOK
  <1>2. CASE exists
    <2> DEFINE s == IfaceDisable \o IfaceEnable
    <2>1. s \in Seq(Steps) /\ Plan(s)
      BY <1>1, Plans DEF IInv, EpInv
    <2>2. todo' = s
      BY <1>2 DEF SetInterface, Handle
    <2> HIDE DEF s
    <2> QED  BY <1>1, <2>1, <2>2, HandleInv
  <1>3. CASE ~exists
    <2> DEFINE s == IfaceDisable
    <2>1. s \in Seq(Steps) /\ Plan(s)
      BY Plans DEF IInv, EpInv
    <2>2. todo' = s
      <3>1. todo' = IfaceDisable \o << >>
        BY <1>3 DEF SetInterface, Handle
      <3> HIDE DEF Steps
      <3>2. s \o << >> = s
        BY <2>1
      <3> QED  BY <3>1, <3>2
    <2> HIDE DEF s
    <2> QED  BY <1>1, <2>1, <2>2, HandleInv
  <1> QED  BY <1>2, <1>3

LEMMA UdcStopInv == ASSUME IInv, UdcStop PROVE IInv'
  <1> DEFINE s == Reset
  <1>1. s \in Seq(Steps) /\ Plan(s)
    BY Plans DEF IInv, EpInv
  <1>2. /\ todo = << >> /\ todo' = s /\ attached' = FALSE /\ menu' = "none"
        /\ UNCHANGED <<epVars, outVars, inVars, midiVars, conf, ctrl, cut>>
    BY DEF UdcStop, Handle
  <1> HIDE DEF s
  <1> QED  BY <1>1, <1>2, HandleInv

LEMMA MenuInv == ASSUME IInv, Menu PROVE IInv'
  <1>1. /\ todo = << >>
        /\ UNCHANGED <<epVars, busVars, outVars, inVars, midiVars, todo, cut>>
        /\ menu' \in {"start", "stop"}
    BY DEF Menu
  <1>2. Plan(<< >>)
    BY EmptyPlan
  <1>3. << >> \in Seq(Steps)
    OBVIOUS
  <1>4. attached \in BOOLEAN
    BY DEF IInv, TypeOK
  <1> QED  BY <1>1, <1>2, <1>3, <1>4, HandleInv DEF busVars

LEMMA UdcStartInv == ASSUME IInv, UdcStart PROVE IInv'
  <1>1. /\ todo = << >> /\ attached' = TRUE /\ ctrl' = FALSE
        /\ ep' = [e \in Eps |-> "off"] /\ tc' = [e \in Eps |-> FALSE]
        /\ job' = [e \in Eps |-> FALSE] /\ menu' = "none" /\ cut' = {}
        /\ UNCHANGED <<conf, nack, data, outVars, inVars, midiVars, todo>>
    BY DEF UdcStart
  <1> USE DEF outVars, inVars, midiVars
  <1>2. TypeOK' /\ SleepLockBalanced'
    BY <1>1 DEF IInv, TypeOK, SleepLockBalanced
  <1>3. Plan(todo)'
    BY <1>1 DEF Plan, Ordered, AbortInv, HaltedInv, Conf0Inv, AllocInv
  <1>4. \A e \in Eps : ep'[e] = "off"
    BY <1>1
  <1>5. EpInv' /\ OpenHasJob' /\ StaleEventsSleep'
    BY <1>4 DEF EpInv, ConfInv, PendInv, HaltInv, AgainInv, OpenHasJob, StaleEventsSleep, Open
  <1> QED  BY <1>2, <1>3, <1>5 DEF IInv

LEMMA SetHaltInv == ASSUME IInv, NEW e \in Eps, SetHalt(e) PROVE IInv'
  <1> DEFINE s == <<<<"abort", e>>, <<"halt", e>>, <<"abort", e>>>>
  <1>1. s \in Seq(Steps)
    BY DEF Steps
  <1>2. Plan(s)
    <2>1. /\ DOMAIN s = {1, 2, 3}
          /\ s[1] = <<"abort", e>> /\ s[2] = <<"halt", e>> /\ s[3] = <<"abort", e>>
      OBVIOUS
    <2> HIDE DEF s
    <2>2. Ordered(s) /\ Conf0Inv(s) /\ AllocInv(s)
      BY <2>1 DEF Ordered, Conf0Inv, AllocInv
    <2>3. AbortInv(s)
      BY <2>1 DEF AbortInv, Before
    <2>4. HaltedInv(s)
      BY <2>1 DEF HaltedInv, Later
    <2> QED  BY <2>2, <2>3, <2>4 DEF Plan
  <1>3. /\ todo = << >> /\ todo' = s
        /\ UNCHANGED <<epVars, outVars, inVars, midiVars, conf, ctrl, cut, attached, menu>>
        /\ attached \in BOOLEAN /\ menu \in {"none", "start", "stop"}
    BY DEF SetHalt, Handle, busVars, IInv, TypeOK
  <1> HIDE DEF s
  <1> QED  BY <1>1, <1>2, <1>3, HandleInv

LEMMA ClearHaltInv == ASSUME IInv, NEW e \in Eps, ClearHalt(e) PROVE IInv'
  <1>1. /\ ep[e] = "halted" /\ todo = << >> /\ \A f \in Eps : ~tc[f]
        /\ ep' = [ep EXCEPT ![e] = "on"]
        /\ UNCHANGED <<nack, tc, data, job, busVars, outVars, inVars, midiVars, menu, todo, cut>>
    BY DEF ClearHalt, Request
  <1> USE DEF busVars, outVars, inVars, midiVars
  <1>2. /\ ep' \in [Eps -> {"off", "on", "halted"}]
        /\ ep'[e] = "on" /\ \A f \in Eps : f # e => ep'[f] = ep[f]
    BY <1>1 DEF IInv, TypeOK
  <1>3. TypeOK' /\ SleepLockBalanced'
    BY <1>1, <1>2 DEF IInv, TypeOK, SleepLockBalanced
  <1>4. Plan(todo)'
    BY <1>1 DEF Plan, Ordered, AbortInv, HaltedInv, Conf0Inv, AllocInv
  <1>5. nack[e] \/ (e = "IN" /\ "IN" \in cut)
    BY <1>1 DEF IInv, EpInv, HaltInv, Later
  <1>6. EpInv'
    BY <1>1, <1>2 DEF IInv, EpInv, ConfInv, PendInv, HaltInv, AgainInv, Later, Coming
  <1>7. OpenHasJob' /\ StaleEventsSleep'
    BY <1>1, <1>2, <1>5 DEF IInv, OpenHasJob, StaleEventsSleep, Open
  <1> QED  BY <1>3, <1>4, <1>6, <1>7 DEF IInv

--------------------------------------------------------------------------------
(* The steps of the handlers.                                                   *)

\* After a step that does what the plan says, the plan goes on.
LEMMA TailPlan ==
    ASSUME IInv, todo # << >>, todo' = Tail(todo),
           \A e \in Eps : /\ ep'[e] = "on" => ep[e] = "on" \/ todo[1][1] = "alloc"
                          /\ ep[e] = "off" => ep'[e] = "off" \/ todo[1][1] = "alloc"
                          /\ todo[1] = <<"off", e>> => ep'[e] = "off"
                          /\ todo[1] = <<"halt", e>> => ep'[e] # "on",
           todo[1][1] = "conf1" => conf' = 1,
           conf = 1 => conf' = 1 \/ todo[1][1] = "conf0"
    PROVE  Plan(todo)'
  <1> DEFINE s == todo
             u == Tail(todo)
  <1> HIDE DEF Steps
  <1>1. /\ s \in Seq(Steps) /\ s # << >> /\ u = Tail(s) /\ todo' = u
        /\ Plan(s)
    BY DEF IInv, TypeOK
  <1>2. /\ 1 \in DOMAIN s
        /\ \A i \in DOMAIN u : i \in Nat /\ i >= 1 /\ i + 1 \in DOMAIN s /\ u[i] = s[i + 1]
    BY <1>1, TailFacts
  <1>3. \A j \in DOMAIN s : j \in Nat /\ j >= 1 /\ (j # 1 => j - 1 \in DOMAIN u /\ u[j - 1] = s[j])
    BY <1>1, TailFacts
  <1>4. \A i \in Nat : \A t :
           /\ Later(u, i, t) <=> Later(s, i + 1, t)
           /\ i >= 1 => (Before(s, i + 1, t) => s[1] = t \/ Before(u, i, t))
    BY <1>1, LaterInTail
  <1>5. s[1] \in Steps /\ \A i \in DOMAIN u : u[i] \in Steps
    BY <1>1, <1>2, TailFacts
  <1> HIDE DEF s, u
  <1>6. Ordered(u)
    BY <1>1, <1>2 DEF Plan, Ordered
  <1>7. AbortInv(todo)'
    <2> SUFFICES ASSUME NEW i \in DOMAIN u, u[i][1] = "abort"
                 PROVE  \/ ep'[u[i][2]] # "on"
                        \/ Later(u, i, <<"off", u[i][2]>>)
                        \/ i + 1 \in DOMAIN u /\ u[i + 1] = <<"halt", u[i][2]>>
                        \/ Before(u, i, <<"halt", u[i][2]>>)
      <3>1. AbortInv(todo)' <=>
               \A i \in DOMAIN todo' : todo'[i][1] = "abort" =>
                   \/ ep'[todo'[i][2]] # "on"
                   \/ Later(todo', i, <<"off", todo'[i][2]>>)
                   \/ i + 1 \in DOMAIN todo' /\ todo'[i + 1] = <<"halt", todo'[i][2]>>
                   \/ Before(todo', i, <<"halt", todo'[i][2]>>)
        BY DEF AbortInv, Later, Before
      <3> QED  BY <1>1, <3>1
    <2>1. u[i][2] \in Eps
      BY <1>5, StepKinds
    <2>2. s[i + 1] = u[i] /\ i + 1 \in DOMAIN s /\ 1 < i + 1 /\ i \in Nat
      BY <1>2
    <2>3. s[1][1] # "alloc"
      BY <1>1, <1>2, <2>2 DEF Plan, Ordered
    <2> DEFINE e == u[i][2]
               last == (i + 1) + 1
    <2>4. \/ ep[e] # "on"
          \/ Later(s, i + 1, <<"off", e>>)
          \/ last \in DOMAIN s /\ s[last] = <<"halt", e>>
          \/ Before(s, i + 1, <<"halt", e>>)
      BY <1>1, <2>2 DEF Plan, AbortInv
    <2>5. last # 1 /\ last - 1 = i + 1
      BY <2>2
    <2> HIDE DEF e, last
    <2>6. CASE ep[e] # "on"
      BY <2>1, <2>3, <2>6 DEF s, e
    <2>7. CASE Later(s, i + 1, <<"off", e>>)
      BY <1>4, <2>2, <2>7 DEF e
    <2>8. CASE last \in DOMAIN s /\ s[last] = <<"halt", e>>
      BY <1>3, <2>5, <2>8 DEF e
    <2>9. CASE Before(s, i + 1, <<"halt", e>>)
      <3>1. s[1] = <<"halt", e>> \/ Before(u, i, <<"halt", e>>)
        BY <1>2, <1>4, <2>2, <2>9
      <3> QED  BY <2>1, <3>1 DEF s, e
    <2> QED  BY <2>4, <2>6, <2>7, <2>8, <2>9
  <1>10. HaltedInv(u)
    <2> SUFFICES ASSUME NEW i \in DOMAIN u, u[i][1] = "halt"
                 PROVE  Later(u, i, <<"abort", u[i][2]>>)
      BY DEF HaltedInv
    <2>1. s[i + 1] = u[i] /\ i + 1 \in DOMAIN s /\ i \in Nat
      BY <1>2
    <2>2. Later(s, i + 1, <<"abort", u[i][2]>>)
      BY <1>1, <2>1 DEF Plan, HaltedInv
    <2> QED  BY <1>4, <2>1, <2>2
  <1>8. Conf0Inv(todo)'
    <2> SUFFICES ASSUME NEW i \in DOMAIN u, u[i][1] = "conf0", NEW e \in Eps
                 PROVE  ep'[e] = "off" \/ Before(u, i, <<"off", e>>)
      <3>1. Conf0Inv(todo)' <=>
               \A i \in DOMAIN todo' : todo'[i][1] = "conf0" =>
                   \A e \in Eps : ep'[e] = "off" \/ Before(todo', i, <<"off", e>>)
        BY DEF Conf0Inv, Before
      <3> QED  BY <1>1, <3>1
    <2>2. s[i + 1] = u[i] /\ i + 1 \in DOMAIN s /\ 1 < i + 1 /\ i \in Nat /\ i >= 1
      BY <1>2
    <2>3. s[1][1] # "alloc"
      BY <1>1, <1>2, <2>2 DEF Plan, Ordered
    <2>4. ep[e] = "off" \/ Before(s, i + 1, <<"off", e>>)
      BY <1>1, <2>2 DEF Plan, Conf0Inv
    <2> QED  BY <1>4, <2>2, <2>3, <2>4 DEF s
  <1>9. AllocInv(todo)'
    <2> SUFFICES ASSUME NEW i \in DOMAIN u, u[i][1] = "alloc"
                 PROVE  \/ Before(u, i, <<"conf1", "all">>)
                        \/ conf' = 1 /\ \A j \in DOMAIN u : u[j][1] # "conf0"
      <3>1. AllocInv(todo)' <=>
               \A i \in DOMAIN todo' : todo'[i][1] = "alloc" =>
                   \/ Before(todo', i, <<"conf1", "all">>)
                   \/ conf' = 1 /\ \A j \in DOMAIN todo' : todo'[j][1] # "conf0"
        BY DEF AllocInv, Before
      <3> QED  BY <1>1, <3>1
    <2>2. s[i + 1] = u[i] /\ i + 1 \in DOMAIN s /\ i \in Nat /\ i >= 1
      BY <1>2
    <2>3. CASE Before(s, i + 1, <<"conf1", "all">>)
      <3>1. CASE s[1] = <<"conf1", "all">>
        <4>1. s[1][1] = "conf1"
          BY <3>1
        <4>2. \A j \in DOMAIN u : u[j][1] # "conf0"
          BY <1>1, <1>2, <4>1 DEF Plan, Ordered
        <4> QED  BY <4>1, <4>2 DEF s
      <3>2. CASE s[1] # <<"conf1", "all">>
        BY <1>4, <2>2, <2>3, <3>2
      <3> QED  BY <3>1, <3>2
    <2>4. CASE conf = 1 /\ \A j \in DOMAIN s : s[j][1] # "conf0"
      BY <1>2, <2>4 DEF s
    <2> QED  BY <1>1, <2>2, <2>3, <2>4 DEF Plan, AllocInv
  <1>11. HaltedInv(todo)' <=> HaltedInv(todo')
    BY DEF HaltedInv, Later
  <1> QED  BY <1>1, <1>6, <1>7, <1>8, <1>9, <1>10, <1>11 DEF Plan, Ordered

\* What is still to come is in the tail, unless it is this step.
LEMMA NextSteps ==
    ASSUME IInv, todo # << >>, todo' = Tail(todo)
    PROVE  /\ todo[1] \in Steps /\ Head(todo) = todo[1] /\ todo' \in Seq(Steps)
           /\ \A t : Later(todo, 0, t) => todo[1] = t \/ Later(todo, 0, t)'
           /\ \A e \in Eps : todo[1] = <<"abort", e>> =>
                  \/ ep[e] # "on"
                  \/ Later(todo, 0, <<"off", e>>)'
                  \/ Coming(<<"halt", e>>)'
           /\ \A e \in Eps : todo[1] = <<"halt", e>> => Later(todo, 0, <<"abort", e>>)'
           /\ \A e \in Eps : todo[1] = <<"conf0", "all">> => ep[e] = "off"
           /\ \A e \in Eps : todo[1] = <<"alloc", e>> => conf = 1
  <1> HIDE DEF Steps
  <1>1. todo \in Seq(Steps) /\ Plan(todo)
    BY DEF IInv, TypeOK
  <1>2. /\ todo[1] \in Steps /\ Head(todo) = todo[1] /\ Tail(todo) \in Seq(Steps)
        /\ 1 \in DOMAIN todo
    BY <1>1, TailFacts
  <1>3. \A j \in DOMAIN todo : j >= 1 /\ j \in Nat
    BY <1>1, TailFacts
  <1>4. \A t : /\ Later(todo, 0, t) => todo[1] = t \/ Later(Tail(todo), 0, t)
               /\ Later(todo, 1, t) => Later(Tail(todo), 0, t)
    <2> SUFFICES ASSUME NEW t PROVE /\ Later(todo, 0, t) => todo[1] = t \/ Later(Tail(todo), 0, t)
                                    /\ Later(todo, 0 + 1, t) => Later(Tail(todo), 0, t)
      OBVIOUS
    <2> QED  BY <1>1, LaterInTail
  <1>5. \A t : Later(todo, 0, t)' <=> Later(Tail(todo), 0, t)
    BY DEF Later
  <1>6. \A t : ~Before(todo, 1, t)
    BY <1>3 DEF Before
  <1>7. ASSUME NEW e \in Eps, todo[1] = <<"abort", e>>, ep[e] = "on"
        PROVE  Later(todo, 0, <<"off", e>>)' \/ Coming(<<"halt", e>>)'
    <2> DEFINE last == 1 + 1
    <2>1. \/ Later(todo, 1, <<"off", e>>)
          \/ last \in DOMAIN todo /\ todo[last] = <<"halt", e>>
      <3>1. todo[1][1] = "abort" /\ todo[1][2] = e
        BY <1>7
      <3>2. ~Before(todo, 1, <<"halt", e>>)
        BY <1>6
      <3> QED  BY <1>1, <1>2, <1>7, <3>1, <3>2 DEF Plan, AbortInv
    <2>2. CASE last \in DOMAIN todo /\ todo[last] = <<"halt", e>>
      <3>1. Tail(todo) # << >> /\ Tail(todo)[1] = todo[2]
        <4>1. 2 \in DOMAIN todo
          BY <2>2
        <4>2. 2 # 1 => 2 - 1 \in DOMAIN Tail(todo) /\ Tail(todo)[2 - 1] = todo[2]
          BY <1>1, <1>2, <4>1, TailFacts
        <4>3. Tail(todo)[1] = todo[2] /\ 1 \in DOMAIN Tail(todo)
          BY <4>2
        <4>4. Tail(todo) = << >> => DOMAIN Tail(todo) = {}
          OBVIOUS
        <4> QED  BY <4>3, <4>4
      <3>2. Coming(<<"halt", e>>)' <=> todo' # << >> /\ todo'[1] = <<"halt", e>>
        BY DEF Coming
      <3> QED  BY <2>2, <3>1, <3>2
    <2> QED  BY <1>4, <1>5, <2>1, <2>2
  <1>10. ASSUME NEW e \in Eps, todo[1] = <<"halt", e>> PROVE Later(todo, 0, <<"abort", e>>)'
    <2>1. Later(todo, 1, <<"abort", e>>)
      BY <1>1, <1>2, <1>10 DEF Plan, HaltedInv
    <2> QED  BY <1>4, <1>5, <2>1
  <1>8. \A e \in Eps : todo[1] = <<"conf0", "all">> => ep[e] = "off"
    BY <1>1, <1>2, <1>6 DEF Plan, Conf0Inv
  <1>9. \A e \in Eps : todo[1] = <<"alloc", e>> => conf = 1
    BY <1>1, <1>2, <1>6 DEF Plan, AllocInv
  <1> QED  BY <1>2, <1>4, <1>5, <1>7, <1>8, <1>9, <1>10

\* A handler that fails had nothing to tear down any more.
LEMMA FailsInv ==
    ASSUME IInv, todo # << >>, Fails(Head(todo)), todo' = << >>,
           UNCHANGED <<epVars, busVars, outVars, inVars, midiVars, menu, cut>>
    PROVE  IInv'
  <1> USE DEF epVars, busVars, outVars, inVars, midiVars
  <1>1. TypeOK' /\ SleepLockBalanced'
    BY DEF IInv, TypeOK, SleepLockBalanced
  <1>2. Plan(todo)'
    BY DEF Plan, Ordered, AbortInv, HaltedInv, Conf0Inv, AllocInv
  <1>3. todo[1][1] = "alloc" /\ 1 \in DOMAIN todo /\ \A j \in DOMAIN todo : j \in Nat /\ j >= 1
    BY TailFacts DEF Fails, IInv, TypeOK
  <1>4. \A e \in Eps : /\ ~Later(todo, 0, <<"off", e>>)
                       /\ ~Later(todo, 0, <<"abort", e>>)
                       /\ ~Coming(<<"halt", e>>)
    <2> SUFFICES ASSUME NEW j \in DOMAIN todo PROVE todo[j][1] \notin {"off", "abort"}
      BY <1>3 DEF Later, Coming
    <2> QED  BY <1>3 DEF IInv, Plan, Ordered
  <1>5. EpInv' /\ OpenHasJob' /\ StaleEventsSleep'
    BY <1>4
    DEF IInv, EpInv, ConfInv, PendInv, HaltInv, AgainInv, OpenHasJob, StaleEventsSleep, Open
  <1> QED  BY <1>1, <1>2, <1>5 DEF IInv

LEMMA AbortStepInv ==
    ASSUME IInv, todo # << >>, todo' = Tail(todo), NEW e \in Eps, todo[1] = <<"abort", e>>,
           Abort(e), UNCHANGED <<ep, tc, busVars, midiVars, menu>>
    PROVE  IInv'
  <1> USE DEF busVars, outVars, inVars, midiVars
  <1>1. Plan(todo)' /\ SleepLockBalanced'
    BY TailPlan DEF IInv, SleepLockBalanced
  <1>2. /\ todo' \in Seq(Steps)
        /\ \A t : Later(todo, 0, t) => t = <<"abort", e>> \/ Later(todo, 0, t)'
        /\ ep[e] = "on" => Later(todo, 0, <<"off", e>>)' \/ Coming(<<"halt", e>>)'
    BY NextSteps
  <1>12. \A f \in Eps : ~Coming(<<"halt", f>>)
    BY DEF Coming
  <1>3. cut' \subseteq {"OUT", "IN", "uart"}
    <2>1. cut' \in {cut, cut \cup {e}}
      BY DEF Abort
    <2> QED  BY <2>1 DEF IInv, TypeOK
  <1>10. /\ cut \subseteq cut'
         /\ e = "IN" /\ ep[e] = "halted" /\ job[e] /\ tc[e] => "IN" \in cut'
    BY DEF Abort, CutsOff
  <1>4. \E again \in BOOLEAN :
           /\ job'[e] = again /\ nack'[e] = ~again
           /\ again => ep[e] = "on" /\ (e = "OUT" => left' = 0)
           /\ \A f \in Eps : f # e => job'[f] = job[f] /\ nack'[f] = nack[f]
           /\ e = "IN" => UNCHANGED <<left, dre>>
           /\ ~again \/ e = "OUT" => data'["IN"] = data["IN"]
           /\ TypeOK'
    <2>1. CASE ~job[e]
      <3>1. nack' = [nack EXCEPT ![e] = TRUE] /\ UNCHANGED <<job, data, outVars, inVars>>
        BY <2>1 DEF Abort
      <3>2. TypeOK'
        BY <1>2, <1>3, <3>1 DEF IInv, TypeOK
      <3> WITNESS FALSE \in BOOLEAN
      <3> QED  BY <2>1, <3>1, <3>2 DEF IInv, TypeOK
    <2>2. CASE job[e] /\ e = "OUT"
      <3>1. Process(data[e], ring, FALSE, TRUE) /\ UNCHANGED inVars
        BY <2>2 DEF Abort
      <3>2. data[e] \in 0 .. Packet /\ ring \in 0 .. RingCap /\ TypeOK
        BY DEF IInv, TypeOK
      <3>3. /\ left' \in 0 .. Packet /\ ring' \in 0 .. RingCap
            /\ dre' \in BOOLEAN /\ want' \in BOOLEAN /\ odd' = odd
        BY <3>1, <3>2, ProcessFacts, ZenonT(60)
      <3>4. PICK again \in BOOLEAN :
               /\ Job("OUT", again, FALSE, TRUE)
               /\ again => left' = 0 /\ ep["OUT"] = "on"
        BY <3>1, <3>2, ProcessFacts, ZenonT(60)
      <3>5. /\ job' \in [Eps -> BOOLEAN] /\ nack' \in [Eps -> BOOLEAN]
            /\ data' \in [Eps -> 0 .. Packet]
            /\ job'["OUT"] = again /\ nack'["OUT"] = ~again
            /\ \A f \in Eps : f # "OUT" => job'[f] = job[f] /\ nack'[f] = nack[f]
        BY <3>2, <3>4, JobFacts
      <3>6. TypeOK'
        BY <1>2, <1>3, <3>1, <3>3, <3>5 DEF IInv, TypeOK
      <3>7. data'["IN"] = data["IN"]
        BY <3>4 DEF Job, IInv, TypeOK
      <3> WITNESS again \in BOOLEAN
      <3> QED  BY <2>2, <3>4, <3>5, <3>6, <3>7
    <2>3. CASE job[e] /\ e = "IN"
      <3>1. Sent(TRUE) /\ UNCHANGED outVars
        BY <2>3 DEF Abort
      <3>2. TypeOK
        BY DEF IInv
      <3>3. queue' \in 0 .. Packet
        BY <3>1, <3>2, SentFacts
      <3>4. PICK again \in BOOLEAN :
               Job("IN", again, FALSE, TRUE) /\ (again => ep["IN"] = "on") /\ sending' = again
        BY <3>1, <3>2, SentFacts
      <3>5. /\ job' \in [Eps -> BOOLEAN] /\ nack' \in [Eps -> BOOLEAN]
            /\ data' \in [Eps -> 0 .. Packet]
            /\ job'["IN"] = again /\ nack'["IN"] = ~again
            /\ \A f \in Eps : f # "IN" => job'[f] = job[f] /\ nack'[f] = nack[f]
        BY <3>2, <3>4, JobFacts
      <3>6. TypeOK'
        BY <1>2, <1>3, <3>1, <3>3, <3>4, <3>5 DEF IInv, TypeOK
      <3>7. ~again => data'["IN"] = data["IN"]
        BY <3>4 DEF Job, IInv, TypeOK
      <3> WITNESS again \in BOOLEAN
      <3> QED  BY <2>3, <3>1, <3>4, <3>5, <3>6, <3>7
    <2> QED  BY <2>1, <2>2, <2>3 DEF IInv, TypeOK
  <1>5. PICK again \in BOOLEAN :
           /\ job'[e] = again /\ nack'[e] = ~again
           /\ again => ep[e] = "on" /\ (e = "OUT" => left' = 0)
           /\ \A f \in Eps : f # e => job'[f] = job[f] /\ nack'[f] = nack[f]
           /\ e = "IN" => UNCHANGED <<left, dre>>
           /\ ~again \/ e = "OUT" => data'["IN"] = data["IN"]
           /\ TypeOK'
    BY <1>4
  <1>6. ConfInv' /\ HaltInv'
    BY <1>2, <1>5, <1>10 DEF IInv, EpInv, ConfInv, HaltInv
  <1>7. PendInv'
    BY <1>2, <1>5, <1>10, <1>12 DEF IInv, EpInv, PendInv
  <1>11. AgainInv'
    <2> SUFFICES ASSUME ep["IN"] # "off", tc["IN"], data'["IN"] = 0, "IN" \notin cut',
                        ~Later(todo, 0, <<"off", "IN">>)'
                 PROVE  /\ job'["IN"]
                        /\ \/ Coming(<<"halt", "IN">>)'
                           \/ ep["IN"] = "halted" /\ Later(todo, 0, <<"abort", "IN">>)'
      BY DEF AgainInv
    <2>1. CASE e = "IN" /\ again
      BY <1>2, <1>5, <2>1
    <2>2. CASE e = "OUT" \/ ~again
      <3>1. /\ job["IN"] /\ ep["IN"] = "halted"
            /\ Later(todo, 0, <<"abort", "IN">>)
        BY <1>2, <1>5, <1>10, <1>12, <2>2 DEF IInv, EpInv, AgainInv
      <3>2. e = "OUT"
        BY <1>10, <3>1
      <3> QED  BY <1>2, <1>5, <3>1, <3>2
    <2> QED  BY <2>1, <2>2
  <1>8. OpenHasJob'
    BY <1>5, <1>10 DEF IInv, OpenHasJob, Open
  <1>9. StaleEventsSleep'
    <2>1. CASE e = "OUT"
      <3>1. CASE again
        <4>1. left' = 0
          BY <1>5, <2>1, <3>1
        <4>2. ~(left' > 0)
          BY <4>1
        <4> QED  BY <4>2 DEF StaleEventsSleep
      <3>2. CASE ~again
        <4>1. nack'["OUT"]
          BY <1>5, <2>1, <3>2
        <4> QED  BY <4>1 DEF StaleEventsSleep, Open
      <3> QED  BY <3>1, <3>2
    <2>2. CASE e = "IN"
      BY <1>5, <2>2 DEF IInv, StaleEventsSleep, Open
    <2> QED  BY <2>1, <2>2
  <1> QED  BY <1>1, <1>5, <1>6, <1>7, <1>8, <1>9, <1>11 DEF IInv, EpInv

LEMMA OffStepInv ==
    ASSUME IInv, todo # << >>, todo' = Tail(todo), NEW e \in Eps, todo[1] = <<"off", e>>,
           Off(e), UNCHANGED <<busVars, outVars, inVars, midiVars, menu>>
    PROVE  IInv'
  <1> USE DEF busVars, outVars, inVars, midiVars
  <1>1. /\ ep' = [ep EXCEPT ![e] = "off"] /\ UNCHANGED <<nack, tc, data, job, cut>>
    BY DEF Off
  <1>2. /\ ep' \in [Eps -> {"off", "on", "halted"}]
        /\ ep'[e] = "off" /\ \A f \in Eps : f # e => ep'[f] = ep[f]
    BY <1>1 DEF IInv, TypeOK
  <1>3. Plan(todo)' /\ SleepLockBalanced'
    BY <1>2, TailPlan DEF IInv, SleepLockBalanced
  <1>4. /\ todo' \in Seq(Steps)
        /\ \A t : Later(todo, 0, t) => t = <<"off", e>> \/ Later(todo, 0, t)'
        /\ \A f \in Eps : ~Coming(<<"halt", f>>)
    BY NextSteps DEF Coming
  <1>5. TypeOK'
    BY <1>1, <1>2, <1>4 DEF IInv, TypeOK
  <1>6. EpInv'
    BY <1>1, <1>2, <1>4 DEF IInv, EpInv, ConfInv, PendInv, HaltInv, AgainInv
  <1>7. OpenHasJob' /\ StaleEventsSleep'
    BY <1>1, <1>2 DEF IInv, OpenHasJob, StaleEventsSleep, Open
  <1> QED  BY <1>3, <1>5, <1>6, <1>7 DEF IInv

LEMMA HaltStepInv ==
    ASSUME IInv, todo # << >>, todo' = Tail(todo), NEW e \in Eps, todo[1] = <<"halt", e>>,
           Halt(e), UNCHANGED <<busVars, outVars, inVars, midiVars, menu>>
    PROVE  IInv'
  <1> USE DEF busVars, outVars, inVars, midiVars
  <1>1. /\ ep' = [ep EXCEPT ![e] = IF @ = "off" THEN "off" ELSE "halted"]
        /\ UNCHANGED <<nack, tc, data, job, cut>>
    BY DEF Halt
  <1>2. /\ ep' \in [Eps -> {"off", "on", "halted"}]
        /\ ep'[e] = (IF ep[e] = "off" THEN "off" ELSE "halted")
        /\ \A f \in Eps : f # e => ep'[f] = ep[f]
    BY <1>1 DEF IInv, TypeOK
  <1>3. Plan(todo)' /\ SleepLockBalanced'
    BY <1>2, TailPlan DEF IInv, SleepLockBalanced
  <1>4. /\ todo' \in Seq(Steps)
        /\ \A t : Later(todo, 0, t) => t = <<"halt", e>> \/ Later(todo, 0, t)'
        /\ Later(todo, 0, <<"abort", e>>)'
        /\ \A f \in Eps : Coming(<<"halt", f>>) => f = e
    BY NextSteps DEF Coming
  <1>5. TypeOK'
    BY <1>1, <1>2, <1>4 DEF IInv, TypeOK
  <1>6. EpInv'
    BY <1>1, <1>2, <1>4 DEF IInv, EpInv, ConfInv, PendInv, HaltInv, AgainInv
  <1>7. OpenHasJob' /\ StaleEventsSleep'
    BY <1>1, <1>2 DEF IInv, OpenHasJob, StaleEventsSleep, Open
  <1> QED  BY <1>3, <1>5, <1>6, <1>7 DEF IInv

LEMMA AllocStepInv ==
    ASSUME IInv, todo # << >>, todo' = Tail(todo), NEW e \in Eps, todo[1] = <<"alloc", e>>,
           Alloc(e), UNCHANGED <<busVars, outVars, inVars, midiVars, menu>>
    PROVE  IInv'
  <1> USE DEF busVars, outVars, inVars, midiVars
  <1>1. /\ ep' = [ep EXCEPT ![e] = "on"] /\ nack' = [nack EXCEPT ![e] = TRUE]
        /\ tc' = [tc EXCEPT ![e] = FALSE] /\ UNCHANGED <<data, job>>
        /\ cut' = (IF e = "IN" THEN cut \ {e} ELSE cut)
    BY DEF Alloc
  <1>2. /\ ep' \in [Eps -> {"off", "on", "halted"}]
        /\ ep'[e] = "on" /\ nack'[e] /\ ~tc'[e]
        /\ \A f \in Eps : f # e => ep'[f] = ep[f] /\ nack'[f] = nack[f] /\ tc'[f] = tc[f]
    BY <1>1 DEF IInv, TypeOK
  <1>3. Plan(todo)' /\ SleepLockBalanced'
    BY <1>2, TailPlan DEF IInv, SleepLockBalanced
  <1>4. /\ todo' \in Seq(Steps) /\ conf = 1
        /\ \A t : Later(todo, 0, t) => t = <<"alloc", e>> \/ Later(todo, 0, t)'
        /\ \A f \in Eps : ~Coming(<<"halt", f>>)
    BY NextSteps DEF Coming
  <1>8. cut' \subseteq {"OUT", "IN", "uart"} /\ (e # "IN" => cut' = cut)
    BY <1>1 DEF IInv, TypeOK
  <1>5. TypeOK'
    BY <1>1, <1>2, <1>4, <1>8 DEF IInv, TypeOK
  <1>6. EpInv'
    BY <1>1, <1>2, <1>4, <1>8 DEF IInv, EpInv, ConfInv, PendInv, HaltInv, AgainInv
  <1>7. OpenHasJob' /\ StaleEventsSleep'
    BY <1>1, <1>2, <1>8 DEF IInv, OpenHasJob, StaleEventsSleep, Open
  <1> QED  BY <1>3, <1>5, <1>6, <1>7 DEF IInv

LEMMA EnableStepInv ==
    ASSUME IInv, todo # << >>, todo' = Tail(todo), todo[1] = <<"enable", "all">>,
           Enable, UNCHANGED <<busVars, inVars, menu>>
    PROVE  IInv'
  <1> USE DEF busVars, inVars
  <1> DEFINE again == Starts("OUT", job["OUT"])
  <1>1. /\ midi' = TRUE /\ locks' = (IF midi THEN locks ELSE locks - 1) /\ dre' = FALSE
        /\ Job("OUT", again, job["OUT"], nack["OUT"])
        /\ UNCHANGED <<left, odd, ring, want, ep, tc>>
    BY DEF Enable
  <1>2. again \in BOOLEAN /\ (again => ep["OUT"] = "on" /\ ~job["OUT"])
    BY DEF Starts
  <1> HIDE DEF again
  <1>11. cut' \subseteq {"OUT", "IN", "uart"} /\ ("IN" \in cut' <=> "IN" \in cut)
    BY DEF Enable, StillCut, IInv, TypeOK
  <1>3. locks' = 0
    BY <1>1 DEF IInv, SleepLockBalanced
  <1>4. Plan(todo)' /\ SleepLockBalanced'
    BY <1>1, <1>3, TailPlan DEF SleepLockBalanced
  <1>5. /\ todo' \in Seq(Steps)
        /\ \A t : Later(todo, 0, t) => t = <<"enable", "all">> \/ Later(todo, 0, t)'
        /\ \A f \in Eps : ~Coming(<<"halt", f>>)
    BY NextSteps DEF Coming
  <1>6. job["OUT"] \in BOOLEAN /\ nack["OUT"] \in BOOLEAN /\ TypeOK
    BY DEF IInv, TypeOK
  <1>7. /\ job' \in [Eps -> BOOLEAN] /\ nack' \in [Eps -> BOOLEAN]
        /\ data' \in [Eps -> 0 .. Packet]
        /\ job'["OUT"] = (again \/ job["OUT"]) /\ nack'["OUT"] = (nack["OUT"] /\ ~again)
        /\ job'["IN"] = job["IN"] /\ nack'["IN"] = nack["IN"]
    BY <1>1, <1>2, <1>6, JobFacts
  <1>12. data'["IN"] = data["IN"]
    BY <1>1, <1>6 DEF Job, TypeOK
  <1>8. TypeOK'
    <2>1. midi' \in BOOLEAN /\ dre' \in BOOLEAN
      BY <1>1
    <2>3. locks' \in Nat
      BY <1>3
    <2>2. UNCHANGED <<attached, ctrl, conf, queue, sending, menu, left, odd, ring, want, ep, tc>>
      BY <1>1
    <2> HIDE DEF busVars, inVars, Steps
    <2> QED  BY <1>5, <1>7, <1>11, <2>1, <2>2, <2>3 DEF IInv, TypeOK
  <1>9. EpInv'
    BY <1>1, <1>2, <1>5, <1>7, <1>11, <1>12
    DEF IInv, EpInv, ConfInv, PendInv, HaltInv, AgainInv
  <1>10. OpenHasJob' /\ StaleEventsSleep'
    BY <1>1, <1>2, <1>7, <1>11 DEF IInv, OpenHasJob, StaleEventsSleep, Open
  <1> QED  BY <1>4, <1>8, <1>9, <1>10 DEF IInv

LEMMA DisableStepInv ==
    ASSUME IInv, todo # << >>, todo' = Tail(todo), todo[1] = <<"disable", "all">>,
           Disable, UNCHANGED <<left, odd, ring, want, epVars, busVars, inVars, cut, menu>>
    PROVE  IInv'
  <1> USE DEF epVars, busVars, inVars
  <1>1. midi' = FALSE /\ locks' = (IF midi THEN locks + 1 ELSE locks) /\ dre' = FALSE
    BY DEF Disable
  <1>2. locks' = 1
    BY <1>1 DEF IInv, SleepLockBalanced
  <1>3. Plan(todo)' /\ SleepLockBalanced'
    BY <1>1, <1>2, TailPlan DEF SleepLockBalanced
  <1>4. /\ todo' \in Seq(Steps)
        /\ \A t : Later(todo, 0, t) => t = <<"disable", "all">> \/ Later(todo, 0, t)'
        /\ \A f \in Eps : ~Coming(<<"halt", f>>)
    BY NextSteps DEF Coming
  <1>5. TypeOK'
    <2>1. midi' \in BOOLEAN /\ dre' \in BOOLEAN
      BY <1>1
    <2>3. locks' \in Nat
      BY <1>2
    <2>2. UNCHANGED <<attached, ctrl, conf, ep, nack, tc, data, job, queue, sending, menu,
                      left, odd, ring, want, cut>>
      OBVIOUS
    <2> HIDE DEF epVars, busVars, inVars, Steps
    <2> QED  BY <1>4, <2>1, <2>2, <2>3 DEF IInv, TypeOK
  <1>6. EpInv' /\ OpenHasJob' /\ StaleEventsSleep'
    BY <1>1, <1>4
    DEF IInv, EpInv, ConfInv, PendInv, HaltInv, AgainInv, OpenHasJob, StaleEventsSleep, Open
  <1> QED  BY <1>3, <1>5, <1>6 DEF IInv

LEMMA ConfStepInv ==
    ASSUME IInv, todo # << >>, todo' = Tail(todo),
           \/ todo[1] = <<"conf0", "all">> /\ conf' = 0 /\ UNCHANGED ctrl
           \/ todo[1] = <<"conf1", "all">> /\ conf' = 1 /\ UNCHANGED ctrl
           \/ todo[1] = <<"ctrl", "all">> /\ ctrl' = TRUE /\ UNCHANGED conf,
           UNCHANGED <<attached, epVars, outVars, inVars, midiVars, cut, menu>>
    PROVE  IInv'
  <1> USE DEF epVars, outVars, inVars, midiVars
  <1>1. Plan(todo)' /\ SleepLockBalanced'
    BY TailPlan DEF IInv, SleepLockBalanced
  <1>2. /\ todo' \in Seq(Steps)
        /\ \A t : Later(todo, 0, t) => todo[1] = t \/ Later(todo, 0, t)'
        /\ todo[1] = <<"conf0", "all">> => \A e \in Eps : ep[e] = "off"
        /\ \A e \in Eps : ~Coming(<<"halt", e>>)
        /\ \A e \in Eps : todo[1] \notin {<<"off", e>>, <<"abort", e>>}
    BY NextSteps DEF Coming
  <1>3. TypeOK'
    <2>1. conf' \in {0, 1} /\ ctrl' \in BOOLEAN
      BY DEF busVars, IInv, TypeOK
    <2> HIDE DEF Steps
    <2> QED  BY <1>2, <2>1 DEF IInv, TypeOK
  <1>4. ConfInv'
    BY <1>2 DEF IInv, EpInv, ConfInv
  <1>5. PendInv' /\ HaltInv' /\ AgainInv' /\ OpenHasJob' /\ StaleEventsSleep'
    BY <1>2 DEF IInv, EpInv, PendInv, HaltInv, AgainInv, OpenHasJob, StaleEventsSleep, Open
  <1> QED  BY <1>1, <1>3, <1>4, <1>5 DEF IInv, EpInv

LEMMA StepInv == ASSUME IInv, Step PROVE IInv'
  <1>1. todo # << >> /\ UNCHANGED menu
    BY DEF Step
  <1>2. CASE Fails(Head(todo))
    BY <1>1, <1>2, FailsInv DEF Step
  <1>3. CASE ~Fails(Head(todo))
    <2>1. todo' = Tail(todo) /\ Perform(Head(todo))
      BY <1>3 DEF Step
    <2>2. /\ Head(todo) = todo[1] /\ todo[1] = <<todo[1][1], todo[1][2]>>
          /\ \/ todo[1][1] \in {"abort", "halt", "off", "alloc"} /\ todo[1][2] \in Eps
             \/ /\ todo[1][1] \in {"enable", "disable", "conf0", "conf1", "ctrl"}
                /\ todo[1][2] = "all"
      BY <1>1, <2>1, NextSteps, StepKinds
    <2>3. CASE todo[1][1] = "abort"
      BY <1>1, <2>1, <2>2, <2>3, AbortStepInv DEF Perform
    <2>4. CASE todo[1][1] = "off"
      BY <1>1, <2>1, <2>2, <2>4, OffStepInv DEF Perform
    <2>9. CASE todo[1][1] = "halt"
      BY <1>1, <2>1, <2>2, <2>9, HaltStepInv DEF Perform
    <2>5. CASE todo[1][1] = "alloc"
      BY <1>1, <2>1, <2>2, <2>5, AllocStepInv DEF Perform
    <2>6. CASE todo[1][1] = "enable"
      BY <1>1, <2>1, <2>2, <2>6, EnableStepInv DEF Perform
    <2>7. CASE todo[1][1] = "disable"
      BY <1>1, <2>1, <2>2, <2>7, DisableStepInv DEF Perform
    <2>8. CASE todo[1][1] \in {"conf0", "conf1", "ctrl"}
      BY <1>1, <2>1, <2>2, <2>8, ConfStepInv DEF Perform
    <2> QED  BY <2>2, <2>3, <2>4, <2>5, <2>6, <2>7, <2>8, <2>9
  <1> QED  BY <1>2, <1>3

--------------------------------------------------------------------------------
(* The theorems.                                                                *)

LEMMA InitInv == Init => IInv
  <1> SUFFICES ASSUME Init PROVE IInv
    OBVIOUS
  <1>1. << >> \in Seq(Steps) /\ 0 \in 0 .. Packet /\ 0 \in 0 .. RingCap
    BY PacketAssumption, RingCapAssumption
  <1>2. TypeOK
    BY <1>1 DEF Init, TypeOK
  <1>3. Plan(todo)
    BY DEF Init, Plan, Ordered, AbortInv, HaltedInv, Conf0Inv, AllocInv
  <1>4. EpInv /\ OpenHasJob /\ StaleEventsSleep /\ SleepLockBalanced
    BY DEF Init, EpInv, ConfInv, PendInv, HaltInv, AgainInv, OpenHasJob, StaleEventsSleep, Open,
           SleepLockBalanced
  <1> QED  BY <1>2, <1>3, <1>4 DEF IInv

LEMMA StutterInv == ASSUME IInv, UNCHANGED vars PROVE IInv'
  <1> USE DEF vars, epVars, busVars, outVars, inVars, midiVars
  <1>1. Plan(todo)'
    BY SamePlan DEF IInv
  <1>2. TypeOK' /\ SleepLockBalanced'
    BY DEF IInv, TypeOK, SleepLockBalanced
  <1>3. EpInv' /\ OpenHasJob' /\ StaleEventsSleep'
    BY DEF IInv, EpInv, ConfInv, PendInv, HaltInv, AgainInv, OpenHasJob, StaleEventsSleep, Open, Later,
           Coming
  <1> QED  BY <1>1, <1>2, <1>3 DEF IInv

LEMMA NextInv == IInv /\ [Next]_vars => IInv'
  <1> SUFFICES ASSUME IInv, [Next]_vars PROVE IInv'
    OBVIOUS
  <1>1. CASE Step
    BY <1>1, StepInv
  <1>2. CASE BusReset \/ Menu \/ UdcStop \/ UdcStart
    BY <1>2, BusResetInv, MenuInv, UdcStopInv, UdcStartInv
  <1>3. ASSUME NEW c \in {0, 1}, SetConfiguration(c) PROVE IInv'
    BY <1>3, SetConfigurationInv
  <1>4. ASSUME NEW exists \in BOOLEAN, SetInterface(exists) PROVE IInv'
    BY <1>4, SetInterfaceInv
  <1>5. ASSUME NEW e \in Eps, SetHalt(e) \/ ClearHalt(e) PROVE IInv'
    BY <1>5, SetHaltInv, ClearHaltInv
  <1>6. ASSUME NEW e \in Eps, NEW n \in 1 .. Packet, Host(e, n) PROVE IInv'
    BY <1>6, HostInv
  <1>7. CASE OutComplete \/ InComplete
    BY <1>7, OutCompleteInv, InCompleteInv
  <1>8. CASE RxEvent \/ DreSend \/ DreOff
    BY <1>8, RxEventInv, DreSendInv, DreOffInv
  <1>9. CASE UNCHANGED vars
    BY <1>9, StutterInv
  <1> QED  BY <1>1, <1>2, <1>3, <1>4, <1>5, <1>6, <1>7, <1>8, <1>9 DEF Next

LEMMA Invariance == Spec => []IInv
  BY InitInv, NextInv, PTL DEF Spec

\* The state keeps its types, and the handlers their steps, whatever the size of a packet
\* and of the ring (udi_midi.c, usb_device.c).
THEOREM TypeCorrect == Spec => []TypeOK
  <1>1. IInv => TypeOK
    BY DEF IInv
  <1> QED  BY <1>1, Invariance, PTL

\* No packet arrives that nobody asked for: an endpoint that is open to the host has a job,
\* whatever resets, configurations, halts and menu calls went before (usb_device.c:567-750).
THEOREM NoUnaskedPacket == Spec => []OpenHasJob
  <1>1. IInv => OpenHasJob
    BY DEF IInv
  <1> QED  BY <1>1, Invariance, PTL

\* No level reads the receive buffer while the host may write it: events that an earlier
\* configuration left in it are never resumed under a new job (main.cpp:584).
THEOREM BufferHasOneOwner == Spec => []StaleEventsSleep
  <1>1. IInv => StaleEventsSleep
    BY DEF IInv
  <1> QED  BY <1>1, Invariance, PTL

\* The sleep mode is locked exactly while the interface is disabled, in whatever order it
\* is enabled and disabled (main.cpp:577, 613).
THEOREM SleepLockedOnce == Spec => []SleepLockBalanced
  <1>1. IInv => SleepLockBalanced
    BY DEF IInv
  <1> QED  BY <1>1, Invariance, PTL

\* What a step does with usb_send_busy and the job of IN.
Kept ==
    \/ UNCHANGED sending /\ job'["IN"] = job["IN"]
    \/ sending' => job'["IN"]

LEMMA KeptByProcess ==
    ASSUME TypeOK, NEW n \in 0 .. Packet, NEW r \in 0 .. RingCap,
           NEW busy \in BOOLEAN, NEW nak \in BOOLEAN, Process(n, r, busy, nak)
    PROVE  job'["IN"] = job["IN"]
  <1>1. PICK again \in BOOLEAN : Job("OUT", again, busy, nak)
    BY ProcessFacts
  <1> QED  BY <1>1, JobFacts

LEMMA KeptBySent == ASSUME TypeOK, NEW nak \in BOOLEAN, Sent(nak) PROVE sending' => job'["IN"]
  <1>1. PICK again \in BOOLEAN : Job("IN", again, FALSE, nak) /\ sending' = again
    BY SentFacts
  <1>2. job'["IN"] = again
    BY <1>1, JobFacts
  <1> QED  BY <1>1, <1>2

LEMMA KeptByStep == ASSUME TypeOK, Step PROVE Kept
  <1> USE DEF epVars, inVars
  <1>1. CASE Fails(Head(todo))
    BY <1>1 DEF Step, Kept
  <1>2. CASE ~Fails(Head(todo))
    <2> DEFINE s == Head(todo)
    <2>1. Perform(s) /\ todo # << >> /\ todo \in Seq(Steps)
      BY <1>2 DEF Step, TypeOK
    <2>2. s \in Steps
      BY <2>1, TailFacts
    <2>3. CASE s[1] = "abort" /\ s[2] = "OUT"
      <3>1. Abort("OUT")
        BY <2>1, <2>3 DEF Perform
      <3>2. data["OUT"] \in 0 .. Packet /\ ring \in 0 .. RingCap
        BY DEF TypeOK
      <3>3. CASE ~job["OUT"]
        BY <3>1, <3>3 DEF Abort, Kept
      <3>4. CASE job["OUT"]
        BY <3>1, <3>2, <3>4, KeptByProcess DEF Abort, Kept
      <3> QED  BY <3>3, <3>4
    <2>4. CASE s[1] = "abort" /\ s[2] = "IN"
      <3>1. Abort("IN")
        BY <2>1, <2>4 DEF Perform
      <3>2. CASE ~job["IN"]
        BY <3>1, <3>2 DEF Abort, Kept
      <3>3. CASE job["IN"]
        BY <3>1, <3>3, KeptBySent DEF Abort, Kept
      <3> QED  BY <3>2, <3>3
    <2>5. CASE s[1] = "enable"
      <3>1. Job("OUT", Starts("OUT", job["OUT"]), job["OUT"], nack["OUT"]) /\ UNCHANGED sending
        BY <2>1, <2>5 DEF Perform, Enable
      <3>2. Starts("OUT", job["OUT"]) \in BOOLEAN /\ job["OUT"] \in BOOLEAN /\ nack["OUT"] \in BOOLEAN
        BY DEF Starts, TypeOK
      <3>3. job'["IN"] = job["IN"]
        BY <3>1, <3>2, JobFacts
      <3> QED  BY <3>1, <3>3 DEF Kept
    <2>6. CASE s[1] \in {"halt", "off", "alloc", "disable", "conf0", "conf1", "ctrl"}
      BY <2>1, <2>6 DEF Perform, Halt, Off, Alloc, Kept
    <2> QED  BY <2>2, <2>3, <2>4, <2>5, <2>6, StepKinds
  <1> QED  BY <1>1, <1>2

\* usb_send_busy is never left on without a transfer that ends it, but by udc_start, which
\* forgets the jobs without their callbacks (usb_device.c:458).
THEOREM SendBusyEnds == Spec => OnlyStartForgets
  <1> USE DEF epVars, inVars
  <1>1. ASSUME TypeOK, Next, ~UdcStart PROVE Kept
    <2>1. CASE Step
      BY <1>1, <2>1, KeptByStep
    <2>2. CASE BusReset \/ Menu \/ UdcStop \/ DreOff
      BY <2>2 DEF BusReset, Menu, UdcStop, DreOff, Handle, Kept
    <2>3. ASSUME NEW c \in {0, 1}, SetConfiguration(c) PROVE Kept
      BY <2>3 DEF SetConfiguration, Handle, Kept
    <2>4. ASSUME NEW exists \in BOOLEAN, SetInterface(exists) PROVE Kept
      BY <2>4 DEF SetInterface, Handle, Kept
    <2>5. ASSUME NEW e \in Eps, SetHalt(e) \/ ClearHalt(e) PROVE Kept
      BY <2>5 DEF SetHalt, ClearHalt, Handle, Kept
    <2>6. ASSUME NEW e \in Eps, NEW n \in 1 .. Packet, Host(e, n) PROVE Kept
      BY <2>6 DEF Host, Kept
    <2>7. CASE OutComplete
      <3>1. data["OUT"] \in 0 .. Packet /\ ring \in 0 .. RingCap /\ nack["OUT"] \in BOOLEAN
        BY <1>1 DEF TypeOK
      <3>2. CASE ~job["OUT"]
        BY <2>7, <3>2 DEF OutComplete, Kept
      <3>3. CASE job["OUT"]
        BY <1>1, <2>7, <3>1, <3>3, KeptByProcess DEF OutComplete, Kept
      <3> QED  BY <3>2, <3>3
    <2>8. CASE InComplete
      <3>1. nack["IN"] \in BOOLEAN
        BY <1>1 DEF TypeOK
      <3>2. CASE data["IN"] # 0 /\ job["IN"]
        BY <1>1, <2>8, <3>1, <3>2, KeptBySent DEF InComplete, Kept
      <3>3. CASE ~(data["IN"] # 0 /\ job["IN"])
        BY <2>8, <3>3 DEF InComplete, Kept
      <3> QED  BY <3>2, <3>3
    <2>9. CASE RxEvent
      <3> DEFINE again == Starts("IN", job["IN"])
      <3>1. CASE sending
        BY <2>9, <3>1 DEF RxEvent, Kept
      <3>2. CASE ~sending
        <4>1. sending' = again /\ Job("IN", again, job["IN"], nack["IN"])
          BY <2>9, <3>2 DEF RxEvent
        <4>2. again \in BOOLEAN /\ job["IN"] \in BOOLEAN /\ nack["IN"] \in BOOLEAN
          BY <1>1 DEF Starts, TypeOK
        <4> HIDE DEF again
        <4>3. job'["IN"] = (again \/ job["IN"])
          BY <1>1, <4>1, <4>2, JobFacts
        <4> QED  BY <4>1, <4>3 DEF Kept
      <3> QED  BY <3>1, <3>2
    <2>10. CASE DreSend
      <3>1. /\ job["OUT"] \in BOOLEAN /\ nack["OUT"] \in BOOLEAN /\ left \in 0 .. Packet
            /\ ring - 1 \in 0 .. RingCap
        BY <1>1, <2>10, RingCapAssumption DEF TypeOK, DreSend
      <3>2. CASE want /\ left > 0
        BY <1>1, <2>10, <3>1, <3>2, KeptByProcess DEF DreSend, Kept
      <3>3. CASE ~(want /\ left > 0)
        BY <2>10, <3>3 DEF DreSend, Kept
      <3> QED  BY <3>2, <3>3
    <2> QED  BY <1>1, <2>1, <2>2, <2>3, <2>4, <2>5, <2>6, <2>7, <2>8, <2>9, <2>10 DEF Next
  <1>2. TypeOK /\ [Next]_vars
           => [(sending => job["IN"]) /\ ~UdcStart => (sending' => job'["IN"])]_vars
    BY <1>1 DEF Kept
  <1>3. Spec => [][(sending => job["IN"]) /\ ~UdcStart => (sending' => job'["IN"])]_vars
    BY <1>2, TypeCorrect, PTL DEF Spec
  <1> QED  BY <1>3 DEF OnlyStartForgets

--------------------------------------------------------------------------------
(* Listens.  As long as nothing cut it off, OUT goes from one owner to the      *)
(* next: the host, the interrupt, a ring that is being drained.                 *)

\* What ends the use of OUT.
Ends == {<<"halt", "OUT">>, <<"off", "OUT">>, <<"disable", "all">>}

\* The endpoint of an alloc is off by then, so that none fails, and the interface is enabled
\* after it and not disabled any more.
SetsUp(s) ==
    \A i \in DOMAIN s :
        /\ s[i][1] = "alloc" => /\ ep[s[i][2]] = "off" \/ Before(s, i, <<"off", s[i][2]>>)
                                /\ ~Before(s, i, s[i])
                                /\ Later(s, i, <<"enable", "all">>)
                                /\ ~Later(s, i, <<"disable", "all">>)
        /\ s[i] = <<"enable", "all">> => \A t \in Ends : ~Later(s, i, t)

\* The end has an abort before it.
TearsDown(s) ==
    \A i \in DOMAIN s :
        s[i] \in Ends => ep["OUT"] = "off" \/ Before(s, i, <<"abort", "OUT">>)

\* Off the bus there is no configuration, or it is about to be dropped.
BusInv ==
    ~attached => /\ \A i \in DOMAIN todo : todo[i] # <<"conf1", "all">>
                 /\ conf = 0 \/ Later(todo, 0, <<"conf0", "all">>)

\* A job has an open endpoint or a complete transfer; events that are left and may be
\* resumed have no job; one or the other is there, unless the interface is about to be
\* enabled or an event that is never sent has come up; and a full ring is being drained.
OutRuns ==
    /\ job["OUT"] => ~nack["OUT"] \/ tc["OUT"]
    /\ left > 0 /\ dre => ~job["OUT"]
    /\ \/ Later(todo, 0, <<"enable", "all">>)
       \/ /\ \/ job["OUT"]
             \/ left > 0 /\ want /\ dre /\ ring = RingCap
             \/ left = 1 /\ odd
          /\ ring = RingCap => dre

OutInv ==
    /\ ep["OUT"] = "off" => ~job["OUT"]
    /\ ep["OUT"] # "halted"
    /\ ep["OUT"] = "on" => OutRuns

\* Nothing cut OUT or the UART off.
Uncut == cut \subseteq {"IN"}

ListenInv == SetsUp(todo) /\ BusInv /\ (Uncut => TearsDown(todo) /\ OutInv)

\* The steps of each handler, one by one.
LEMMA HandlersSetUp ==
    ASSUME TypeOK, ConfInv
    PROVE  /\ SetsUp(Reset) /\ TearsDown(Reset)
           /\ Later(Reset, 0, <<"conf0", "all">>)
           /\ \A i \in DOMAIN Reset : Reset[i] # <<"conf1", "all">>
           /\ SetsUp(Reset \o (OneStep("conf1") \o IfaceEnable))
           /\ TearsDown(Reset \o (OneStep("conf1") \o IfaceEnable))
           /\ SetsUp(<<<<"abort", "OUT">>, <<"abort", "IN">>>> \o Reset \o OneStep("ctrl"))
           /\ TearsDown(<<<<"abort", "OUT">>, <<"abort", "IN">>>> \o Reset \o OneStep("ctrl"))
           /\ SetsUp(IfaceDisable) /\ TearsDown(IfaceDisable)
           /\ SetsUp(IfaceDisable \o IfaceEnable) /\ TearsDown(IfaceDisable \o IfaceEnable)
  <1>1. conf \in {0, 1}
    BY DEF TypeOK
  <1>2. SetsUp(IfaceDisable) /\ TearsDown(IfaceDisable)
    BY DEF IfaceDisable, SetsUp, TearsDown, Ends, Later, Before
  <1>3. SetsUp(IfaceDisable \o IfaceEnable) /\ TearsDown(IfaceDisable \o IfaceEnable)
    <2> DEFINE v == <<<<"abort", "OUT">>, <<"off", "OUT">>, <<"abort", "IN">>,
                      <<"off", "IN">>, <<"disable", "all">>, <<"alloc", "OUT">>,
                      <<"alloc", "IN">>, <<"enable", "all">>>>
    <2>1. IfaceDisable \o IfaceEnable = v
      BY SettingSteps
    <2>2. SetsUp(v) /\ TearsDown(v)
      BY DEF SetsUp, TearsDown, Ends, Later, Before
    <2> HIDE DEF v
    <2> QED  BY <2>1, <2>2
  <1>4. CASE conf = 0
    <2>1. Reset = OneStep("conf0")
      BY <1>4 DEF Reset, OneStep
    <2>2. /\ SetsUp(Reset) /\ TearsDown(Reset)
          /\ Later(Reset, 0, <<"conf0", "all">>)
          /\ \A i \in DOMAIN Reset : Reset[i] # <<"conf1", "all">>
      BY <2>1 DEF OneStep, SetsUp, TearsDown, Ends, Later, Before
    <2>3. /\ SetsUp(Reset \o (OneStep("conf1") \o IfaceEnable))
          /\ TearsDown(Reset \o (OneStep("conf1") \o IfaceEnable))
      <3> DEFINE v == <<<<"conf0", "all">>, <<"conf1", "all">>, <<"alloc", "OUT">>,
                        <<"alloc", "IN">>, <<"enable", "all">>>>
      <3>1. Reset \o (OneStep("conf1") \o IfaceEnable) = v
        BY <2>1, EnableSteps, ConfigureSteps
      <3>2. SetsUp(v) /\ TearsDown(v)
        BY <1>4 DEF SetsUp, TearsDown, Ends, Later, Before, ConfInv
      <3> HIDE DEF v
      <3> QED  BY <3>1, <3>2
    <2>4. /\ SetsUp(<<<<"abort", "OUT">>, <<"abort", "IN">>>> \o Reset \o OneStep("ctrl"))
          /\ TearsDown(<<<<"abort", "OUT">>, <<"abort", "IN">>>> \o Reset \o OneStep("ctrl"))
      <3> DEFINE v == <<<<"abort", "OUT">>, <<"abort", "IN">>, <<"conf0", "all">>,
                        <<"ctrl", "all">>>>
      <3>1. <<<<"abort", "OUT">>, <<"abort", "IN">>>> \o Reset \o OneStep("ctrl") = v
        BY <2>1, IdleResetSteps, IdleBusResetSteps
      <3>2. SetsUp(v) /\ TearsDown(v)
        BY DEF SetsUp, TearsDown, Ends, Later, Before
      <3> HIDE DEF v
      <3> QED  BY <3>1, <3>2
    <2> QED  BY <1>2, <1>3, <2>2, <2>3, <2>4
  <1>5. CASE conf = 1
    <2>1. Reset = TearDown
      BY <1>5, ResetSteps
    <2>2. /\ SetsUp(Reset) /\ TearsDown(Reset)
          /\ Later(Reset, 0, <<"conf0", "all">>)
          /\ \A i \in DOMAIN Reset : Reset[i] # <<"conf1", "all">>
      BY <2>1 DEF TearDown, SetsUp, TearsDown, Ends, Later, Before
    <2>3. /\ SetsUp(Reset \o (OneStep("conf1") \o IfaceEnable))
          /\ TearsDown(Reset \o (OneStep("conf1") \o IfaceEnable))
      <3> DEFINE v == <<<<"abort", "OUT">>, <<"off", "OUT">>, <<"abort", "IN">>,
                        <<"off", "IN">>, <<"disable", "all">>, <<"conf0", "all">>,
                        <<"conf1", "all">>, <<"alloc", "OUT">>, <<"alloc", "IN">>,
                        <<"enable", "all">>>>
      <3>1. Reset \o (OneStep("conf1") \o IfaceEnable) = v
        BY <2>1, EnableSteps, ReconfigureSteps
      <3>2. SetsUp(v) /\ TearsDown(v)
        BY DEF SetsUp, TearsDown, Ends, Later, Before
      <3> HIDE DEF v
      <3> QED  BY <3>1, <3>2
    <2>4. /\ SetsUp(<<<<"abort", "OUT">>, <<"abort", "IN">>>> \o Reset \o OneStep("ctrl"))
          /\ TearsDown(<<<<"abort", "OUT">>, <<"abort", "IN">>>> \o Reset \o OneStep("ctrl"))
      <3> DEFINE v == <<<<"abort", "OUT">>, <<"abort", "IN">>, <<"abort", "OUT">>,
                        <<"off", "OUT">>, <<"abort", "IN">>, <<"off", "IN">>,
                        <<"disable", "all">>, <<"conf0", "all">>, <<"ctrl", "all">>>>
      <3>1. <<<<"abort", "OUT">>, <<"abort", "IN">>>> \o Reset \o OneStep("ctrl") = v
        BY <2>1, TearResetSteps, TearBusResetSteps
      <3>2. SetsUp(v) /\ TearsDown(v)
        BY DEF SetsUp, TearsDown, Ends, Later, Before
      <3> HIDE DEF v
      <3> QED  BY <3>1, <3>2
    <2> QED  BY <1>2, <1>3, <2>2, <2>3, <2>4
  <1> QED  BY <1>1, <1>4, <1>5

\* After a step that does what the handler says, the rest is in order.
LEMMA TailSetsUp ==
    ASSUME IInv, ListenInv, todo # << >>, todo' = Tail(todo),
           \A e \in Eps : /\ ep[e] = "off" => ep'[e] = "off" \/ todo[1] = <<"alloc", e>>
                          /\ todo[1] = <<"off", e>> => ep'[e] = "off",
           Uncut' => \/ Uncut /\ (todo[1] = <<"abort", "OUT">> => ep'["OUT"] = "off")
                     \/ todo[1] = <<"enable", "all">>
    PROVE  SetsUp(todo)' /\ (Uncut' => TearsDown(todo)')
  <1> DEFINE s == todo
             u == Tail(todo)
  <1> HIDE DEF Steps
  <1>1. /\ s \in Seq(Steps) /\ s # << >> /\ u = Tail(s) /\ todo' = u
        /\ Plan(s) /\ SetsUp(s)
    BY DEF IInv, TypeOK, ListenInv
  <1>2. /\ 1 \in DOMAIN s
        /\ \A i \in DOMAIN u : i \in Nat /\ i >= 1 /\ i + 1 \in DOMAIN s /\ u[i] = s[i + 1]
    BY <1>1, TailFacts
  <1>3. \A i \in Nat : \A t :
           /\ Later(u, i, t) <=> Later(s, i + 1, t)
           /\ i >= 1 => (Before(s, i + 1, t) => s[1] = t \/ Before(u, i, t))
    BY <1>1, LaterInTail
  <1>4. \A i \in DOMAIN u : \A t : Before(u, i, t) => Before(s, i + 1, t)
    BY <1>2 DEF Before
  <1>5. \A i \in DOMAIN u : u[i] \in Steps
    BY <1>1, <1>2, TailFacts
  <1>6. \A i \in DOMAIN u : Before(s, i + 1, s[1])
    BY <1>2 DEF Before
  <1> HIDE DEF s, u
  <1>7. SetsUp(todo)'
    <2>7. ASSUME NEW i \in DOMAIN u, u[i] = <<"enable", "all">>, NEW t \in Ends
          PROVE  ~Later(u, i, t)
      BY <1>1, <1>2, <1>3, <2>7 DEF SetsUp
    <2> SUFFICES ASSUME NEW i \in DOMAIN u, u[i][1] = "alloc"
                 PROVE  /\ ep'[u[i][2]] = "off" \/ Before(u, i, <<"off", u[i][2]>>)
                        /\ ~Before(u, i, u[i])
                        /\ Later(u, i, <<"enable", "all">>)
                        /\ ~Later(u, i, <<"disable", "all">>)
      <3>1. SetsUp(todo)' <=>
               \A i \in DOMAIN todo' :
                   /\ todo'[i][1] = "alloc" =>
                          /\ ep'[todo'[i][2]] = "off" \/ Before(todo', i, <<"off", todo'[i][2]>>)
                          /\ ~Before(todo', i, todo'[i])
                          /\ Later(todo', i, <<"enable", "all">>)
                          /\ ~Later(todo', i, <<"disable", "all">>)
                   /\ todo'[i] = <<"enable", "all">> => \A t \in Ends : ~Later(todo', i, t)
        BY DEF SetsUp, Later, Before, Ends
      <3> QED  BY <1>1, <2>7, <3>1
    <2> DEFINE e == u[i][2]
    <2>1. e \in Eps /\ u[i] = <<"alloc", e>>
      BY <1>5, StepKinds
    <2>2. s[i + 1] = u[i] /\ i + 1 \in DOMAIN s /\ i \in Nat /\ i >= 1
      BY <1>2
    <2>3. /\ ep[e] = "off" \/ Before(s, i + 1, <<"off", e>>)
          /\ ~Before(s, i + 1, u[i])
          /\ Later(s, i + 1, <<"enable", "all">>)
          /\ ~Later(s, i + 1, <<"disable", "all">>)
      BY <1>1, <2>2 DEF SetsUp
    <2>4. s[1] # u[i]
      BY <1>6, <2>3
    <2> HIDE DEF e
    <2>5. ep'[e] = "off" \/ Before(u, i, <<"off", e>>)
      BY <1>3, <2>1, <2>2, <2>3, <2>4 DEF s
    <2>6. ~Before(u, i, u[i])
      BY <1>4, <2>3
    <2> QED  BY <1>3, <2>2, <2>3, <2>5, <2>6 DEF e
  <1>8. ASSUME Uncut' PROVE TearsDown(todo)'
    <2> SUFFICES ASSUME NEW i \in DOMAIN u, u[i] \in Ends
                 PROVE  ep'["OUT"] = "off" \/ Before(u, i, <<"abort", "OUT">>)
      <3>1. TearsDown(todo)' <=>
               \A i \in DOMAIN todo' : todo'[i] \in Ends =>
                   ep'["OUT"] = "off" \/ Before(todo', i, <<"abort", "OUT">>)
        BY DEF TearsDown, Before, Ends
      <3> QED  BY <1>1, <3>1
    <2>1. s[i + 1] = u[i] /\ i + 1 \in DOMAIN s /\ 1 < i + 1 /\ i \in Nat /\ i >= 1
      BY <1>2
    <2>5. s[1] # <<"enable", "all">>
      <3> SUFFICES ASSUME s[1] = <<"enable", "all">> PROVE FALSE
        OBVIOUS
      <3>1. ~Later(s, 1, u[i])
        BY <1>1, <1>2 DEF SetsUp
      <3> QED  BY <2>1, <3>1 DEF Later
    <2>2. TearsDown(s) /\ (s[1] = <<"abort", "OUT">> => ep'["OUT"] = "off")
      BY <1>8, <2>5 DEF ListenInv, s
    <2>3. ep["OUT"] = "off" \/ Before(s, i + 1, <<"abort", "OUT">>)
      BY <2>1, <2>2 DEF TearsDown
    <2>4. s[1] # <<"alloc", "OUT">>
      <3> SUFFICES ASSUME s[1] = <<"alloc", "OUT">> PROVE FALSE
        OBVIOUS
      <3>1. s[1][1] = "alloc"
        OBVIOUS
      <3>2. s[i + 1][1] \notin {"off", "halt"}
        BY <1>1, <1>2, <2>1, <3>1 DEF Plan, Ordered
      <3>3. ~Later(s, 1, <<"disable", "all">>)
        BY <1>1, <1>2, <3>1 DEF SetsUp
      <3>4. s[i + 1] # <<"disable", "all">>
        BY <2>1, <3>3 DEF Later
      <3> QED  BY <2>1, <3>2, <3>4 DEF Ends
    <2> QED  BY <1>3, <2>1, <2>2, <2>3, <2>4 DEF s
  <1> QED  BY <1>7, <1>8

\* No endpoint is allocated that is enabled: no handler fails half-way.
LEMMA NoneFails == ASSUME IInv, ListenInv, todo # << >> PROVE ~Fails(Head(todo))
  <1> HIDE DEF Steps
  <1>1. /\ Head(todo) = todo[1] /\ 1 \in DOMAIN todo
        /\ \A j \in DOMAIN todo : j \in Nat /\ j >= 1
    BY TailFacts DEF IInv, TypeOK
  <1>2. ~Before(todo, 1, <<"off", todo[1][2]>>)
    BY <1>1 DEF Before
  <1> QED  BY <1>1, <1>2 DEF ListenInv, SetsUp, Fails

\* A step that keeps what OUT has, and what is still to come for it.
LEMMA SameOut ==
    ASSUME OutInv, UNCHANGED outVars,
           ep'["OUT"] = ep["OUT"], job'["OUT"] = job["OUT"],
           nack'["OUT"] = nack["OUT"], tc'["OUT"] = tc["OUT"],
           Later(todo, 0, <<"enable", "all">>) => Later(todo, 0, <<"enable", "all">>)'
    PROVE  OutInv'
  BY DEF OutInv, OutRuns, outVars

\* A step that changes neither endpoints nor steps.
LEMMA SameListen ==
    ASSUME ListenInv, UNCHANGED <<todo, ep, attached, conf, cut>>, OutInv => OutInv'
    PROVE  ListenInv'
  BY DEF ListenInv, Uncut, Ends, SetsUp, TearsDown, BusInv, Later, Before

\* What usb_recv_process leaves behind: the endpoint armed, or a full ring to wait for.
LEMMA ProcessLeaves ==
    ASSUME TypeOK, NEW n \in 0 .. Packet, NEW r \in 0 .. RingCap,
           NEW busy \in BOOLEAN, ~busy, NEW nak \in BOOLEAN, Process(n, r, busy, nak)
    PROVE  \E again \in BOOLEAN :
               /\ job'["OUT"] = again /\ nack'["OUT"] = (nak /\ ~again)
               /\ again => left' = 0 /\ ep["OUT"] = "on"
               /\ ep["OUT"] = "on" /\ ~again
                      => (left' > 0 /\ want' /\ ring' = RingCap) \/ (left' = 1 /\ odd')
               /\ ring' = RingCap => dre' \/ r = RingCap
               /\ dre => dre'
  <1> DEFINE m == Sendable(n)
             k == IF m <= RingCap - r THEN m ELSE RingCap - r
             again == k = n /\ Starts("OUT", busy)
  <1>1. /\ left' = n - k /\ ring' = r + k
        /\ dre' = (dre \/ k > 0) /\ want' = (k < m \/ (want /\ k = 0))
        /\ Job("OUT", again, busy, nak) /\ odd' = odd
    BY DEF Process
  <1>0. m \in 0 .. n /\ (m # n => m = n - 1 /\ odd)
    BY PacketAssumption DEF Sendable
  <1> HIDE DEF m
  <1>2. k \in 0 .. n /\ k <= m /\ k <= RingCap - r /\ (k # m => k = RingCap - r)
    BY <1>0, RingCapAssumption
  <1>3. again \in BOOLEAN /\ (again => k = n /\ ep["OUT"] = "on")
        /\ (ep["OUT"] = "on" /\ ~again => k # n)
    BY DEF Starts
  <1> HIDE DEF k, again
  <1>4. job'["OUT"] = again /\ nack'["OUT"] = (nak /\ ~again)
    BY <1>1, <1>3, JobFacts
  <1>5. again => left' = 0 /\ ep["OUT"] = "on"
    BY <1>1, <1>2, <1>3
  <1>6. ASSUME ep["OUT"] = "on", ~again
        PROVE  (left' > 0 /\ want' /\ ring' = RingCap) \/ (left' = 1 /\ odd')
    <2>1. k # n
      BY <1>3, <1>6
    <2>2. CASE k # m
      <3>1. k < m /\ k < n /\ r + k = RingCap
        BY <1>0, <1>2, <2>2, RingCapAssumption
      <3>2. left' > 0 /\ ring' = RingCap
        BY <1>1, <1>2, <3>1
      <3>3. want'
        BY <1>1, <3>1
      <3> QED  BY <3>2, <3>3
    <2>3. CASE k = m
      <3>1. n - k = 1 /\ odd
        BY <1>0, <2>1, <2>3
      <3> QED  BY <1>1, <3>1
    <2> QED  BY <2>2, <2>3
  <1>7. dre => dre'
    BY <1>1
  <1>8. ASSUME ring' = RingCap, r # RingCap PROVE dre'
    <2>1. k > 0
      BY <1>1, <1>2, <1>8, RingCapAssumption
    <2> QED  BY <1>1, <2>1
  <1> QED  BY <1>3, <1>4, <1>5, <1>6, <1>7, <1>8

\* The traffic.
LEMMA HostListen == ASSUME IInv, ListenInv, NEW e \in Eps, NEW n \in 1 .. Packet, Host(e, n) PROVE ListenInv'
  <1>1. /\ nack' = [nack EXCEPT ![e] = TRUE] /\ tc' = [tc EXCEPT ![e] = TRUE]
        /\ UNCHANGED <<ep, job, attached, conf, left, ring, want, dre, todo, cut>>
        /\ e # "OUT" => odd' = odd
        /\ e = "OUT" => job["OUT"]
    BY DEF Host, busVars, IInv, OpenHasJob
  <1>2. /\ nack'["OUT"] = (e = "OUT" \/ nack["OUT"]) /\ tc'["OUT"] = (e = "OUT" \/ tc["OUT"])
    BY <1>1 DEF IInv, TypeOK
  <1>3. OutInv => OutInv'
    BY <1>1, <1>2 DEF OutInv, OutRuns, Later
  <1> QED  BY <1>1, <1>3, SameListen

LEMMA OutCompleteListen == ASSUME IInv, ListenInv, OutComplete PROVE ListenInv'
  <1>1. /\ todo = << >> /\ tc' = [tc EXCEPT !["OUT"] = FALSE]
        /\ UNCHANGED <<ep, attached, conf, todo, cut>>
    BY DEF OutComplete, busVars
  <1>2. \A t : ~Later(todo, 0, t) /\ ~Later(todo, 0, t)'
    BY <1>1 DEF Later
  <1>3. CASE ~job["OUT"]
    <2>1. UNCHANGED <<job, nack, left, odd, ring, want, dre>>
      BY <1>3 DEF OutComplete, outVars
    <2>2. OutInv => OutInv'
      BY <1>1, <1>2, <1>3, <2>1 DEF OutInv, OutRuns
    <2> QED  BY <1>1, <2>2, SameListen
  <1>4. CASE job["OUT"]
    <2>1. /\ data["OUT"] \in 0 .. Packet /\ ring \in 0 .. RingCap
          /\ nack["OUT"] \in BOOLEAN /\ TypeOK
      BY DEF IInv, TypeOK
    <2>2. Process(data["OUT"], ring, FALSE, nack["OUT"])
      BY <1>4 DEF OutComplete
    <2>3. PICK again \in BOOLEAN :
               /\ job'["OUT"] = again /\ nack'["OUT"] = (nack["OUT"] /\ ~again)
               /\ again => left' = 0 /\ ep["OUT"] = "on"
               /\ ep["OUT"] = "on" /\ ~again
                      => (left' > 0 /\ want' /\ ring' = RingCap) \/ (left' = 1 /\ odd')
               /\ ring' = RingCap => dre' \/ ring = RingCap
               /\ dre => dre'
      <3> DEFINE busy == FALSE
                 nak == nack["OUT"]
      <3>1. busy \in BOOLEAN /\ ~busy /\ nak \in BOOLEAN /\ Process(data["OUT"], ring, busy, nak)
        BY <2>1, <2>2
      <3> HIDE DEF busy, nak
      <3>2. \E again \in BOOLEAN :
               /\ job'["OUT"] = again /\ nack'["OUT"] = (nak /\ ~again)
               /\ again => left' = 0 /\ ep["OUT"] = "on"
               /\ ep["OUT"] = "on" /\ ~again
                      => (left' > 0 /\ want' /\ ring' = RingCap) \/ (left' = 1 /\ odd')
               /\ ring' = RingCap => dre' \/ ring = RingCap
               /\ dre => dre'
        BY <2>1, <3>1, ProcessLeaves
      <3> QED  BY <3>2 DEF nak
    <2>4. ASSUME OutInv, ep["OUT"] = "on" PROVE OutRuns'
      <3>1. ring = RingCap => dre
        BY <1>2, <2>4 DEF OutInv, OutRuns
      <3>2. ring' = RingCap => dre'
        BY <2>3, <3>1
      <3>3. again => ~(left' > 0)
        BY <2>3
      <3> QED  BY <2>3, <2>4, <3>2, <3>3 DEF OutRuns
    <2>5. OutInv => OutInv'
      BY <1>1, <1>2, <1>4, <2>4 DEF OutInv
    <2> QED  BY <1>1, <2>5, SameListen
  <1> QED  BY <1>3, <1>4

LEMMA InCompleteListen == ASSUME IInv, ListenInv, InComplete PROVE ListenInv'
  <1>1. /\ tc' = [tc EXCEPT !["IN"] = FALSE]
        /\ UNCHANGED <<ep, attached, conf, todo, cut>> /\ UNCHANGED outVars
    BY DEF InComplete, busVars
  <1>2. tc'["OUT"] = tc["OUT"] /\ TypeOK /\ nack["IN"] \in BOOLEAN
    BY <1>1 DEF IInv, TypeOK
  <1>3. job'["OUT"] = job["OUT"] /\ nack'["OUT"] = nack["OUT"]
    <2>1. CASE data["IN"] # 0 /\ job["IN"]
      <3>1. PICK again \in BOOLEAN : Job("IN", again, FALSE, nack["IN"])
        BY <1>2, <2>1, SentFacts DEF InComplete
      <3> QED  BY <1>2, <3>1, JobFacts
    <2>2. CASE ~(data["IN"] # 0 /\ job["IN"])
      BY <1>2, <2>2 DEF InComplete, TypeOK
    <2> QED  BY <2>1, <2>2
  <1>4. OutInv => OutInv'
    BY <1>1, <1>2, <1>3, SameOut DEF Later
  <1> QED  BY <1>1, <1>4, SameListen

LEMMA RxEventListen == ASSUME IInv, ListenInv, RxEvent PROVE ListenInv'
  <1>1. UNCHANGED <<ep, tc, attached, conf, todo, cut>> /\ UNCHANGED outVars
    BY DEF RxEvent, busVars
  <1>2. job'["OUT"] = job["OUT"] /\ nack'["OUT"] = nack["OUT"]
    <2>1. CASE sending
      BY <2>1 DEF RxEvent
    <2>2. CASE ~sending
      <3> DEFINE again == Starts("IN", job["IN"])
      <3>1. Job("IN", again, job["IN"], nack["IN"])
        BY <2>2 DEF RxEvent
      <3>2. again \in BOOLEAN /\ job["IN"] \in BOOLEAN /\ nack["IN"] \in BOOLEAN /\ TypeOK
        BY DEF Starts, IInv, TypeOK
      <3> HIDE DEF again
      <3> QED  BY <3>1, <3>2, JobFacts
    <2> QED  BY <2>1, <2>2
  <1>3. OutInv => OutInv'
    BY <1>1, <1>2, SameOut DEF Later
  <1> QED  BY <1>1, <1>3, SameListen

LEMMA DreSendListen == ASSUME IInv, ListenInv, DreSend PROVE ListenInv'
  <1>1. /\ dre /\ ring > 0 /\ UNCHANGED <<ep, tc, attached, conf, todo, cut>>
    BY DEF DreSend, busVars
  <1>2. ring - 1 \in 0 .. RingCap /\ ring - 1 # RingCap
    BY <1>1, RingCapAssumption DEF IInv, TypeOK
  <1>3. \A t : Later(todo, 0, t)' <=> Later(todo, 0, t)
    BY <1>1 DEF Later
  <1>4. CASE want /\ left > 0
    <2>1. /\ nack["OUT"] \in BOOLEAN /\ left \in 0 .. Packet /\ TypeOK
          /\ job["OUT"] \in BOOLEAN
      BY DEF IInv, TypeOK
    <2>2. Process(left, ring - 1, job["OUT"], nack["OUT"])
      BY <1>4 DEF DreSend
    <2>3. ASSUME OutInv, ~job["OUT"] PROVE OutInv'
      <3>2. PICK again \in BOOLEAN :
               /\ job'["OUT"] = again /\ nack'["OUT"] = (nack["OUT"] /\ ~again)
               /\ again => left' = 0 /\ ep["OUT"] = "on"
               /\ ep["OUT"] = "on" /\ ~again
                      => (left' > 0 /\ want' /\ ring' = RingCap) \/ (left' = 1 /\ odd')
               /\ ring' = RingCap => dre' \/ ring - 1 = RingCap
               /\ dre => dre'
        BY <1>2, <2>1, <2>2, <2>3, ProcessLeaves
      <3>3. again => ~(left' > 0)
        BY <3>2
      <3> QED  BY <1>1, <1>3, <2>3, <3>2, <3>3 DEF OutInv, OutRuns
    <2>4. ASSUME OutInv, job["OUT"] PROVE OutInv'
      <3>1. ep["OUT"] # "on" /\ ep["OUT"] # "off" /\ ep["OUT"] \in {"off", "on", "halted"}
        BY <1>1, <1>4, <2>4 DEF OutInv, OutRuns, IInv, TypeOK
      <3> QED  BY <1>1, <1>3, <2>4, <3>1 DEF OutInv
    <2> QED  BY <1>1, <2>3, <2>4, SameListen
  <1>5. CASE ~(want /\ left > 0)
    <2>1. ring' = ring - 1 /\ UNCHANGED <<left, odd, want, dre, nack, data, job>>
      BY <1>5 DEF DreSend
    <2>2. ring' # RingCap
      BY <1>2, <2>1
    <2>3. OutInv => OutInv'
      BY <1>1, <1>3, <1>5, <2>1, <2>2 DEF OutInv, OutRuns
    <2> QED  BY <1>1, <2>3, SameListen
  <1> QED  BY <1>4, <1>5

LEMMA DreOffListen == ASSUME IInv, ListenInv, DreOff PROVE ListenInv'
  <1>1. /\ ring = 0 /\ dre' = FALSE
        /\ UNCHANGED <<left, odd, ring, want, ep, nack, tc, job, attached, conf, todo, cut>>
    BY DEF DreOff, epVars, busVars
  <1>2. ring # RingCap
    BY <1>1, RingCapAssumption
  <1>3. \A t : Later(todo, 0, t)' <=> Later(todo, 0, t)
    BY <1>1 DEF Later
  <1>4. OutInv => OutInv'
    BY <1>1, <1>2, <1>3 DEF OutInv, OutRuns
  <1> QED  BY <1>1, <1>4, SameListen

\* A handler begins.
LEMMA HandleListen ==
    ASSUME ListenInv, NEW s \in Seq(Steps), SetsUp(s), TearsDown(s), todo = << >>, todo' = s,
           UNCHANGED <<epVars, outVars, conf, cut>>,
           \/ attached' \in BOOLEAN /\ attached'
           \/ /\ \A i \in DOMAIN s : s[i] # <<"conf1", "all">>
              /\ conf = 0 \/ Later(s, 0, <<"conf0", "all">>)
    PROVE  ListenInv'
  <1> USE DEF epVars
  <1>1. \A t : ~Later(todo, 0, t)
    BY DEF Later
  <1>2. OutInv => OutInv'
    BY <1>1, SameOut
  <1>3. SetsUp(todo)' /\ TearsDown(todo)'
    BY DEF SetsUp, TearsDown, Ends, Later, Before
  <1>4. BusInv'
    BY DEF BusInv, Later
  <1> QED  BY <1>2, <1>3, <1>4 DEF ListenInv, Uncut

LEMMA BusResetListen == ASSUME IInv, ListenInv, BusReset PROVE ListenInv'
  <1> DEFINE s == <<<<"abort", "OUT">>, <<"abort", "IN">>>> \o Reset \o OneStep("ctrl")
  <1>1. s \in Seq(Steps) /\ SetsUp(s) /\ TearsDown(s)
    BY Plans, HandlersSetUp DEF IInv, EpInv
  <1>2. todo = << >> /\ todo' = s
    BY DEF BusReset, Handle, OneStep
  <1>3. UNCHANGED <<epVars, outVars, conf, cut>> /\ attached' \in BOOLEAN /\ attached'
    BY DEF BusReset, Handle, busVars, IInv, TypeOK
  <1> HIDE DEF s
  <1> QED  BY <1>1, <1>2, <1>3, HandleListen

LEMMA SetConfigurationListen ==
    ASSUME IInv, ListenInv, NEW c \in {0, 1}, SetConfiguration(c) PROVE ListenInv'
  <1>1. /\ UNCHANGED <<epVars, outVars, conf, cut>> /\ attached' \in BOOLEAN /\ attached'
        /\ todo = << >>
    BY DEF SetConfiguration, Request, Handle, busVars, IInv, TypeOK
  <1>2. CASE c = 0
    <2> DEFINE s == Reset
    <2>1. s \in Seq(Steps) /\ SetsUp(s) /\ TearsDown(s)
      BY Plans, HandlersSetUp DEF IInv, EpInv
    <2>2. todo' = s
      <3>1. todo' = Reset \o << >>
        BY <1>2 DEF SetConfiguration, Handle
      <3> HIDE DEF Steps
      <3>2. s \o << >> = s
        BY <2>1
      <3> QED  BY <3>1, <3>2
    <2> HIDE DEF s
    <2> QED  BY <1>1, <2>1, <2>2, HandleListen
  <1>3. CASE c = 1
    <2> DEFINE s == Reset \o (OneStep("conf1") \o IfaceEnable)
    <2>1. s \in Seq(Steps) /\ SetsUp(s) /\ TearsDown(s)
      BY Plans, HandlersSetUp DEF IInv, EpInv
    <2>2. todo' = s
      BY <1>3 DEF SetConfiguration, Handle, OneStep
    <2> HIDE DEF s
    <2> QED  BY <1>1, <2>1, <2>2, HandleListen
  <1> QED  BY <1>2, <1>3

LEMMA SetInterfaceListen ==
    ASSUME IInv, ListenInv, NEW exists \in BOOLEAN, SetInterface(exists) PROVE ListenInv'
  <1>1. /\ UNCHANGED <<epVars, outVars, conf, cut>> /\ attached' \in BOOLEAN /\ attached'
        /\ todo = << >>
    BY DEF SetInterface, Request, Handle, busVars, IInv, TypeOK
  <1>2. CASE exists
    <2> DEFINE s == IfaceDisable \o IfaceEnable
    <2>1. s \in Seq(Steps) /\ SetsUp(s) /\ TearsDown(s)
      BY Plans, HandlersSetUp DEF IInv, EpInv
    <2>2. todo' = s
      BY <1>2 DEF SetInterface, Handle
    <2> HIDE DEF s
    <2> QED  BY <1>1, <2>1, <2>2, HandleListen
  <1>3. CASE ~exists
    <2> DEFINE s == IfaceDisable
    <2>1. s \in Seq(Steps) /\ SetsUp(s) /\ TearsDown(s)
      BY Plans, HandlersSetUp DEF IInv, EpInv
    <2>2. todo' = s
      <3>1. todo' = IfaceDisable \o << >>
        BY <1>3 DEF SetInterface, Handle
      <3> HIDE DEF Steps
      <3>2. s \o << >> = s
        BY <2>1
      <3> QED  BY <3>1, <3>2
    <2> HIDE DEF s
    <2> QED  BY <1>1, <2>1, <2>2, HandleListen
  <1> QED  BY <1>2, <1>3

LEMMA UdcStopListen == ASSUME IInv, ListenInv, UdcStop PROVE ListenInv'
  <1> DEFINE s == Reset
  <1>1. /\ s \in Seq(Steps) /\ SetsUp(s) /\ TearsDown(s) /\ Later(s, 0, <<"conf0", "all">>)
        /\ \A i \in DOMAIN s : s[i] # <<"conf1", "all">>
    BY Plans, HandlersSetUp DEF IInv, EpInv
  <1>2. todo = << >> /\ todo' = s /\ UNCHANGED <<epVars, outVars, conf, cut>>
    BY DEF UdcStop, Handle
  <1> HIDE DEF s
  <1> QED  BY <1>1, <1>2, HandleListen

LEMMA MenuListen == ASSUME IInv, ListenInv, Menu PROVE ListenInv'
  <1>1. UNCHANGED <<epVars, attached, conf, todo, cut>> /\ UNCHANGED outVars
    BY DEF Menu, busVars
  <1>2. OutInv => OutInv'
    BY <1>1, SameOut DEF Later, epVars
  <1> QED  BY <1>1, <1>2, SameListen DEF epVars

LEMMA UdcStartListen == ASSUME IInv, ListenInv, UdcStart PROVE ListenInv'
  <1>1. /\ todo' = << >> /\ attached' = TRUE
        /\ ep'["OUT"] = "off" /\ job'["OUT"] = FALSE
    BY DEF UdcStart
  <1>2. SetsUp(todo)' /\ TearsDown(todo)' /\ BusInv' /\ OutInv'
    BY <1>1 DEF SetsUp, TearsDown, BusInv, OutInv, OutRuns
  <1> QED  BY <1>2 DEF ListenInv

LEMMA SetHaltListen == ASSUME IInv, ListenInv, NEW e \in Eps, SetHalt(e) PROVE ListenInv'
  <1> DEFINE s == <<<<"abort", e>>, <<"halt", e>>, <<"abort", e>>>>
  <1>1. s \in Seq(Steps)
    BY DEF Steps
  <1>2. SetsUp(s) /\ TearsDown(s)
    <2>1. /\ DOMAIN s = {1, 2, 3}
          /\ s[1] = <<"abort", e>> /\ s[2] = <<"halt", e>> /\ s[3] = <<"abort", e>>
      OBVIOUS
    <2> HIDE DEF s
    <2> QED  BY <2>1 DEF SetsUp, TearsDown, Ends, Before
  <1>3. todo = << >> /\ todo' = s
    BY DEF SetHalt, Handle
  <1>4. UNCHANGED <<epVars, outVars, conf, cut>> /\ attached' \in BOOLEAN /\ attached'
    BY DEF SetHalt, Request, Handle, busVars, IInv, TypeOK
  <1> HIDE DEF s
  <1> QED  BY <1>1, <1>2, <1>3, <1>4, HandleListen

LEMMA ClearHaltListen == ASSUME IInv, ListenInv, NEW e \in Eps, ClearHalt(e) PROVE ListenInv'
  <1>1. /\ attached /\ todo = << >> /\ todo' = << >>
        /\ ep[e] = "halted" /\ ep' = [ep EXCEPT ![e] = "on"]
        /\ UNCHANGED <<nack, tc, job, attached, cut>> /\ UNCHANGED outVars
    BY DEF ClearHalt, Request, busVars
  <1>2. \A t : ~Later(todo, 0, t)
    BY <1>1 DEF Later
  <1>3. SetsUp(todo)' /\ TearsDown(todo)' /\ BusInv'
    BY <1>1 DEF SetsUp, TearsDown, BusInv
  <1>4. OutInv => OutInv'
    <2>1. CASE e = "OUT"
      BY <1>1, <1>2, <2>1 DEF OutInv
    <2>2. CASE e = "IN"
      <3>1. ep'["OUT"] = ep["OUT"]
        BY <1>1, <2>2 DEF IInv, TypeOK
      <3> QED  BY <1>1, <1>2, <3>1, SameOut
    <2> QED  BY <2>1, <2>2
  <1> QED  BY <1>1, <1>3, <1>4 DEF ListenInv, Uncut

\* The steps of the handlers.
LEMMA TailListen ==
    ASSUME IInv, ListenInv, todo # << >>, todo' = Tail(todo), UNCHANGED attached,
           \A e \in Eps : /\ ep[e] = "off" => ep'[e] = "off" \/ todo[1] = <<"alloc", e>>
                          /\ todo[1] = <<"off", e>> => ep'[e] = "off",
           Uncut' => \/ Uncut /\ (todo[1] = <<"abort", "OUT">> => ep'["OUT"] = "off")
                     \/ todo[1] = <<"enable", "all">>,
           \/ conf' = conf /\ todo[1] # <<"conf0", "all">>
           \/ conf' = 0
           \/ todo[1] = <<"conf1", "all">>,
           Uncut' => OutInv'
    PROVE  ListenInv'
  <1> HIDE DEF Steps
  <1>1. SetsUp(todo)' /\ (Uncut' => TearsDown(todo)')
    BY TailSetsUp
  <1>2. /\ 1 \in DOMAIN todo
        /\ \A i \in DOMAIN todo' : i + 1 \in DOMAIN todo /\ todo'[i] = todo[i + 1]
    BY TailFacts DEF IInv, TypeOK
  <1>3. Later(todo, 0, <<"conf0", "all">>)
            => todo[1] = <<"conf0", "all">> \/ Later(todo, 0, <<"conf0", "all">>)'
    BY NextSteps
  <1>4. BusInv'
    <2> SUFFICES ASSUME ~attached
                 PROVE  /\ \A i \in DOMAIN todo' : todo'[i] # <<"conf1", "all">>
                        /\ conf' = 0 \/ Later(todo, 0, <<"conf0", "all">>)'
      BY DEF BusInv
    <2>1. /\ \A i \in DOMAIN todo : todo[i] # <<"conf1", "all">>
          /\ conf = 0 \/ Later(todo, 0, <<"conf0", "all">>)
      BY DEF ListenInv, BusInv
    <2>2. todo[1] # <<"conf1", "all">>
      BY <1>2, <2>1
    <2> QED  BY <1>2, <1>3, <2>1, <2>2
  <1> QED  BY <1>1, <1>4 DEF ListenInv

\* What is still to come for OUT is in the tail, unless it is this step.
LEMMA NextForOut ==
    ASSUME IInv, todo # << >>, todo' = Tail(todo)
    PROVE  /\ \A t : Later(todo, 0, t) => todo[1] = t \/ Later(todo, 0, t)'
           /\ \A t : Later(todo, 1, t) /\ todo[1] # t => Later(todo, 0, t)'
           /\ \A t : ~Before(todo, 1, t)
           /\ 1 \in DOMAIN todo
  <1> HIDE DEF Steps
  <1>1. 1 \in DOMAIN todo /\ \A j \in DOMAIN todo : j \in Nat /\ j >= 1
    BY TailFacts DEF IInv, TypeOK
  <1>2. \A t : Later(todo, 0, t) => todo[1] = t \/ Later(todo, 0, t)'
    BY NextSteps
  <1>3. \A t : Later(todo, 1, t) => Later(todo, 0, t)
    BY <1>1 DEF Later
  <1>4. \A t : ~Before(todo, 1, t)
    BY <1>1 DEF Before
  <1> QED  BY <1>1, <1>2, <1>3, <1>4

LEMMA AbortListen ==
    ASSUME IInv, ListenInv, todo # << >>, todo' = Tail(todo), NEW e \in Eps,
           todo[1] = <<"abort", e>>, Abort(e), UNCHANGED <<ep, tc, busVars, midiVars, menu>>
    PROVE  ListenInv'
  <1>1. cut' = IF CutsOff(e) THEN cut \cup {e} ELSE cut
    BY DEF Abort
  <1>2. Uncut' => Uncut /\ (e = "OUT" => ep["OUT"] = "off")
    BY <1>1 DEF CutsOff, Uncut
  <1>3. ASSUME Uncut' PROVE OutInv'
    <2>1. OutInv
      BY <1>2, <1>3 DEF ListenInv
    <2>2. CASE e = "OUT"
      <3>1. ep["OUT"] = "off" /\ ~job["OUT"]
        BY <1>2, <1>3, <2>1, <2>2 DEF OutInv
      <3>2. UNCHANGED job
        BY <2>2, <3>1 DEF Abort
      <3> QED  BY <3>1, <3>2 DEF OutInv
    <2>3. CASE e = "IN"
      <3>1. UNCHANGED outVars /\ job'["OUT"] = job["OUT"] /\ nack'["OUT"] = nack["OUT"]
        <4>1. TypeOK
          BY DEF IInv
        <4>2. CASE job["IN"]
          <5>1. Sent(TRUE) /\ UNCHANGED outVars
            BY <2>3, <4>2 DEF Abort
          <5>2. PICK again \in BOOLEAN : Job("IN", again, FALSE, TRUE)
            BY <4>1, <5>1, SentFacts
          <5> QED  BY <4>1, <5>1, <5>2, JobFacts
        <4>3. CASE ~job["IN"]
          BY <2>3, <4>1, <4>3 DEF Abort, TypeOK
        <4> QED  BY <4>2, <4>3
      <3>2. \A t : Later(todo, 0, t) => t = <<"abort", "IN">> \/ Later(todo, 0, t)'
        BY <2>3, NextForOut
      <3>3. Later(todo, 0, <<"enable", "all">>) => Later(todo, 0, <<"enable", "all">>)'
        BY <3>2
      <3> QED  BY <2>1, <3>1, <3>3, SameOut
    <2> QED  BY <2>2, <2>3
  <1> QED  BY <1>2, <1>3, TailListen DEF busVars

LEMMA OffListen ==
    ASSUME IInv, ListenInv, todo # << >>, todo' = Tail(todo), NEW e \in Eps,
           todo[1] = <<"off", e>>, Off(e), UNCHANGED <<busVars, outVars, inVars, midiVars, menu>>
    PROVE  ListenInv'
  <1>1. /\ ep'[e] = "off" /\ \A f \in Eps : f # e => ep'[f] = ep[f]
        /\ UNCHANGED <<nack, tc, data, job, cut>>
    BY DEF Off, IInv, TypeOK
  <1>2. ASSUME Uncut' PROVE OutInv'
    <2>1. OutInv /\ TearsDown(todo)
      BY <1>1, <1>2 DEF ListenInv, Uncut
    <2>2. CASE e = "OUT"
      <3>1. ep["OUT"] = "off"
        BY <2>1, <2>2, NextForOut DEF TearsDown, Ends
      <3> QED  BY <1>1, <2>1, <2>2, <3>1 DEF OutInv
    <2>3. CASE e = "IN"
      <3>1. \A t : Later(todo, 0, t) => t = <<"off", "IN">> \/ Later(todo, 0, t)'
        BY <2>3, NextForOut
      <3>2. Later(todo, 0, <<"enable", "all">>) => Later(todo, 0, <<"enable", "all">>)'
        BY <3>1
      <3> QED  BY <1>1, <2>1, <2>3, <3>2, SameOut
    <2> QED  BY <2>2, <2>3
  <1> QED  BY <1>1, <1>2, TailListen DEF busVars, Uncut

LEMMA HaltListen ==
    ASSUME IInv, ListenInv, todo # << >>, todo' = Tail(todo), NEW e \in Eps,
           todo[1] = <<"halt", e>>, Halt(e), UNCHANGED <<busVars, outVars, inVars, midiVars, menu>>
    PROVE  ListenInv'
  <1>1. /\ ep[e] = "off" => ep'[e] = "off"
        /\ \A f \in Eps : f # e => ep'[f] = ep[f]
        /\ UNCHANGED <<nack, tc, data, job, cut>>
    BY DEF Halt, IInv, TypeOK
  <1>2. ASSUME Uncut' PROVE OutInv'
    <2>1. OutInv /\ TearsDown(todo)
      BY <1>1, <1>2 DEF ListenInv, Uncut
    <2>2. CASE e = "OUT"
      <3>1. ep["OUT"] = "off"
        BY <2>1, <2>2, NextForOut DEF TearsDown, Ends
      <3> QED  BY <1>1, <2>1, <2>2, <3>1 DEF OutInv
    <2>3. CASE e = "IN"
      <3>1. \A t : Later(todo, 0, t) => t = <<"halt", "IN">> \/ Later(todo, 0, t)'
        BY <2>3, NextForOut
      <3>2. Later(todo, 0, <<"enable", "all">>) => Later(todo, 0, <<"enable", "all">>)'
        BY <3>1
      <3> QED  BY <1>1, <2>1, <2>3, <3>2, SameOut
    <2> QED  BY <2>2, <2>3
  <1> QED  BY <1>1, <1>2, TailListen DEF busVars, Uncut

LEMMA AllocListen ==
    ASSUME IInv, ListenInv, todo # << >>, todo' = Tail(todo), NEW e \in Eps,
           todo[1] = <<"alloc", e>>, Alloc(e), UNCHANGED <<busVars, outVars, inVars, midiVars, menu>>
    PROVE  ListenInv'
  <1>1. /\ ep'[e] = "on" /\ UNCHANGED <<data, job>>
        /\ \A f \in Eps : f # e => ep'[f] = ep[f] /\ nack'[f] = nack[f] /\ tc'[f] = tc[f]
    BY DEF Alloc, IInv, TypeOK
  <1>5. Uncut' => Uncut
    BY DEF Alloc, Uncut
  <1>2. todo[1][1] = "alloc" /\ todo[1][2] = e
    OBVIOUS
  <1>3. ep[e] = "off" /\ Later(todo, 1, <<"enable", "all">>)
    BY <1>2, NextForOut DEF ListenInv, SetsUp
  <1>4. ASSUME Uncut' PROVE OutInv'
    <2>1. OutInv
      BY <1>4, <1>5 DEF ListenInv
    <2>2. CASE e = "OUT"
      <3>1. Later(todo, 0, <<"enable", "all">>)'
        BY <1>3, NextForOut
      <3>2. ~job'["OUT"]
        BY <1>1, <1>3, <2>1, <2>2 DEF OutInv
      <3> QED  BY <1>1, <2>2, <3>1, <3>2 DEF OutInv, OutRuns
    <2>3. CASE e = "IN"
      <3>1. \A t : Later(todo, 0, t) => t = <<"alloc", "IN">> \/ Later(todo, 0, t)'
        BY <2>3, NextForOut
      <3>2. Later(todo, 0, <<"enable", "all">>) => Later(todo, 0, <<"enable", "all">>)'
        BY <3>1
      <3> QED  BY <1>1, <2>1, <2>3, <3>2, SameOut
    <2> QED  BY <2>2, <2>3
  <1> QED  BY <1>1, <1>3, <1>4, <1>5, TailListen DEF busVars

LEMMA EnableListen ==
    ASSUME IInv, ListenInv, todo # << >>, todo' = Tail(todo), todo[1] = <<"enable", "all">>,
           Enable, UNCHANGED <<busVars, inVars, menu>>
    PROVE  ListenInv'
  <1> DEFINE again == Starts("OUT", job["OUT"])
  <1>1. /\ dre' = FALSE /\ Job("OUT", again, job["OUT"], nack["OUT"])
        /\ UNCHANGED <<left, odd, ring, want, ep, tc>>
    BY DEF Enable
  <1>2. again <=> ep["OUT"] = "on" /\ ~job["OUT"]
    BY DEF Starts
  <1>3. again \in BOOLEAN /\ job["OUT"] \in BOOLEAN /\ nack["OUT"] \in BOOLEAN /\ TypeOK
    BY DEF Starts, IInv, TypeOK
  <1>5. Uncut' => ring # RingCap /\ (Uncut \/ again)
    BY DEF Enable, StillCut, Uncut
  <1> HIDE DEF again
  <1>4. job'["OUT"] = (again \/ job["OUT"]) /\ nack'["OUT"] = (nack["OUT"] /\ ~again)
    BY <1>1, <1>3, JobFacts
  <1>6. ASSUME Uncut' PROVE OutInv'
    <2>1. CASE again
      BY <1>1, <1>2, <1>4, <1>5, <1>6, <2>1 DEF OutInv, OutRuns
    <2>2. CASE ~again
      <3>1. OutInv
        BY <1>5, <1>6, <2>2 DEF ListenInv
      <3> QED  BY <1>1, <1>2, <1>4, <1>5, <1>6, <2>2, <3>1 DEF OutInv, OutRuns
    <2> QED  BY <2>1, <2>2
  <1> QED  BY <1>1, <1>5, <1>6, TailListen DEF busVars

LEMMA DisableListen ==
    ASSUME IInv, ListenInv, todo # << >>, todo' = Tail(todo), todo[1] = <<"disable", "all">>,
           Disable, UNCHANGED <<left, odd, ring, want, epVars, busVars, inVars, cut, menu>>
    PROVE  ListenInv'
  <1>1. ASSUME Uncut' PROVE OutInv'
    <2>1. OutInv /\ TearsDown(todo)
      BY <1>1 DEF ListenInv, Uncut
    <2>2. ep["OUT"] = "off"
      BY <2>1, NextForOut DEF TearsDown, Ends
    <2> QED  BY <2>1, <2>2 DEF OutInv, epVars
  <1> QED  BY <1>1, TailListen DEF busVars, epVars, Uncut

LEMMA ConfListen ==
    ASSUME IInv, ListenInv, todo # << >>, todo' = Tail(todo),
           \/ todo[1] = <<"conf0", "all">> /\ conf' = 0 /\ UNCHANGED ctrl
           \/ todo[1] = <<"conf1", "all">> /\ conf' = 1 /\ UNCHANGED ctrl
           \/ todo[1] = <<"ctrl", "all">> /\ ctrl' = TRUE /\ UNCHANGED conf,
           UNCHANGED <<attached, epVars, outVars, inVars, midiVars, cut, menu>>
    PROVE  ListenInv'
  <1>1. Later(todo, 0, <<"enable", "all">>) => Later(todo, 0, <<"enable", "all">>)'
    BY NextForOut
  <1>2. OutInv => OutInv'
    BY <1>1, SameOut DEF epVars
  <1>3. Uncut' => OutInv'
    BY <1>2 DEF ListenInv, Uncut
  <1> QED  BY <1>3, TailListen DEF epVars, Uncut

LEMMA StepListen == ASSUME IInv, ListenInv, Step PROVE ListenInv'
  <1>1. todo # << >> /\ UNCHANGED menu
    BY DEF Step
  <1>2. todo' = Tail(todo) /\ Perform(Head(todo))
    BY <1>1, NoneFails DEF Step
  <1>3. /\ Head(todo) = todo[1] /\ todo[1] = <<todo[1][1], todo[1][2]>>
        /\ \/ todo[1][1] \in {"abort", "halt", "off", "alloc"} /\ todo[1][2] \in Eps
           \/ /\ todo[1][1] \in {"enable", "disable", "conf0", "conf1", "ctrl"}
              /\ todo[1][2] = "all"
    BY <1>1, <1>2, NextSteps, StepKinds
  <1>4. CASE todo[1][1] = "abort"
    BY <1>1, <1>2, <1>3, <1>4, AbortListen DEF Perform
  <1>5. CASE todo[1][1] = "off"
    BY <1>1, <1>2, <1>3, <1>5, OffListen DEF Perform
  <1>10. CASE todo[1][1] = "halt"
    BY <1>1, <1>2, <1>3, <1>10, HaltListen DEF Perform
  <1>6. CASE todo[1][1] = "alloc"
    BY <1>1, <1>2, <1>3, <1>6, AllocListen DEF Perform
  <1>7. CASE todo[1][1] = "enable"
    BY <1>1, <1>2, <1>3, <1>7, EnableListen DEF Perform
  <1>8. CASE todo[1][1] = "disable"
    BY <1>1, <1>2, <1>3, <1>8, DisableListen DEF Perform
  <1>9. CASE todo[1][1] \in {"conf0", "conf1", "ctrl"}
    BY <1>1, <1>2, <1>3, <1>9, ConfListen DEF Perform
  <1> QED  BY <1>3, <1>4, <1>5, <1>6, <1>7, <1>8, <1>9, <1>10

LEMMA NextListen == IInv /\ ListenInv /\ [Next]_vars => ListenInv'
  <1> SUFFICES ASSUME IInv, ListenInv, [Next]_vars PROVE ListenInv'
    OBVIOUS
  <1>1. CASE Step
    BY <1>1, StepListen
  <1>2. CASE BusReset \/ Menu \/ UdcStop \/ UdcStart
    BY <1>2, BusResetListen, MenuListen, UdcStopListen, UdcStartListen
  <1>3. ASSUME NEW c \in {0, 1}, SetConfiguration(c) PROVE ListenInv'
    BY <1>3, SetConfigurationListen
  <1>4. ASSUME NEW exists \in BOOLEAN, SetInterface(exists) PROVE ListenInv'
    BY <1>4, SetInterfaceListen
  <1>5. ASSUME NEW e \in Eps, SetHalt(e) \/ ClearHalt(e) PROVE ListenInv'
    BY <1>5, SetHaltListen, ClearHaltListen
  <1>6. ASSUME NEW e \in Eps, NEW n \in 1 .. Packet, Host(e, n) PROVE ListenInv'
    BY <1>6, HostListen
  <1>7. CASE OutComplete \/ InComplete
    BY <1>7, OutCompleteListen, InCompleteListen
  <1>8. CASE RxEvent \/ DreSend \/ DreOff
    BY <1>8, RxEventListen, DreSendListen, DreOffListen
  <1>9. CASE UNCHANGED vars
    BY <1>9 DEF vars, epVars, busVars, outVars, ListenInv, SetsUp, TearsDown, BusInv, OutInv,
               OutRuns, Uncut, Ends, Later, Before
  <1> QED  BY <1>1, <1>2, <1>3, <1>4, <1>5, <1>6, <1>7, <1>8, <1>9 DEF Next

LEMMA InitListen == Init => ListenInv
  BY DEF Init, ListenInv, SetsUp, TearsDown, BusInv, OutInv

LEMMA ListenInvariance == Spec => [](IInv /\ ListenInv)
  <1>1. IInv /\ ListenInv /\ [Next]_vars => IInv' /\ ListenInv'
    BY NextInv, NextListen
  <1> QED  BY InitInv, InitListen, <1>1, PTL DEF Spec

\* A configured device whose OUT endpoint no handler cut off goes on listening, for every
\* size of packet and ring: the host may send, its packet is about to be processed, waits
\* for room in a ring that is being drained, or has come to an event that names no jack of
\* the board (main.cpp:584, 600, 605).
THEOREM KeepsListening == Spec => []Listens
  <1>1. ASSUME IInv, ListenInv PROVE Listens
    <2> SUFFICES ASSUME conf = 1, ep["OUT"] = "on", todo = << >>, Uncut
                 PROVE  \/ Open("OUT")
                        \/ tc["OUT"] /\ job["OUT"]
                        \/ left > 0 /\ want /\ dre
                        \/ left = 1 /\ odd
      BY DEF Listens, Uncut
    <2>1. \A t : ~Later(todo, 0, t)
      BY DEF Later
    <2>2. attached
      BY <1>1, <2>1 DEF ListenInv, BusInv
    <2>3. OutRuns
      BY <1>1 DEF ListenInv, OutInv
    <2> QED  BY <2>1, <2>2, <2>3 DEF OutRuns, Open
  <1> QED  BY ListenInvariance, <1>1, PTL

\* No handler fails half-way and leaves the interface unfinished: an endpoint that is to be
\* allocated is off by then (udd_ep_alloc, usb_device.c:592-594).
THEOREM NoHandlerFails == Spec => [](todo # << >> => ~Fails(Head(todo)))
  <1>1. IInv /\ ListenInv => (todo # << >> => ~Fails(Head(todo)))
    BY NoneFails
  <1> QED  BY ListenInvariance, <1>1, PTL
================================================================================
