---------------------- MODULE ConfigurationCaches_proofs ----------------------
(***************************************************************************)
(* Type correctness of ConfigurationCaches; that what a process has read   *)
(* stays; that an elected leader keeps the host of an Ingress, gives its   *)
(* certificate the same host as long as no process ends, and sends Yatai   *)
(* no revision configured like the last: for every set of processes and    *)
(* every configuration, object and bound.                                  *)
(***************************************************************************)
EXTENDS ConfigurationCaches, TLAPS

\* What the variables of each process are made of.
Shape ==
    /\ cache = [p \in Processes |-> cache[p]]
    /\ pass = [p \in Processes |-> pass[p]]
    /\ registration = [p \in Processes |-> registration[p]]
    /\ \A p \in Processes :
          /\ DOMAIN cache[p] = {"conf", "domain", "network", "namespaces"}
          /\ DOMAIN pass[p] = {"pc", "conf", "bento", "spec", "host", "new"}
          /\ DOMAIN registration[p] = {"pc", "conf"}

\* What a process works with has been configured at some time.
Known ==
    /\ network \in Networks /\ secret \in Secrets /\ spec \in Specs
    /\ \A p \in Processes :
          /\ pass[p].pc = "store" => pass[p].conf \in Secrets \ {Absent}
          /\ registration[p].pc = "store" => registration[p].conf \in Secrets \ {Absent}
          /\ pass[p].pc \notin {"idle", "store", "domain"} => pass[p].spec \in Specs

TypeInv == Shape /\ TypeOK /\ Known

LEMMA TypeInvInit == Init => TypeInv
BY ConstantsAssumption
   DEF Init, TypeInv, Shape, TypeOK, Known, Empty, IdlePass, NoRegistration

LEMMA ShapeStep == Shape /\ [Next]_vars => Shape'
<1> SUFFICES ASSUME Shape, [Next]_vars PROVE Shape'
  OBVIOUS
<1> USE DEF Shape
<1>1. CASE UNCHANGED vars BY <1>1 DEF vars
<1>2. CASE Change BY <1>2 DEF Change
<1>0. CASE Age BY <1>0 DEF Age, world
<1>3. ASSUME NEW p \in Processes, Acquire(p) PROVE Shape' BY <1>3 DEF Acquire
<1>4. ASSUME NEW p \in Processes, Exit(p) PROVE Shape'
  BY <1>4 DEF Exit, Empty, IdlePass, NoRegistration
<1>5. ASSUME NEW p \in Processes, Start(p) PROVE Shape' BY <1>5 DEF Start
<1>6. ASSUME NEW p \in Processes, Fail(p) PROVE Shape'
  BY <1>6 DEF Fail, Failed, IdlePass, outside
<1>7. ASSUME NEW p \in Processes, Registration(p) PROVE Shape'
  BY <1>7 DEF Registration, RegisterRead, RegisterStore, Register, RegisterWith, SetRegistration, others
<1>8. ASSUME NEW p \in Processes, CleanUp(p) PROVE Shape' BY <1>8 DEF CleanUp
<1>9. ASSUME NEW p \in Processes, Pass(p) PROVE Shape'
  <2>1. CASE Begin(p) BY <2>1 DEF Begin, Failed, IdlePass, outside
  <2>2. CASE Store(p) BY <2>2 DEF Store, outside
  <2>3. CASE ReadDomain(p) BY <2>3 DEF ReadDomain, outside
  <2>4. CASE ReadNetwork(p) BY <2>4 DEF ReadNetwork, Failed, IdlePass, outside
  <2>5. CASE GetIngress(p) BY <2>5 DEF GetIngress, outside
  <2>6. CASE WriteIngress(p) BY <2>6 DEF WriteIngress, Written, Failed, IdlePass, outside
  <2>0. CASE GetRemoteBento(p) BY <2>0 DEF GetRemoteBento, Ended, Failed, IdlePass, outside
  <2>7. CASE GetRecord(p) BY <2>7 DEF GetRecord, Failed, IdlePass, outside
  <2>8. CASE SendRecord(p) BY <2>8 DEF SendRecord, Failed, IdlePass, outside
  <2>9. CASE SyncStatus(p) BY <2>9 DEF SyncStatus, Ended, Failed, IdlePass, outside
  <2> QED BY <1>9, <2>0, <2>1, <2>2, <2>3, <2>4, <2>5, <2>6, <2>7, <2>8, <2>9 DEF Pass
<1> QED BY <1>0, <1>1, <1>2, <1>3, <1>4, <1>5, <1>6, <1>7, <1>8, <1>9 DEF Next

\* The ways in which a pass begins, and in which it goes on when it has asked Yatai.
LEMMA BeginOutcomes ==
    ASSUME NEW p \in Processes, Begin(p)
    PROVE  /\ pass[p].pc = "idle" /\ Leading(p)
           /\ UNCHANGED <<outside, cache, ingress, record, synced, faults>>
           /\ \/ pass' = [pass EXCEPT ![p] = IdlePass]
              \/ /\ cache[p].conf # Nil
                 /\ pass' = [pass EXCEPT ![p].pc = "domain", ![p].conf = cache[p].conf, ![p].bento = spec.bento]
              \/ /\ cache[p].conf = Nil /\ secret # Absent
                 /\ pass' = [pass EXCEPT ![p].pc = "store", ![p].conf = secret, ![p].bento = spec.bento]
<1>1. CASE cache[p].conf # Nil BY <1>1 DEF Begin
<1>2. CASE cache[p].conf = Nil /\ secret = Absent BY <1>2 DEF Begin, Failed
<1>3. CASE cache[p].conf = Nil /\ secret # Absent BY <1>3 DEF Begin
<1> QED BY <1>1, <1>2, <1>3

LEMMA GetRemoteBentoOutcomes ==
    ASSUME NEW p \in Processes, GetRemoteBento(p)
    PROVE  /\ pass[p].pc = "record"
           /\ UNCHANGED <<outside, cache, ingress, record, synced, faults>>
           /\ \/ pass' = [pass EXCEPT ![p] = IdlePass]
              \/ pass' = [pass EXCEPT ![p].pc = "deployment"]
BY DEF GetRemoteBento, Ended, Failed

LEMMA GetRecordOutcomes ==
    ASSUME NEW p \in Processes, GetRecord(p)
    PROVE  /\ pass[p].pc = "deployment"
           /\ UNCHANGED <<outside, cache, ingress, record, synced, faults>>
           /\ \/ pass' = [pass EXCEPT ![p] = IdlePass]
              \/ pass' = [pass EXCEPT ![p].pc = "post"]
              \/ pass' = [pass EXCEPT ![p].pc = "sync"]
              \/ /\ record.config # Config(pass[p].spec)
                 /\ pass' = [pass EXCEPT ![p].pc = "patch"]
<1> DEFINE old == GetDeployment(pass[p].conf)
<1>1. /\ pass[p].pc = "deployment"
      /\ UNCHANGED <<outside, cache, ingress, record, synced, faults>>
  BY DEF GetRecord
<1>2. CASE old = Bad BY <1>1, <1>2 DEF GetRecord, Failed
<1>3. CASE old # Bad
  <2>1. old = record BY <1>3 DEF GetDeployment
  <2>2. pass' = [pass EXCEPT ![p].pc = IF record = Absent THEN "post"
                                       ELSE IF NoChange(pass[p].spec) THEN "sync" ELSE "patch"]
    BY <1>3, <2>1 DEF GetRecord
  <2>3. CASE record = Absent BY <1>1, <2>2, <2>3
  <2>4. CASE record # Absent /\ NoChange(pass[p].spec) BY <1>1, <2>2, <2>4
  <2>5. CASE record # Absent /\ ~NoChange(pass[p].spec) BY <1>1, <2>2, <2>5 DEF NoChange
  <2> QED BY <2>3, <2>4, <2>5
<1> QED BY <1>2, <1>3

LEMMA KnownStep == TypeInv /\ [Next]_vars => Known'
<1> SUFFICES ASSUME TypeInv, [Next]_vars PROVE Known'
  OBVIOUS
<1> USE ConstantsAssumption DEF TypeInv, Shape, Known
<1>1. CASE UNCHANGED vars BY <1>1 DEF vars, world
<1>2. CASE Change BY <1>2 DEF Change
<1>0. CASE Age BY <1>0 DEF Age, world
<1>3. ASSUME NEW p \in Processes, Acquire(p) PROVE Known' BY <1>3 DEF Acquire, world
<1>4. ASSUME NEW p \in Processes, Exit(p) PROVE Known'
  BY <1>4 DEF Exit, IdlePass, NoRegistration, world
<1>5. ASSUME NEW p \in Processes, Start(p) PROVE Known' BY <1>5 DEF Start, world
<1>6. ASSUME NEW p \in Processes, Fail(p) PROVE Known'
  BY <1>6 DEF Fail, Failed, IdlePass, outside, world
<1>7. ASSUME NEW p \in Processes, Registration(p) PROVE Known'
  BY <1>7 DEF Registration, RegisterRead, RegisterStore, Register, RegisterWith, SetRegistration, others, world
<1>8. ASSUME NEW p \in Processes, CleanUp(p) PROVE Known' BY <1>8 DEF CleanUp, world
<1>9. ASSUME NEW p \in Processes, Pass(p) PROVE Known'
  <2>1. CASE Begin(p)
    <3>1. pass[p].pc = "idle" /\ Leading(p) /\ UNCHANGED <<outside, cache, faults, record>>
      BY <2>1, BeginOutcomes
    <3>2. CASE pass' = [pass EXCEPT ![p] = IdlePass] BY <3>1, <3>2 DEF IdlePass, outside, world
    <3>3. ASSUME cache[p].conf # Nil, pass' = [pass EXCEPT ![p].pc = "domain", ![p].conf = cache[p].conf, ![p].bento = spec.bento]
          PROVE  Known'
      BY <3>1, <3>3 DEF outside, world
    <3>4. ASSUME secret # Absent, pass' = [pass EXCEPT ![p].pc = "store", ![p].conf = secret, ![p].bento = spec.bento]
          PROVE  Known'
      BY <3>1, <3>4 DEF outside, world
    <3> QED BY <2>1, <3>2, <3>3, <3>4, BeginOutcomes
  <2>2. CASE Store(p) BY <2>2 DEF Store, outside, world
  <2>3. CASE ReadDomain(p) BY <2>3 DEF ReadDomain, outside, world
  <2>4. CASE ReadNetwork(p) BY <2>4 DEF ReadNetwork, Failed, IdlePass, outside, world
  <2>5. CASE GetIngress(p) BY <2>5 DEF GetIngress, outside, world
  <2>6. CASE WriteIngress(p) BY <2>6 DEF WriteIngress, Written, Failed, IdlePass, outside, world
  <2>0. CASE GetRemoteBento(p) BY <2>0, GetRemoteBentoOutcomes DEF IdlePass, outside, world
  <2>7. CASE GetRecord(p) BY <2>7, GetRecordOutcomes DEF IdlePass, outside, world
  <2>8. CASE SendRecord(p) BY <2>8 DEF SendRecord, Failed, IdlePass, outside, world
  <2>9. CASE SyncStatus(p) BY <2>9 DEF SyncStatus, Ended, Failed, IdlePass, outside, world
  <2> QED BY <1>9, <2>0, <2>1, <2>2, <2>3, <2>4, <2>5, <2>6, <2>7, <2>8, <2>9 DEF Pass
<1> QED BY <1>0, <1>1, <1>2, <1>3, <1>4, <1>5, <1>6, <1>7, <1>8, <1>9 DEF Next

LEMMA TypeStep == TypeInv /\ [Next]_vars => TypeOK'
<1> SUFFICES ASSUME TypeInv, [Next]_vars PROVE TypeOK'
  OBVIOUS
<1> USE ConstantsAssumption DEF TypeInv, Shape, Known, TypeOK, Leading
<1>1. CASE UNCHANGED vars BY <1>1 DEF vars, world, settings
<1>2. CASE Change BY <1>2 DEF Change, settings
<1>0. CASE Age BY <1>0 DEF Age, world, settings
<1>3. ASSUME NEW p \in Processes, Acquire(p) PROVE TypeOK' BY <1>3 DEF Acquire, world, settings
<1>4. ASSUME NEW p \in Processes, Exit(p) PROVE TypeOK'
  BY <1>4 DEF Exit, Empty, IdlePass, NoRegistration, world, settings
<1>5. ASSUME NEW p \in Processes, Start(p) PROVE TypeOK' BY <1>5 DEF Start, world, settings
<1>6. ASSUME NEW p \in Processes, Fail(p) PROVE TypeOK'
  BY <1>6 DEF Fail, Failed, IdlePass, outside, world, settings
<1>7. ASSUME NEW p \in Processes, Registration(p) PROVE TypeOK'
  <2>1. CASE RegisterRead(p) BY <2>1 DEF RegisterRead, RegisterWith, SetRegistration, others, world, settings
  <2>2. CASE RegisterStore(p) BY <2>2 DEF RegisterStore, RegisterWith, SetRegistration, others, world, settings
  <2>3. CASE Register(p) BY <2>3 DEF Register, SetRegistration, others, world, settings
  <2> QED BY <1>7, <2>1, <2>2, <2>3 DEF Registration
<1>8. ASSUME NEW p \in Processes, CleanUp(p) PROVE TypeOK' BY <1>8 DEF CleanUp, world, settings
<1>9. ASSUME NEW p \in Processes, Pass(p) PROVE TypeOK'
  <2>1. CASE Begin(p)
    <3>1. pass[p].pc = "idle" /\ Leading(p) /\ UNCHANGED <<outside, cache, faults, record>>
      BY <2>1, BeginOutcomes
    <3>2. CASE pass' = [pass EXCEPT ![p] = IdlePass] BY <3>1, <3>2 DEF IdlePass, outside, world, settings
    <3>3. ASSUME cache[p].conf # Nil, pass' = [pass EXCEPT ![p].pc = "domain", ![p].conf = cache[p].conf, ![p].bento = spec.bento]
          PROVE  TypeOK'
      BY <3>1, <3>3 DEF outside, world, settings
    <3>4. ASSUME secret # Absent, pass' = [pass EXCEPT ![p].pc = "store", ![p].conf = secret, ![p].bento = spec.bento]
          PROVE  TypeOK'
      BY <3>1, <3>4 DEF outside, world, settings
    <3> QED BY <2>1, <3>2, <3>3, <3>4, BeginOutcomes
  <2>2. CASE Store(p) BY <2>2 DEF Store, outside, world, settings
  <2>3. CASE ReadDomain(p) BY <2>3 DEF ReadDomain, outside, world, settings
  <2>4. CASE ReadNetwork(p) BY <2>4 DEF ReadNetwork, Failed, IdlePass, outside, world, settings
  <2>5. CASE GetIngress(p) BY <2>5 DEF GetIngress, outside, world, settings
  <2>6. CASE WriteIngress(p) BY <2>6 DEF WriteIngress, Written, Failed, IdlePass, outside, world, settings
  <2>0. CASE GetRemoteBento(p) BY <2>0, GetRemoteBentoOutcomes DEF IdlePass, outside, world, settings
  <2>7. CASE GetRecord(p) BY <2>7, GetRecordOutcomes DEF IdlePass, outside, world, settings
  <2>8. CASE SendRecord(p)
    BY <2>8 DEF SendRecord, Send, CreateDeployment, UpdateDeployment, Target, Failed, IdlePass, outside, world, settings
  <2>9. CASE SyncStatus(p) BY <2>9 DEF SyncStatus, Ended, Failed, IdlePass, outside, world, settings
  <2> QED BY <1>9, <2>0, <2>1, <2>2, <2>3, <2>4, <2>5, <2>6, <2>7, <2>8, <2>9 DEF Pass
<1> QED BY <1>0, <1>1, <1>2, <1>3, <1>4, <1>5, <1>6, <1>7, <1>8, <1>9 DEF Next

\* Every variable has its type, and a pass that is at work is that of a leader and has
\* what it needs: Reconcile's locals are what its earlier steps have read.
THEOREM TypeCorrect == Spec => []TypeOK
<1>1. Init => TypeInv BY TypeInvInit
<1>2. TypeInv /\ [Next]_vars => TypeInv' BY ShapeStep, KnownStep, TypeStep DEF TypeInv
<1>3. TypeInv => TypeOK BY DEF TypeInv
<1> QED BY <1>1, <1>2, <1>3, PTL DEF Spec
-----------------------------------------------------------------------------
\* A process changes the configuration that it works with at most once, in the window in
\* which a pass and a registration have both read before either had stored; the domain
\* suffix, the network configuration and the cleaner's namespaces it never changes.
THEOREM WhatIsReadStays == Spec => CachesStick
<1>1. ASSUME TypeInv, [Next]_vars, NEW q \in up \cap up' PROVE KeepsCache(q)
  <2> q \in Processes BY <1>1 DEF TypeInv, TypeOK
  <2> USE <1>1 DEF TypeInv, Shape, KeepsCache, Storing
  <2>1. CASE UNCHANGED vars BY <2>1 DEF vars
  <2>2. CASE Change BY <2>2 DEF Change
  <2>0. CASE Age BY <2>0 DEF Age
  <2>3. ASSUME NEW p \in Processes, Acquire(p) PROVE KeepsCache(q) BY <2>3 DEF Acquire
  <2>4. ASSUME NEW p \in Processes, Exit(p) PROVE KeepsCache(q) BY <2>4 DEF Exit
  <2>5. ASSUME NEW p \in Processes, Start(p) PROVE KeepsCache(q) BY <2>5 DEF Start
  <2>6. ASSUME NEW p \in Processes, Fail(p) PROVE KeepsCache(q)
    BY <2>6 DEF Fail, Failed, IdlePass, outside
  <2>7. ASSUME NEW p \in Processes, Registration(p) PROVE KeepsCache(q)
    <3>1. CASE RegisterRead(p) BY <3>1 DEF RegisterRead, RegisterWith, SetRegistration, others
    <3>2. CASE RegisterStore(p) BY <3>2 DEF RegisterStore, RegisterWith, SetRegistration, others
    <3>3. CASE Register(p) BY <3>3 DEF Register, SetRegistration, others
    <3> QED BY <2>7, <3>1, <3>2, <3>3 DEF Registration
  <2>8. ASSUME NEW p \in Processes, CleanUp(p) PROVE KeepsCache(q) BY <2>8 DEF CleanUp, Cached
  <2>9. ASSUME NEW p \in Processes, Pass(p) PROVE KeepsCache(q)
    <3>1. CASE Begin(p)
      <4>1. Leading(p) /\ cache' = cache /\ registration' = registration
        BY <3>1, BeginOutcomes DEF outside
      <4>2. CASE pass' = [pass EXCEPT ![p] = IdlePass] BY <4>1, <4>2 DEF IdlePass
      <4>3. CASE pass' = [pass EXCEPT ![p].pc = "domain", ![p].conf = cache[p].conf, ![p].bento = spec.bento] BY <4>1, <4>3
      <4>4. CASE cache[p].conf = Nil /\ pass' = [pass EXCEPT ![p].pc = "store", ![p].conf = secret, ![p].bento = spec.bento]
        BY <4>1, <4>4
      <4> QED BY <3>1, <4>2, <4>3, <4>4, BeginOutcomes
    <3>2. CASE Store(p) BY <3>2 DEF Store, outside
    <3>3. CASE ReadDomain(p) BY <3>3 DEF ReadDomain, Cached, outside
    <3>4. CASE ReadNetwork(p) BY <3>4 DEF ReadNetwork, Cached, Failed, IdlePass, outside
    <3>5. CASE GetIngress(p) BY <3>5 DEF GetIngress, outside
    <3>6. CASE WriteIngress(p) BY <3>6 DEF WriteIngress, Written, Failed, IdlePass, outside
    <3>0. CASE GetRemoteBento(p) BY <3>0, GetRemoteBentoOutcomes DEF IdlePass, outside
    <3>7. CASE GetRecord(p) BY <3>7, GetRecordOutcomes DEF IdlePass, outside
    <3>8. CASE SendRecord(p) BY <3>8 DEF SendRecord, Failed, IdlePass, outside
    <3>9. CASE SyncStatus(p) BY <3>9 DEF SyncStatus, Ended, Failed, IdlePass, outside
    <3> QED BY <2>9, <3>0, <3>1, <3>2, <3>3, <3>4, <3>5, <3>6, <3>7, <3>8, <3>9 DEF Pass
  <2> QED BY <1>1, <2>0, <2>1, <2>2, <2>3, <2>4, <2>5, <2>6, <2>7, <2>8, <2>9 DEF Next
<1>2. TypeInv /\ [Next]_vars => [\A p \in up \cap up' : KeepsCache(p)]_vars BY <1>1
<1>3. Init => TypeInv BY TypeInvInit
<1>4. TypeInv /\ [Next]_vars => TypeInv' BY ShapeStep, KnownStep, TypeStep DEF TypeInv
<1> QED BY <1>2, <1>3, <1>4, PTL DEF Spec, CachesStick
-----------------------------------------------------------------------------
\* Where leaders are elected, one process at most is in a pass.
LEMMA OnePass ==
    ASSUME TypeOK, elect, NEW p \in Processes, NEW q \in Processes,
           pass[p].pc # "idle", pass[q].pc # "idle"
    PROVE  p = q
BY DEF TypeOK, Leading

\* What an elected leader's pass knows: the host of the Ingress that it is to update, and
\* that the record it is to change differs from what it is to be.
IngressShape(x) ==
    x = [annotations |-> x.annotations,
         rule |-> [host |-> x.rule.host, class |-> x.rule.class, tls |-> x.rule.tls]]
HostKnown ==
    elect => \A p \in Processes :
        /\ pass[p].pc = "get" => IngressShape(pass[p].new)
        /\ pass[p].pc = "update" /\ ingress # Absent => pass[p].new.rule.host = ingress.rule.host
RecordKnown ==
    elect => \A p \in Processes :
        pass[p].pc = "patch" /\ record # Absent => record.config # Config(pass[p].spec)

LEMMA RecordKnownStep == TypeInv /\ RecordKnown /\ [Next]_vars => RecordKnown'
<1> SUFFICES ASSUME TypeInv, RecordKnown, [Next]_vars, elect', NEW q \in Processes,
                    pass'[q].pc = "patch", record' # Absent
             PROVE  record'.config # Config(pass'[q].spec)
  BY DEF RecordKnown
<1> USE DEF TypeInv, Shape, RecordKnown
<1>1. CASE UNCHANGED vars BY <1>1 DEF vars, settings
<1>2. CASE Change BY <1>2 DEF Change, settings
<1>0. CASE Age BY <1>0 DEF Age, world, settings
<1>3. ASSUME NEW p \in Processes, Acquire(p) PROVE record'.config # Config(pass'[q].spec)
  BY <1>3 DEF Acquire, settings
<1>4. ASSUME NEW p \in Processes, Exit(p) PROVE record'.config # Config(pass'[q].spec)
  BY <1>4 DEF Exit, IdlePass, settings
<1>5. ASSUME NEW p \in Processes, Start(p) PROVE record'.config # Config(pass'[q].spec)
  BY <1>5 DEF Start, settings
<1>6. ASSUME NEW p \in Processes, Fail(p) PROVE record'.config # Config(pass'[q].spec)
  BY <1>6 DEF Fail, Failed, IdlePass, outside, settings
<1>7. ASSUME NEW p \in Processes, Registration(p) PROVE record'.config # Config(pass'[q].spec)
  BY <1>7 DEF Registration, RegisterRead, RegisterStore, Register, RegisterWith, SetRegistration, others, settings
<1>8. ASSUME NEW p \in Processes, CleanUp(p) PROVE record'.config # Config(pass'[q].spec)
  BY <1>8 DEF CleanUp, settings
<1>9. ASSUME NEW p \in Processes, Pass(p) PROVE record'.config # Config(pass'[q].spec)
  <2>1. CASE Begin(p)
    <3>1. UNCHANGED <<elect, record>> BY <2>1, BeginOutcomes DEF outside, settings
    <3>2. p # q => pass'[q] = pass[q] BY <2>1, BeginOutcomes
    <3>3. pass'[p].pc # "patch"
      <4>1. CASE pass' = [pass EXCEPT ![p] = IdlePass] BY <4>1 DEF IdlePass
      <4>2. CASE pass' = [pass EXCEPT ![p].pc = "domain", ![p].conf = cache[p].conf, ![p].bento = spec.bento] BY <4>2
      <4>3. CASE pass' = [pass EXCEPT ![p].pc = "store", ![p].conf = secret, ![p].bento = spec.bento] BY <4>3
      <4> QED BY <2>1, <4>1, <4>2, <4>3, BeginOutcomes
    <3> QED BY <3>1, <3>2, <3>3
  <2>2. CASE Store(p) BY <2>2 DEF Store, outside, settings
  <2>3. CASE ReadDomain(p) BY <2>3 DEF ReadDomain, outside, settings
  <2>4. CASE ReadNetwork(p) BY <2>4 DEF ReadNetwork, Failed, IdlePass, outside, settings
  <2>5. CASE GetIngress(p) BY <2>5 DEF GetIngress, outside, settings
  <2>6. CASE WriteIngress(p) BY <2>6 DEF WriteIngress, Written, Failed, IdlePass, outside, settings
  <2>0. CASE GetRemoteBento(p)
    <3>1. UNCHANGED <<elect, record>> BY <2>0, GetRemoteBentoOutcomes DEF outside, settings
    <3>2. p # q => pass'[q] = pass[q] BY <2>0, GetRemoteBentoOutcomes
    <3>3. pass'[p].pc # "patch" BY <2>0, GetRemoteBentoOutcomes DEF IdlePass
    <3> QED BY <3>1, <3>2, <3>3
  <2>7. CASE GetRecord(p)
    <3>1. UNCHANGED <<elect, record>> BY <2>7, GetRecordOutcomes DEF outside, settings
    <3>2. p # q => pass'[q] = pass[q] BY <2>7, GetRecordOutcomes
    <3>3. pass'[p].pc = "patch" => record.config # Config(pass[p].spec) /\ pass'[p].spec = pass[p].spec
      BY <2>7, GetRecordOutcomes DEF IdlePass
    <3> QED BY <3>1, <3>2, <3>3
  <2>8. CASE SendRecord(p)
    <3>1. pass'[p].pc # "patch" BY <2>8 DEF SendRecord, Failed, IdlePass
    <3>2. pass[q].pc # "patch" \/ p = q
      BY <2>8, OnePass DEF SendRecord, outside, settings
    <3>3. p # q => pass'[q] = pass[q] BY <2>8 DEF SendRecord, Failed
    <3> QED BY <3>1, <3>2, <3>3
  <2>9. CASE SyncStatus(p) BY <2>9 DEF SyncStatus, Ended, Failed, IdlePass, outside, settings
  <2> QED BY <1>9, <2>0, <2>1, <2>2, <2>3, <2>4, <2>5, <2>6, <2>7, <2>8, <2>9 DEF Pass
<1> QED BY <1>0, <1>1, <1>2, <1>3, <1>4, <1>5, <1>6, <1>7, <1>8, <1>9 DEF Next

\* Yatai gets no revision with the configuration of the last one, if leaders are elected:
\* GetRecord compares,
\* and nobody else writes between that and SendRecord.
THEOREM NoRevisionIsEmpty == Spec => NoEmptyRevision
<1> DEFINE Inv == TypeInv /\ RecordKnown
<1>1. Init => Inv BY TypeInvInit DEF Init, IdlePass, RecordKnown
<1>2. Inv /\ [Next]_vars => Inv'
  BY ShapeStep, KnownStep, TypeStep, RecordKnownStep DEF TypeInv
<1>3. Inv /\ [Next]_vars =>
        [elect /\ record # Absent /\ record' # record => record'.config # record.config]_vars
  <2> SUFFICES ASSUME Inv, Next, elect, record # Absent, record' # record
               PROVE  record'.config # record.config
    OBVIOUS
  <2>1. PICK p \in Processes : SendRecord(p)
    BY DEF Next, Change, Age, Acquire, Exit, Start, Fail, Registration, RegisterRead, RegisterStore, Register,
           others, CleanUp, Pass, Begin, Store, ReadDomain, ReadNetwork, GetIngress, WriteIngress,
           GetRemoteBento, GetRecord, SyncStatus
  <2>2. pass[p].pc = "patch" /\ record'.config = Config(pass[p].spec)
    BY <2>1 DEF SendRecord, Send, CreateDeployment, UpdateDeployment, Target
  <2> QED BY <2>2 DEF RecordKnown
<1> QED BY <1>1, <1>2, <1>3, PTL DEF Spec, NoEmptyRevision
-----------------------------------------------------------------------------
\* The steps that deal with the Ingress, and what all others leave alone.
IngressSteps(p) == ReadDomain(p) \/ ReadNetwork(p) \/ GetIngress(p) \/ WriteIngress(p)
Untouched(q) ==
    /\ UNCHANGED <<elect, ingress>>
    /\ pass'[q] = pass[q] \/ pass'[q].pc \notin {"network", "get", "create", "update"}
    /\ exits' = 0 => /\ exits = 0 /\ cache'[q].domain = cache[q].domain
                     /\ lease' = lease \/ lease = Nil

LEMMA OtherSteps ==
    ASSUME TypeInv, [Next]_vars, NEW q \in Processes, ~ \E p \in Processes : IngressSteps(p)
    PROVE  Untouched(q)
<1> USE ConstantsAssumption DEF TypeInv, Shape, Untouched
<1>1. CASE UNCHANGED vars BY <1>1 DEF vars, settings
<1>2. CASE Change BY <1>2 DEF Change, settings
<1>0. CASE Age BY <1>0 DEF Age, world, settings
<1>3. ASSUME NEW p \in Processes, Acquire(p) PROVE Untouched(q) BY <1>3 DEF Acquire, settings
<1>4. ASSUME NEW p \in Processes, Exit(p) PROVE Untouched(q)
  <2>1. exits' # 0 BY <1>4 DEF Exit, TypeOK
  <2>2. UNCHANGED <<elect, ingress>> BY <1>4 DEF Exit, settings
  <2>3. pass'[q] = pass[q] \/ pass'[q].pc = "idle" BY <1>4 DEF Exit, IdlePass
  <2> QED BY <2>1, <2>2, <2>3
<1>5. ASSUME NEW p \in Processes, Start(p) PROVE Untouched(q) BY <1>5 DEF Start, settings
<1>6. ASSUME NEW p \in Processes, Fail(p) PROVE Untouched(q)
  BY <1>6 DEF Fail, Failed, IdlePass, outside, settings
<1>7. ASSUME NEW p \in Processes, Registration(p) PROVE Untouched(q)
  BY <1>7 DEF Registration, RegisterRead, RegisterStore, Register, RegisterWith, SetRegistration, others, settings
<1>8. ASSUME NEW p \in Processes, CleanUp(p) PROVE Untouched(q) BY <1>8 DEF CleanUp, settings
<1>9. ASSUME NEW p \in Processes, Pass(p) PROVE Untouched(q)
  <2>1. CASE Begin(p)
    <3>1. UNCHANGED <<outside, cache, ingress>> BY <2>1, BeginOutcomes
    <3>2. CASE pass' = [pass EXCEPT ![p] = IdlePass] BY <3>1, <3>2 DEF IdlePass, outside, settings
    <3>3. CASE pass' = [pass EXCEPT ![p].pc = "domain", ![p].conf = cache[p].conf, ![p].bento = spec.bento]
      BY <3>1, <3>3 DEF outside, settings
    <3>4. CASE pass' = [pass EXCEPT ![p].pc = "store", ![p].conf = secret, ![p].bento = spec.bento]
      BY <3>1, <3>4 DEF outside, settings
    <3> QED BY <2>1, <3>2, <3>3, <3>4, BeginOutcomes
  <2>2. CASE Store(p) BY <2>2 DEF Store, outside, settings
  <2>0. CASE GetRemoteBento(p) BY <2>0, GetRemoteBentoOutcomes DEF IdlePass, outside, settings
  <2>3. CASE GetRecord(p)
    <3>1. UNCHANGED <<outside, cache, ingress>> BY <2>3, GetRecordOutcomes
    <3>2. pass'[p].pc \in {"idle", "post", "sync", "patch"} BY <2>3, GetRecordOutcomes DEF IdlePass
    <3>3. p # q => pass'[q] = pass[q] BY <2>3, GetRecordOutcomes
    <3> QED BY <3>1, <3>2, <3>3 DEF outside, settings
  <2>4. CASE SendRecord(p) BY <2>4 DEF SendRecord, Failed, IdlePass, outside, settings
  <2>5. CASE SyncStatus(p) BY <2>5 DEF SyncStatus, Ended, Failed, IdlePass, outside, settings
  <2> QED BY <1>9, <2>0, <2>1, <2>2, <2>3, <2>4, <2>5 DEF Pass, IngressSteps
<1> QED BY <1>0, <1>1, <1>2, <1>3, <1>4, <1>5, <1>6, <1>7, <1>8, <1>9 DEF Next

\* What a pass generates, and what it is to write.
LEMMA ReadNetworkOutcomes ==
    ASSUME NEW p \in Processes, ReadNetwork(p), TypeInv
    PROVE  /\ UNCHANGED <<outside, ingress>> /\ pass[p].pc = "network"
           /\ \A q \in Processes : cache'[q].domain = cache[q].domain
           /\ \A q \in Processes \ {p} : pass'[q] = pass[q]
           /\ \/ pass'[p].pc = "idle"
              \/ /\ pass'[p].pc = "get" /\ IngressShape(pass'[p].new)
                 /\ pass'[p].new.rule.host = pass[p].host
                 /\ pass'[p].new.rule.tls \in {Nil, pass[p].host}
<1> USE DEF TypeInv, Shape
<1>1. UNCHANGED <<outside, ingress>> /\ pass[p].pc = "network" BY DEF ReadNetwork
<1>2. CASE pass' = [pass EXCEPT ![p] = IdlePass] /\ cache' = cache BY <1>1, <1>2 DEF IdlePass
<1> DEFINE config == Cached(cache[p].network, network)
           new == GenerateIngress(pass[p].spec, pass[p].bento, pass[p].host, config, Organization(pass[p].conf))
           works == (HasYatai(pass[p].conf) => Accepted(pass[p].conf)) /\ config.annotations # Bad
<1>3. CASE works
  <2>1. /\ cache' = [cache EXCEPT ![p].network = config]
        /\ pass' = [pass EXCEPT ![p].pc = "get", ![p].host = Nil, ![p].new = new]
    BY <1>3 DEF ReadNetwork
  <2>2. IngressShape(new) /\ new.rule.host = pass[p].host /\ new.rule.tls \in {Nil, pass[p].host}
    BY DEF GenerateIngress, IngressShape
  <2> HIDE DEF config, new
  <2>3. pass'[p].pc = "get" /\ pass'[p].new = new BY <2>1
  <2>4. \A q \in Processes : cache'[q].domain = cache[q].domain BY <2>1
  <2>5. \A q \in Processes \ {p} : pass'[q] = pass[q] BY <2>1
  <2> QED BY <1>1, <2>2, <2>3, <2>4, <2>5
<1>4. CASE ~works
  <2>1. pass' = [pass EXCEPT ![p] = IdlePass] /\ cache' = cache BY <1>4 DEF ReadNetwork, Failed
  <2> QED BY <1>2, <2>1
<1> QED BY <1>3, <1>4

LEMMA GetIngressOutcomes ==
    ASSUME NEW p \in Processes, GetIngress(p), TypeInv
    PROVE  /\ UNCHANGED <<outside, cache, ingress>> /\ pass[p].pc = "get"
           /\ \A q \in Processes \ {p} : pass'[q] = pass[q]
           /\ \/ pass'[p].pc \in {"record", "delete"}
              \/ pass'[p].pc = "create" /\ pass'[p].new = pass[p].new
              \/ /\ pass'[p].pc = "update" /\ ingress # Absent
                 /\ pass'[p].new = KeepHost(pass[p].new)
<1> DEFINE enabled == pass[p].spec.enabled
           step == IF ingress = Absent THEN IF enabled THEN "create" ELSE "record"
                   ELSE IF ~enabled THEN "delete"
                   ELSE IF KeepHost(pass[p].new) = ingress THEN "record" ELSE "update"
           new == CASE step = "update" -> KeepHost(pass[p].new)
                    [] step = "create" -> pass[p].new
                    [] OTHER -> Nil
<1>1. pass' = [pass EXCEPT ![p].pc = step, ![p].new = new] BY DEF GetIngress
<1>2. UNCHANGED <<outside, cache, ingress>> /\ pass[p].pc = "get" BY DEF GetIngress
<1>3. \/ step \in {"record", "delete"}
      \/ step = "create" /\ new = pass[p].new
      \/ step = "update" /\ ingress # Absent /\ new = KeepHost(pass[p].new)
  <2>1. CASE ingress = Absent /\ enabled BY <2>1
  <2>2. CASE ingress = Absent /\ ~enabled BY <2>2
  <2>3. CASE ingress # Absent /\ ~enabled BY <2>3
  <2>4. CASE ingress # Absent /\ enabled /\ KeepHost(pass[p].new) = ingress BY <2>4
  <2>5. CASE ingress # Absent /\ enabled /\ KeepHost(pass[p].new) # ingress BY <2>5
  <2> QED BY <2>1, <2>2, <2>3, <2>4, <2>5
<1> HIDE DEF step, new
<1>4. pass'[p].pc = step /\ pass'[p].new = new BY <1>1 DEF TypeInv, Shape
<1>5. \A q \in Processes \ {p} : pass'[q] = pass[q] BY <1>1 DEF TypeInv, Shape
<1> QED BY <1>2, <1>3, <1>4, <1>5

LEMMA WriteIngressOutcomes ==
    ASSUME NEW p \in Processes, WriteIngress(p), TypeInv
    PROVE  /\ UNCHANGED <<outside, cache>> /\ pass[p].pc \in {"create", "update", "delete"}
           /\ \A q \in Processes \ {p} : pass'[q] = pass[q]
           /\ pass'[p].pc \in {"record", "idle"}
           /\ \/ ingress' = ingress
              \/ pass[p].pc = "delete" /\ ingress' = Absent
              \/ pass[p].pc = "create" /\ ingress = Absent /\ ingress' = pass[p].new
              \/ pass[p].pc = "update" /\ ingress # Absent /\ ingress' = pass[p].new
<1>1. UNCHANGED <<outside, cache>> /\ pass[p].pc \in {"create", "update", "delete"} BY DEF WriteIngress
<1>2. \/ pass' = [pass EXCEPT ![p] = IdlePass]
      \/ pass' = [pass EXCEPT ![p].pc = "record", ![p].new = Nil]
  BY DEF WriteIngress, Written, Failed
<1>3. /\ \A q \in Processes \ {p} : pass'[q] = pass[q]
      /\ pass'[p].pc \in {"record", "idle"}
  BY <1>2 DEF TypeInv, Shape, IdlePass
<1>4. \/ ingress' = ingress
      \/ pass[p].pc = "delete" /\ ingress' = Absent
      \/ pass[p].pc = "create" /\ ingress = Absent /\ ingress' = pass[p].new
      \/ pass[p].pc = "update" /\ ingress # Absent /\ ingress' = pass[p].new
  <2>1. CASE pass[p].pc = "delete" BY <2>1 DEF WriteIngress, Written
  <2>2. CASE pass[p].pc = "create" BY <2>2 DEF WriteIngress, Written
  <2>3. CASE pass[p].pc = "update" BY <2>3 DEF WriteIngress, Written
  <2> QED BY <1>1, <2>1, <2>2, <2>3
<1> QED BY <1>1, <1>3, <1>4

LEMMA HostKnownStep == TypeInv /\ HostKnown /\ [Next]_vars => HostKnown'
<1> SUFFICES ASSUME TypeInv, HostKnown, [Next]_vars, elect', NEW q \in Processes
             PROVE  /\ pass'[q].pc = "get" => IngressShape(pass'[q].new)
                    /\ pass'[q].pc = "update" /\ ingress' # Absent =>
                           pass'[q].new.rule.host = ingress'.rule.host
  BY DEF HostKnown, IngressShape
<1>1. CASE ~ \E p \in Processes : IngressSteps(p)
  BY <1>1, OtherSteps DEF Untouched, HostKnown
<1>2. ASSUME NEW p \in Processes, ReadDomain(p) PROVE HostKnown'
  BY <1>2 DEF ReadDomain, HostKnown, IngressShape, TypeInv, Shape, outside, settings
<1>3. ASSUME NEW p \in Processes, ReadNetwork(p) PROVE HostKnown'
  BY <1>3, ReadNetworkOutcomes DEF HostKnown, outside, settings
<1>4. ASSUME NEW p \in Processes, GetIngress(p) PROVE HostKnown'
  <2>1. elect /\ ingress' = ingress BY <1>4, GetIngressOutcomes DEF outside, settings
  <2>2. IngressShape(pass[p].new) BY <1>4, <2>1, GetIngressOutcomes DEF HostKnown
  <2>3. KeepHost(pass[p].new).rule.host = ingress.rule.host BY <2>2 DEF KeepHost, IngressShape
  <2> QED BY <1>4, <2>1, <2>3, GetIngressOutcomes DEF HostKnown
<1>5. ASSUME NEW p \in Processes, WriteIngress(p) PROVE HostKnown'
  <2>1. elect BY <1>5, WriteIngressOutcomes DEF outside, settings
  <2>2. \A r \in Processes \ {p} : pass'[r].pc = "idle"
    BY <1>5, <2>1, OnePass, WriteIngressOutcomes DEF TypeInv
  <2> QED BY <1>5, <2>2, WriteIngressOutcomes DEF HostKnown
<1> QED BY <1>1, <1>2, <1>3, <1>4, <1>5 DEF IngressSteps, HostKnown

\* An Ingress keeps its host as long as it is there, whatever happens to the domain suffix
\* and to the process that made it, if leaders are elected: an update carries the host that
\* createOrUpdateIngresses has read, and nobody else writes in between.
THEOREM HostsStay == Spec => HostStays
<1> DEFINE Inv == TypeInv /\ HostKnown
<1>1. Init => Inv BY TypeInvInit DEF Init, IdlePass, HostKnown
<1>2. Inv /\ [Next]_vars => Inv'
  BY ShapeStep, KnownStep, TypeStep, HostKnownStep DEF TypeInv
<1>3. Inv /\ [Next]_vars =>
        [elect /\ ingress # Absent /\ ingress' # Absent => ingress'.rule.host = ingress.rule.host]_vars
  <2> SUFFICES ASSUME Inv, Next, elect, ingress # Absent, ingress' # Absent
               PROVE  ingress'.rule.host = ingress.rule.host
    OBVIOUS
  <2>1. CASE ingress' = ingress BY <2>1
  <2>2. CASE ingress' # ingress
    <3> PICK q \in Processes : TRUE BY <2>2 DEF Next, Change, Age
    <3>1. \E p \in Processes : IngressSteps(p) BY <2>2, OtherSteps DEF Untouched
    <3>2. PICK p \in Processes : WriteIngress(p)
      BY <2>2, <3>1 DEF IngressSteps, ReadDomain, ReadNetwork, GetIngress
    <3> QED BY <2>2, <3>2, WriteIngressOutcomes DEF HostKnown
  <2> QED BY <2>1, <2>2
<1> QED BY <1>1, <1>2, <1>3, PTL DEF Spec, HostStays

\* What holds until a process ends: one process at most has ever led, so one at most has
\* read the domain suffix, and all that was made was made from it.
DomainKnown ==
    elect /\ exits = 0 =>
        /\ \A p \in Processes :
              /\ cache[p].domain # Nil => lease = p
              /\ pass[p].pc = "network" => cache[p].domain # Nil /\ pass[p].host = cache[p].domain
              /\ pass[p].pc \in {"get", "create", "update"} =>
                    /\ cache[p].domain # Nil /\ pass[p].new.rule.host = cache[p].domain
                    /\ pass[p].new.rule.tls \in {Nil, cache[p].domain}
        /\ ingress # Absent => \E p \in Processes :
              /\ cache[p].domain # Nil /\ ingress.rule.host = cache[p].domain
              /\ ingress.rule.tls \in {Nil, cache[p].domain}

LEMMA DomainKnownStep == TypeInv /\ HostKnown /\ DomainKnown /\ [Next]_vars => DomainKnown'
<1> SUFFICES ASSUME TypeInv, HostKnown, DomainKnown, [Next]_vars, elect', exits' = 0
             PROVE  DomainKnown'
  BY DEF DomainKnown
<1>1. CASE ~ \E p \in Processes : IngressSteps(p)
  <2>1. CASE Processes = {} BY <2>1 DEF DomainKnown, Next, Change, Age, vars, settings, world
  <2>2. CASE Processes # {}
    <3>1. elect /\ exits = 0 /\ ingress' = ingress /\ (lease' = lease \/ lease = Nil)
      BY <1>1, <2>2, OtherSteps DEF Untouched
    <3>2. \A q \in Processes :
             /\ cache'[q].domain = cache[q].domain
             /\ pass'[q] = pass[q] \/ pass'[q].pc \notin {"network", "get", "create", "update"}
      BY <1>1, OtherSteps DEF Untouched
    <3>3. \A q \in Processes : cache[q].domain # Nil => lease = q /\ lease' = q
      BY <3>1, ConstantsAssumption DEF DomainKnown
    <3> QED BY <3>1, <3>2, <3>3 DEF DomainKnown
  <2> QED BY <2>1, <2>2
<1>2. ASSUME NEW p \in Processes, ReadDomain(p) PROVE DomainKnown'
  <2>1. UNCHANGED <<elect, exits, lease, ingress>> BY <1>2 DEF ReadDomain, outside, settings
  <2>2. lease = p BY <1>2, <2>1 DEF ReadDomain, TypeInv, TypeOK, Leading
  <2>3. /\ \A q \in Processes \ {p} : pass'[q] = pass[q] /\ cache'[q] = cache[q]
        /\ pass'[p].pc = "network" /\ pass'[p].host = cache'[p].domain
        /\ cache'[p].domain # Nil
        /\ cache[p].domain # Nil => cache'[p].domain = cache[p].domain
    BY <1>2, ConstantsAssumption DEF ReadDomain, Cached, TypeInv, Shape, Known
  <2> QED BY <2>1, <2>2, <2>3 DEF DomainKnown
<1>3. ASSUME NEW p \in Processes, ReadNetwork(p) PROVE DomainKnown'
  <2>1. UNCHANGED <<elect, exits, lease, ingress>> BY <1>3, ReadNetworkOutcomes DEF outside, settings
  <2> QED BY <1>3, <2>1, ReadNetworkOutcomes DEF DomainKnown
<1>4. ASSUME NEW p \in Processes, GetIngress(p) PROVE DomainKnown'
  <2>1. UNCHANGED <<elect, exits, lease, ingress, cache>>
    BY <1>4, GetIngressOutcomes DEF outside, settings
  <2>2. IngressShape(pass[p].new) BY <1>4, <2>1, GetIngressOutcomes DEF HostKnown
  <2>3. /\ KeepHost(pass[p].new).rule.host = ingress.rule.host
        /\ KeepHost(pass[p].new).rule.tls = pass[p].new.rule.tls
    BY <2>2 DEF KeepHost, IngressShape
  <2>4. ingress # Absent => ingress.rule.host = cache[p].domain
    BY <1>4, <2>1, GetIngressOutcomes DEF DomainKnown
  <2> QED BY <1>4, <2>1, <2>3, <2>4, GetIngressOutcomes DEF DomainKnown
<1>5. ASSUME NEW p \in Processes, WriteIngress(p) PROVE DomainKnown'
  <2>1. UNCHANGED <<elect, exits, lease, cache>> BY <1>5, WriteIngressOutcomes DEF outside, settings
  <2> QED BY <1>5, <2>1, WriteIngressOutcomes DEF DomainKnown
<1> QED BY <1>1, <1>2, <1>3, <1>4, <1>5 DEF IngressSteps

\* Hosts of an Ingress and of its certificate agree until a process ends, even if the
\* domain suffix changes meanwhile: generateIngressHost reads it once.
THEOREM CertificatesMatch == Spec => []CertificateMatches
<1> DEFINE Inv == TypeInv /\ HostKnown /\ DomainKnown
<1>1. Init => Inv
  BY TypeInvInit DEF Init, IdlePass, Empty, HostKnown, DomainKnown
<1>2. Inv /\ [Next]_vars => Inv'
  BY ShapeStep, KnownStep, TypeStep, HostKnownStep, DomainKnownStep DEF TypeInv
<1>3. Inv => CertificateMatches BY DEF DomainKnown, CertificateMatches
<1> QED BY <1>1, <1>2, <1>3, PTL DEF Spec
===============================================================================
