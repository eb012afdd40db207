----------------------- MODULE ClientResolutionProofs -----------------------
(***************************************************************************)
(* Proofs about ClientResolution, for any set of threads, any credentials  *)
(* and any interleaving.                                                   *)
(*                                                                         *)
(* Neither "the window closes" nor "calls use the probed client" is        *)
(* inductive: a thread is harmless because of where it stands.  Shape ties *)
(* each thread's position to what it may have built and to what it is      *)
(* about to return, Startup ties the phase of the process to the main      *)
(* thread's position.                                                      *)
(***************************************************************************)
EXTENDS ClientResolution, TLAPS

\* Positions at which a thread has not built a client yet.
BeforeBuild == {"idle", "testClient", "testSettings", "newSettings",
                "storeSettings", "loadSettings", "newClient"}

\* What the position of a thread says about clients.
Shape ==
    /\ client # None => client \in built
    /\ \A t \in Threads :
         /\ pc[t] \in BeforeBuild => \A c \in built : c.by # t
         /\ pc[t] = "storeClient" => mine[t] \in built
         /\ pc[t] = "load" => client # None
         /\ pc[t] = "resolved" => used[t] # None
    /\ \A t \in late :
         /\ client # None
         /\ pc[t] \notin Building \cup {"idle"}
         /\ \A c \in built : c.by # t

\* How far startup got, in a process started by main().
Startup ==
    /\ phase = "starting" =>
         /\ \A t \in Workers : pc[t] = "idle"
         /\ pc[Main] \in {"resolved", "done"} => used[Main] = client
         /\ pc[Main] # "done"
    /\ phase = "serving" =>
         /\ pc[Main] = "done"
         /\ client # None
         /\ used[Main] = client
         /\ probe # None /\ RequestOutcome(probe) \in Returned
    /\ phase = "exited" =>
         /\ \A t \in Workers : pc[t] = "idle"
         /\ pc[Main] = "done"
    /\ \A t \in Workers : pc[t] # "idle" => t \in late /\ phase = "serving"
    /\ \A t \in Workers \ Bound : used[t] # None => used[t] = client
    /\ \A t \in Workers : pc[t] = "idle" => used[t] = None
    /\ \A c \in built : c.by = Main
    /\ SingletonUnique
    /\ client # None => pc[Main] \in {"load", "resolved", "done"}
    /\ pc[Main] \in {"newSettings", "storeSettings"} => settings = None

IInv ==
    /\ TypeOK
    /\ Shape
    /\ BoundCallsStayOut
    /\ Prewarmed => Startup

-----------------------------------------------------------------------------

\* Every action keeps the variables in their sets.
LEMMA TypeStep ==
    TypeOK /\ [Next]_vars => TypeOK'
<1> SUFFICES ASSUME TypeOK, [Next]_vars
             PROVE  TypeOK'
    OBVIOUS
<1> USE ConstantsAssumption DEF TypeOK, Labels, Building, Clients, Goto, locals, Threads
<1>1. ASSUME NEW t \in Threads, UseBound(t)
      PROVE  TypeOK'
    BY <1>1 DEF UseBound, MayEnter
<1>2. ASSUME NEW t \in Threads, Enter(t)
      PROVE  TypeOK'
    BY <1>2 DEF Enter, MayEnter
<1>3. ASSUME NEW t \in Threads, TestClient(t)
      PROVE  TypeOK'
    BY <1>3 DEF TestClient
<1>4. ASSUME NEW t \in Threads, TestSettings(t)
      PROVE  TypeOK'
    BY <1>4 DEF TestSettings
<1>5. ASSUME NEW t \in Threads, NewSettings(t)
      PROVE  TypeOK'
    BY <1>5 DEF NewSettings
<1>6. ASSUME NEW t \in Threads, StoreSettings(t)
      PROVE  TypeOK'
    BY <1>6 DEF StoreSettings
<1>7. ASSUME NEW t \in Threads, LoadSettings(t)
      PROVE  TypeOK'
    BY <1>7 DEF LoadSettings
<1>8. ASSUME NEW t \in Threads, NewClient(t)
      PROVE  TypeOK'
    BY <1>8 DEF NewClient
<1>9. ASSUME NEW t \in Threads, RejectSettings(t)
      PROVE  TypeOK'
    BY <1>9 DEF RejectSettings
<1>10. ASSUME NEW t \in Threads, StoreClient(t)
      PROVE  TypeOK'
    BY <1>10 DEF StoreClient
<1>11. ASSUME NEW t \in Threads, Load(t)
      PROVE  TypeOK'
    BY <1>11 DEF Load
<1>12. ASSUME NEW t \in Workers, EndCall(t)
      PROVE  TypeOK'
    BY <1>12 DEF EndCall
<1>13. CASE Probe
    BY <1>13 DEF Probe
<1>14. CASE RefuseToStart
    BY <1>14 DEF RefuseToStart
<1>15. CASE ChangeEnv
    BY <1>15 DEF ChangeEnv
<1>16. CASE Stopped \/ UNCHANGED vars
    BY <1>16 DEF Stopped, vars
<1> QED
    BY <1>1, <1>2, <1>3, <1>4, <1>5, <1>6, <1>7, <1>8, <1>9, <1>10, <1>11, <1>12, <1>13, <1>14, <1>15, <1>16
       DEF Next, ResolveStep

\* Every action keeps positions and clients in step.
LEMMA ShapeStep ==
    TypeOK /\ Shape /\ [Next]_vars => Shape'
<1> SUFFICES ASSUME TypeOK, Shape, [Next]_vars
             PROVE  Shape'
    OBVIOUS
<1> USE ConstantsAssumption DEF TypeOK, Shape, Labels, Building, BeforeBuild, Clients, BoundClient, Goto, locals, Threads
<1>1. ASSUME NEW t \in Threads, UseBound(t)
      PROVE  Shape'
    BY <1>1 DEF UseBound, MayEnter
<1>2. ASSUME NEW t \in Threads, Enter(t)
      PROVE  Shape'
    BY <1>2 DEF Enter, MayEnter
<1>3. ASSUME NEW t \in Threads, TestClient(t)
      PROVE  Shape'
    BY <1>3 DEF TestClient
<1>4. ASSUME NEW t \in Threads, TestSettings(t)
      PROVE  Shape'
    BY <1>4 DEF TestSettings
<1>5. ASSUME NEW t \in Threads, NewSettings(t)
      PROVE  Shape'
    BY <1>5 DEF NewSettings
<1>6. ASSUME NEW t \in Threads, StoreSettings(t)
      PROVE  Shape'
    BY <1>6 DEF StoreSettings
<1>7. ASSUME NEW t \in Threads, LoadSettings(t)
      PROVE  Shape'
    BY <1>7 DEF LoadSettings
<1>8. ASSUME NEW t \in Threads, NewClient(t)
      PROVE  Shape'
    BY <1>8 DEF NewClient
<1>9. ASSUME NEW t \in Threads, RejectSettings(t)
      PROVE  Shape'
    BY <1>9 DEF RejectSettings
<1>10. ASSUME NEW t \in Threads, StoreClient(t)
      PROVE  Shape'
    BY <1>10 DEF StoreClient
<1>11. ASSUME NEW t \in Threads, Load(t)
      PROVE  Shape'
    BY <1>11 DEF Load
<1>12. ASSUME NEW t \in Workers, EndCall(t)
      PROVE  Shape'
    BY <1>12 DEF EndCall
<1>13. CASE Probe
    BY <1>13 DEF Probe
<1>14. CASE RefuseToStart
    BY <1>14 DEF RefuseToStart
<1>15. CASE ChangeEnv
    BY <1>15 DEF ChangeEnv
<1>16. CASE Stopped \/ UNCHANGED vars
    BY <1>16 DEF Stopped, vars
<1> QED
    BY <1>1, <1>2, <1>3, <1>4, <1>5, <1>6, <1>7, <1>8, <1>9, <1>10, <1>11, <1>12, <1>13, <1>14, <1>15, <1>16
       DEF Next, ResolveStep

\* A bound call neither builds nor takes a client of the process.
LEMMA BoundStep ==
    TypeOK /\ BoundCallsStayOut /\ [Next]_vars => BoundCallsStayOut'
<1> SUFFICES ASSUME TypeOK, BoundCallsStayOut, [Next]_vars
             PROVE  BoundCallsStayOut'
    OBVIOUS
<1> USE ConstantsAssumption DEF TypeOK, BoundCallsStayOut, Labels, Building, Clients, BoundClient, Goto, locals, Threads
<1>1. ASSUME NEW t \in Threads, UseBound(t)
      PROVE  BoundCallsStayOut'
    BY <1>1 DEF UseBound, MayEnter
<1>2. ASSUME NEW t \in Threads, Enter(t)
      PROVE  BoundCallsStayOut'
    BY <1>2 DEF Enter, MayEnter
<1>3. ASSUME NEW t \in Threads, TestClient(t)
      PROVE  BoundCallsStayOut'
    BY <1>3 DEF TestClient
<1>4. ASSUME NEW t \in Threads, TestSettings(t)
      PROVE  BoundCallsStayOut'
    BY <1>4 DEF TestSettings
<1>5. ASSUME NEW t \in Threads, NewSettings(t)
      PROVE  BoundCallsStayOut'
    BY <1>5 DEF NewSettings
<1>6. ASSUME NEW t \in Threads, StoreSettings(t)
      PROVE  BoundCallsStayOut'
    BY <1>6 DEF StoreSettings
<1>7. ASSUME NEW t \in Threads, LoadSettings(t)
      PROVE  BoundCallsStayOut'
    BY <1>7 DEF LoadSettings
<1>8. ASSUME NEW t \in Threads, NewClient(t)
      PROVE  BoundCallsStayOut'
    BY <1>8 DEF NewClient
<1>9. ASSUME NEW t \in Threads, RejectSettings(t)
      PROVE  BoundCallsStayOut'
    BY <1>9 DEF RejectSettings
<1>10. ASSUME NEW t \in Threads, StoreClient(t)
      PROVE  BoundCallsStayOut'
    BY <1>10 DEF StoreClient
<1>11. ASSUME NEW t \in Threads, Load(t)
      PROVE  BoundCallsStayOut'
    BY <1>11 DEF Load
<1>12. ASSUME NEW t \in Workers, EndCall(t)
      PROVE  BoundCallsStayOut'
    BY <1>12 DEF EndCall
<1>13. CASE Probe
    BY <1>13 DEF Probe
<1>14. CASE RefuseToStart
    BY <1>14 DEF RefuseToStart
<1>15. CASE ChangeEnv
    BY <1>15 DEF ChangeEnv
<1>16. CASE Stopped \/ UNCHANGED vars
    BY <1>16 DEF Stopped, vars
<1> QED
    BY <1>1, <1>2, <1>3, <1>4, <1>5, <1>6, <1>7, <1>8, <1>9, <1>10, <1>11, <1>12, <1>13, <1>14, <1>15, <1>16
       DEF Next, ResolveStep

\* In a process started by main(), only the main thread ever builds.
LEMMA StartupStep ==
    TypeOK /\ Shape /\ BoundCallsStayOut /\ Startup /\ [Next]_vars => Startup'
<1> SUFFICES ASSUME TypeOK, Shape, BoundCallsStayOut, Startup, [Next]_vars
             PROVE  Startup'
    OBVIOUS
<1> USE ConstantsAssumption DEF TypeOK, Shape, BoundCallsStayOut, Startup, SingletonUnique,
           Labels, Building, BeforeBuild, Clients, Goto, locals, Threads
<1>1. ASSUME NEW t \in Threads, UseBound(t)
      PROVE  Startup'
    BY <1>1 DEF UseBound, MayEnter
<1>2. ASSUME NEW t \in Threads, Enter(t)
      PROVE  Startup'
    BY <1>2 DEF Enter, MayEnter
<1>3. ASSUME NEW t \in Threads, TestClient(t)
      PROVE  Startup'
    BY <1>3 DEF TestClient
<1>4. ASSUME NEW t \in Threads, TestSettings(t)
      PROVE  Startup'
    BY <1>4 DEF TestSettings
<1>5. ASSUME NEW t \in Threads, NewSettings(t)
      PROVE  Startup'
    BY <1>5 DEF NewSettings
<1>6. ASSUME NEW t \in Threads, StoreSettings(t)
      PROVE  Startup'
    BY <1>6 DEF StoreSettings
<1>7. ASSUME NEW t \in Threads, LoadSettings(t)
      PROVE  Startup'
    BY <1>7 DEF LoadSettings
<1>8. ASSUME NEW t \in Threads, NewClient(t)
      PROVE  Startup'
    BY <1>8 DEF NewClient
<1>9. ASSUME NEW t \in Threads, RejectSettings(t)
      PROVE  Startup'
    BY <1>9 DEF RejectSettings
<1>10. ASSUME NEW t \in Threads, StoreClient(t)
      PROVE  Startup'
    BY <1>10 DEF StoreClient
<1>11. ASSUME NEW t \in Threads, Load(t)
      PROVE  Startup'
    BY <1>11 DEF Load
<1>12. ASSUME NEW t \in Workers, EndCall(t)
      PROVE  Startup'
    BY <1>12 DEF EndCall
<1>13. CASE Probe
    BY <1>13 DEF Probe
<1>14. CASE RefuseToStart
    BY <1>14 DEF RefuseToStart
<1>15. CASE ChangeEnv
    BY <1>15 DEF ChangeEnv
<1>16. CASE Stopped \/ UNCHANGED vars
    BY <1>16 DEF Stopped, vars
<1> QED
    BY <1>1, <1>2, <1>3, <1>4, <1>5, <1>6, <1>7, <1>8, <1>9, <1>10, <1>11, <1>12, <1>13, <1>14, <1>15, <1>16
       DEF Next, ResolveStep

\* A process that was not started by main() never is.
LEMMA MountedStays ==
    TypeOK /\ [Next]_vars /\ Prewarmed' => Prewarmed
<1> SUFFICES ASSUME TypeOK, [Next]_vars, ~Prewarmed
             PROVE  ~Prewarmed'
    OBVIOUS
<1> USE ConstantsAssumption DEF TypeOK, Prewarmed, Goto, locals, Threads
<1>1. ASSUME NEW t \in Threads, UseBound(t) \/ Enter(t) \/ ResolveStep(t)
      PROVE  ~Prewarmed'
  <2>1. t # Main
      BY <1>1 DEF UseBound, Enter, MayEnter, ResolveStep, TestClient, TestSettings, NewSettings,
                  StoreSettings, LoadSettings, NewClient, RejectSettings, StoreClient, Load
  <2> QED
      BY <1>1, <2>1 DEF UseBound, Enter, ResolveStep, TestClient, TestSettings, NewSettings,
                  StoreSettings, LoadSettings, NewClient, RejectSettings, StoreClient, Load
<1>2. ASSUME NEW t \in Workers, EndCall(t)
      PROVE  ~Prewarmed'
    BY <1>2 DEF EndCall
<1>3. CASE Probe \/ RefuseToStart
    BY <1>3 DEF Probe, RefuseToStart
<1>4. CASE ChangeEnv \/ Stopped \/ UNCHANGED vars
    BY <1>4 DEF ChangeEnv, Stopped, vars
<1> QED
    BY <1>1, <1>2, <1>3, <1>4 DEF Next

THEOREM Initial == Init => IInv
<1> SUFFICES ASSUME Init
             PROVE  IInv
    OBVIOUS
<1> USE ConstantsAssumption
    DEF Init, Threads
<1>1. TypeOK
    BY DEF TypeOK, Labels
<1>2. Shape /\ BoundCallsStayOut
    BY DEF Shape, BoundCallsStayOut
<1>3. ASSUME Prewarmed PROVE Startup
    BY <1>3 DEF Prewarmed, Startup, SingletonUnique
<1> QED
    BY <1>1, <1>2, <1>3 DEF IInv

\* IInv holds in every reachable state.
THEOREM Invariance == Spec => []IInv
<1>1. IInv /\ [Next]_vars => IInv'
  <2> SUFFICES ASSUME IInv, [Next]_vars
               PROVE  IInv'
      OBVIOUS
  <2>1. TypeOK' /\ Shape' /\ BoundCallsStayOut'
      BY TypeStep, ShapeStep, BoundStep DEF IInv
  <2>2. Prewarmed' => Startup'
      BY StartupStep, MountedStays DEF IInv
  <2> QED
      BY <2>1, <2>2 DEF IInv
<1> QED
    BY Initial, <1>1, PTL DEF Spec

\* The globals and the thread-local state of get_client stay in their types.
THEOREM TypeCorrect == Spec => []TypeOK
<1>1. IInv => TypeOK
    BY DEF IInv
<1> QED
    BY Invariance, <1>1, PTL

\* get_client returns a client or raises, it never returns None.
THEOREM NeverHandedNoneThm == Spec => []NeverHandedNone
<1>1. IInv => NeverHandedNone
    BY DEF IInv, Shape, NeverHandedNone
<1> QED
    BY Invariance, <1>1, PTL

\* Request-scoped clients and the process-wide client never mix.
THEOREM BoundCallsStayOutThm == Spec => []BoundCallsStayOut
<1>1. IInv => BoundCallsStayOut
    BY DEF IInv
<1> QED
    BY Invariance, <1>1, PTL

\* The unlocked check-then-act can only be lost by calls that entered before
\* the first client was stored, whatever the number of threads.
THEOREM WindowClosesThm == Spec => []WindowCloses
<1>1. IInv => WindowCloses
    BY DEF IInv, Shape, WindowCloses
<1> QED
    BY Invariance, <1>1, PTL

\* main() serves only after an answer below 400.
LEMMA ServingProbed ==
    ASSUME IInv, Prewarmed, phase = "serving"
    PROVE  probe # None /\ probe.status \in 100..399
<1>1. probe \in Probes /\ probe # None /\ RequestOutcome(probe) \in Returned
    BY DEF IInv, TypeOK, Startup
<1>2. probe # NoAnswer
    BY <1>1 DEF RequestOutcome, Returned
<1>3. probe \in Answers(100..599)
    BY <1>1, <1>2, ConstantsAssumption
<1>4. ~(probe.status >= 400)
    BY <1>1, <1>2, <1>3
    DEF RequestOutcome, RefusalOf, JsonOf, Returned, Answers, BodyKinds
<1> QED
    BY <1>1, <1>3, <1>4 DEF Answers

\* Behind main(), every unbound call talks through the probed client.
THEOREM CallsUseProbedClientThm == Spec => []CallsUseProbedClient
<1>1. IInv => CallsUseProbedClient
  <2> SUFFICES ASSUME IInv, Prewarmed, NEW t \in Workers \ Bound, used[t] # None
               PROVE  /\ used[t] = client /\ used[t].by = Main /\ used[t] = used[Main]
                      /\ probe # None /\ probe.status \in 100..399
      BY DEF CallsUseProbedClient
  <2>1. phase = "serving"
      BY DEF IInv, Startup
  <2> QED
      BY <2>1, ServingProbed, ConstantsAssumption DEF IInv, Startup, Shape, TypeOK, Threads
<1> QED
    BY Invariance, <1>1, PTL

\* Behind main(), get_client builds one client in the life of the process.
THEOREM PrewarmedSingletonThm == Spec => []PrewarmedSingleton
<1>1. IInv => PrewarmedSingleton
    BY DEF IInv, Startup, PrewarmedSingleton
<1> QED
    BY Invariance, <1>1, PTL

\* Behind main(), neither global is ever replaced once filled.
THEOREM GlobalsSettleThm == Spec => GlobalsSettle
<1> DEFINE Kept == /\ Prewarmed /\ settings # None => settings' = settings
                   /\ Prewarmed /\ client # None => client' = client
<1>1. ASSUME Prewarmed, IInv, [Next]_vars
      PROVE  [Kept]_vars
  <2> USE <1>1, ConstantsAssumption DEF IInv, Startup, Threads
  <2>1. ASSUME NEW t \in Threads, StoreSettings(t)
        PROVE  Kept
    <3>1. t = Main
        BY <2>1 DEF StoreSettings, Shape, Building
    <3> QED
        BY <2>1, <3>1 DEF StoreSettings
  <2>2. ASSUME NEW t \in Threads, StoreClient(t)
        PROVE  Kept
    <3>1. t = Main
        BY <2>2 DEF StoreClient, Shape, Building
    <3> QED
        BY <2>2, <3>1 DEF StoreClient
  <2>3. ASSUME NEW t \in Threads,
               \/ UseBound(t) \/ Enter(t) \/ TestClient(t) \/ TestSettings(t)
               \/ NewSettings(t) \/ LoadSettings(t) \/ NewClient(t)
               \/ RejectSettings(t) \/ Load(t)
        PROVE  Kept
      BY <2>3 DEF UseBound, Enter, TestClient, TestSettings, NewSettings,
                  LoadSettings, NewClient, RejectSettings, Load
  <2>4. ASSUME NEW t \in Workers, EndCall(t)
        PROVE  Kept
      BY <2>4 DEF EndCall
  <2>5. CASE Probe \/ RefuseToStart \/ ChangeEnv \/ Stopped \/ UNCHANGED vars
      BY <2>5 DEF Probe, RefuseToStart, ChangeEnv, Stopped, vars
  <2> QED
      BY <2>1, <2>2, <2>3, <2>4, <2>5 DEF Next, ResolveStep
<1>2. IInv /\ [Next]_vars => [Kept]_vars
    BY <1>1
<1> QED
    BY Invariance, <1>2, PTL DEF Spec, GlobalsSettle
=============================================================================
