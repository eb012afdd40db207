-------------------------- MODULE ClientResolution --------------------------
(***************************************************************************)
(* How a call finds the LiteLLMClient it talks through, and how a process  *)
(* gets to the point of serving calls.                                     *)
(*                                                                         *)
(* helpers.get_client returns the client bound in client_var, else a       *)
(* module global filled on first use; config.get_settings fills a second   *)
(* global the same way.  Neither is locked, and calls run in worker        *)
(* threads, so each read and each write of a global is a step of its own.  *)
(*                                                                         *)
(* main() resolves the client once and probes the proxy before it serves;  *)
(* a host that imports the server and mounts it itself does not: both      *)
(* kinds of process are modelled.                                          *)
(***************************************************************************)
EXTENDS HttpExchange

CONSTANTS
    Workers,    \* the threads that run one tool call each
    Bound,      \* those of Workers whose context binds client_var
    Main,       \* the thread that runs main()
    Keys,       \* the credentials the environment can hold
    NoKey,      \* LITELLM_URL or LITELLM_API_KEY is missing
    None,       \* Python's None in a global or a local
    Probes      \* the answers the proxy may give to the startup probe

ASSUME ConstantsAssumption ==
    /\ Bound \subseteq Workers
    /\ Main \notin Workers
    /\ NoKey \notin Keys
    /\ None \notin Keys \cup {NoKey} \cup Probes
    /\ None \notin [by : Workers \cup {Main}, key : Keys]
    /\ \A t \in Workers : None # [request |-> t]
    /\ Probes \subseteq {NoAnswer} \cup Answers(100..599)

Threads == Workers \cup {Main}

\* A client is known by the thread that built it (each thread resolves a
\* client once, so builds at most one) and the credential it was built with.
Clients == [by : Threads, key : Keys]

\* The client a host bound for one request: built by the host, not here.
BoundClient(t) == [request |-> t]

VARIABLES
    env,        \* the credential in the process environment
    settings,   \* config._settings
    client,     \* helpers._client
    phase,      \* "starting", "serving" or "exited"
    pc,         \* where each thread is
    held,       \* thread-local: the Settings object get_settings returned
    mine,       \* thread-local: the client just built, not yet stored
    used,       \* the client each get_client call returned
    built,      \* history: every client built through get_client
    late,       \* history: the threads that entered once a client was stored
    probe       \* the answer to the startup probe

vars == <<env, settings, client, phase, pc, held, mine, used, built, late, probe>>

locals == <<held, mine, used>>

\* Between finding _client None and storing a client.
Building == {"testSettings", "newSettings", "storeSettings", "loadSettings",
             "newClient", "storeClient"}

Labels == {"idle", "testClient", "load", "resolved", "failed", "done"} \cup Building

\* Main runs main(), or another host mounted the server and nothing does.
Init ==
    /\ env \in Keys \cup {NoKey}
    /\ settings = None
    /\ client = None
    /\ phase \in {"starting", "serving"}
    /\ pc = [t \in Threads |-> "idle"]
    /\ held = [t \in Threads |-> None]
    /\ mine = [t \in Threads |-> None]
    /\ used = [t \in Threads |-> None]
    /\ built = {}
    /\ late = {}
    /\ probe = None

(***************************************************************************)
(* get_client, one step per access to shared state                         *)
(***************************************************************************)

\* The process lets this thread call get_client.
MayEnter(t) ==
    \/ t \in Workers /\ phase = "serving"
    \/ t = Main /\ phase = "starting"

Goto(t, label) == pc' = [pc EXCEPT ![t] = label]

\* client_var.get() found a client: it is returned and no global is touched.
UseBound(t) ==
    /\ pc[t] = "idle" /\ MayEnter(t) /\ t \in Bound
    /\ used' = [used EXCEPT ![t] = BoundClient(t)]
    /\ Goto(t, "resolved")
    /\ late' = IF client # None THEN late \cup {t} ELSE late
    /\ UNCHANGED <<env, settings, client, phase, held, mine, built, probe>>

\* client_var.get() returned None.
Enter(t) ==
    /\ pc[t] = "idle" /\ MayEnter(t) /\ t \notin Bound
    /\ Goto(t, "testClient")
    /\ late' = IF client # None THEN late \cup {t} ELSE late
    /\ UNCHANGED <<env, settings, client, phase, locals, built, probe>>

\* Faulty TestClient: the global is never consulted, each call builds.
BuildAlways(t) ==
    /\ pc[t] = "testClient"
    /\ Goto(t, "testSettings")
    /\ UNCHANGED <<env, settings, client, phase, locals, built, late, probe>>

\* "if _client is None"
TestClient(t) ==
    /\ pc[t] = "testClient"
    /\ Goto(t, IF client = None THEN "testSettings" ELSE "load")
    /\ UNCHANGED <<env, settings, client, phase, locals, built, late, probe>>

\* "if _settings is None", reached from LiteLLMClient.__init__
TestSettings(t) ==
    /\ pc[t] = "testSettings"
    /\ Goto(t, IF settings = None THEN "newSettings" ELSE "loadSettings")
    /\ UNCHANGED <<env, settings, client, phase, locals, built, late, probe>>

\* Settings(): the environment is read here; a missing variable gives "".
NewSettings(t) ==
    /\ pc[t] = "newSettings"
    /\ held' = [held EXCEPT ![t] = env]
    /\ Goto(t, "storeSettings")
    /\ UNCHANGED <<env, settings, client, phase, mine, used, built, late, probe>>

\* "_settings = Settings()"
StoreSettings(t) ==
    /\ pc[t] = "storeSettings"
    /\ settings' = held[t]
    /\ Goto(t, "loadSettings")
    /\ UNCHANGED <<env, client, phase, locals, built, late, probe>>

\* "return _settings": the global is read again.
LoadSettings(t) ==
    /\ pc[t] = "loadSettings"
    /\ held' = [held EXCEPT ![t] = settings]
    /\ Goto(t, "newClient")
    /\ UNCHANGED <<env, settings, client, phase, mine, used, built, late, probe>>

\* Faulty RejectSettings: a failing constructor empties the global.
RejectAndReset(t) ==
    /\ pc[t] = "newClient"
    /\ held[t] \notin Keys
    /\ client' = None
    /\ Goto(t, "load")
    /\ UNCHANGED <<env, settings, phase, locals, built, late, probe>>

\* LiteLLMClient.__init__ once it has its settings: an empty URL or key
\* raises ValueError and leaves _client as it was.
NewClient(t) ==
    /\ pc[t] = "newClient"
    /\ held[t] \in Keys
    /\ mine' = [mine EXCEPT ![t] = [by |-> t, key |-> held[t]]]
    /\ built' = built \cup {[by |-> t, key |-> held[t]]}
    /\ Goto(t, "storeClient")
    /\ UNCHANGED <<env, settings, client, phase, held, used, late, probe>>

\* Faulty RejectSettings: a client without a credential is kept.
RejectAndKeep(t) ==
    /\ pc[t] = "newClient"
    /\ held[t] \notin Keys
    /\ client' = [by |-> t, key |-> held[t]]
    /\ Goto(t, "failed")
    /\ UNCHANGED <<env, settings, phase, locals, built, late, probe>>

RejectSettings(t) ==
    /\ pc[t] = "newClient"
    /\ held[t] \notin Keys
    /\ Goto(t, "failed")
    /\ UNCHANGED <<env, settings, client, phase, locals, built, late, probe>>

\* "_client = LiteLLMClient()"
StoreClient(t) ==
    /\ pc[t] = "storeClient"
    /\ client' = mine[t]
    /\ Goto(t, "load")
    /\ UNCHANGED <<env, settings, phase, locals, built, late, probe>>

\* "return _client": the global is read again.
Load(t) ==
    /\ pc[t] = "load"
    /\ used' = [used EXCEPT ![t] = client]
    /\ Goto(t, "resolved")
    /\ UNCHANGED <<env, settings, client, phase, held, mine, built, late, probe>>

\* get_client once it has read client_var.
ResolveStep(t) ==
    \/ TestClient(t) \/ TestSettings(t) \/ NewSettings(t) \/ StoreSettings(t)
    \/ LoadSettings(t) \/ NewClient(t) \/ RejectSettings(t) \/ StoreClient(t)
    \/ Load(t)

(***************************************************************************)
(* The callers                                                             *)
(***************************************************************************)

\* A tool call is over: its operation went through used[t], or the
\* ValueError of get_client became its error answer.
EndCall(t) ==
    /\ t \in Workers
    /\ pc[t] \in {"resolved", "failed"}
    /\ Goto(t, "done")
    /\ UNCHANGED <<env, settings, client, phase, locals, built, late, probe>>

\* Faulty Probe: main() ignores what check() raises.
ProbeIgnored ==
    /\ phase = "starting" /\ pc[Main] = "resolved"
    /\ \E a \in Probes : probe' = a
    /\ phase' = "serving"
    /\ Goto(Main, "done")
    /\ UNCHANGED <<env, settings, client, locals, built, late>>

\* main(): get_client().check() is answered; what it raises is not caught
\* and ends the process, what it returns is not looked at.
Probe ==
    /\ phase = "starting" /\ pc[Main] = "resolved"
    /\ \E a \in Probes :
         /\ probe' = a
         /\ phase' = IF RequestOutcome(a) \in Returned THEN "serving" ELSE "exited"
    /\ Goto(Main, "done")
    /\ UNCHANGED <<env, settings, client, locals, built, late>>

\* main(): get_client() raised.
RefuseToStart ==
    /\ phase = "starting" /\ pc[Main] = "failed"
    /\ phase' = "exited"
    /\ Goto(Main, "done")
    /\ UNCHANGED <<env, settings, client, locals, built, late, probe>>

\* The host changes its environment (rotates the key, sets it at last).
ChangeEnv ==
    /\ phase # "exited"
    /\ env' \in (Keys \cup {NoKey}) \ {env}
    /\ UNCHANGED <<settings, client, phase, pc, locals, built, late, probe>>

\* The process may idle for good: all calls over, or startup refused.
Stopped ==
    /\ \/ phase = "exited"
       \/ phase = "serving" /\ \A t \in Workers : pc[t] = "done"
    /\ UNCHANGED vars

Next ==
    \/ \E t \in Threads : UseBound(t) \/ Enter(t) \/ ResolveStep(t)
    \/ \E t \in Workers : EndCall(t)
    \/ Probe \/ RefuseToStart \/ ChangeEnv \/ Stopped

Spec == Init /\ [][Next]_vars

(***************************************************************************)
(* Properties                                                              *)
(***************************************************************************)

\* The process was started by main(), not mounted by another host.
Prewarmed == ~(phase = "serving" /\ pc[Main] = "idle")

TypeOK ==
    /\ env \in Keys \cup {NoKey}
    /\ settings \in Keys \cup {NoKey, None}
    /\ client \in Clients \cup {None}
    /\ phase \in {"starting", "serving", "exited"}
    /\ pc \in [Threads -> Labels]
    /\ held \in [Threads -> Keys \cup {NoKey, None}]
    /\ mine \in [Threads -> Clients \cup {None}]
    /\ used \in [Threads -> Clients \cup {BoundClient(t) : t \in Workers} \cup {None}]
    /\ built \subseteq Clients
    /\ late \subseteq Threads
    /\ probe \in Probes \cup {None}

\* get_client never hands out None, although it returns whatever the global
\* holds when it reads it for the second time: nobody empties the global.
NeverHandedNone ==
    \A t \in Threads : pc[t] = "resolved" => used[t] # None

\* A call whose request is bound to a client talks through that client only,
\* whatever the environment holds, and leaves the globals alone.
BoundCallsStayOut ==
    \A t \in Bound :
        /\ pc[t] \in {"idle", "resolved", "done"}
        /\ used[t] \in {None, BoundClient(t)}
        /\ \A c \in built : c.by # t

\* A client in the global was built with a full credential, by a call that
\* entered before any client was there: the unlocked window of get_client is
\* closed for every call that enters after the first store.
WindowCloses ==
    /\ \A t \in late : pc[t] \notin Building /\ \A c \in built : c.by # t
    /\ client # None => client \in built

\* "A bad URL or key fails before the server serves anything": in a process
\* started by main(), all calls share the one client that the startup probe
\* tried, and the proxy answered it without refusing it, however the calls
\* interleave and whatever happens to the environment in the meantime.
CallsUseProbedClient ==
    Prewarmed =>
        \A t \in Workers \ Bound : used[t] # None =>
            /\ used[t] = client /\ used[t].by = Main /\ used[t] = used[Main]
            /\ probe # None /\ probe.status \in 100..399

SingletonUnique == \A c, d \in built : c = d

\* "The module singleton" of get_client's docstring: at most one client is
\* ever built, in a process started by main().  Another host may get several.
PrewarmedSingleton == Prewarmed => SingletonUnique

\* Once filled, neither global is replaced, in a process started by main().
GlobalsSettle ==
    [][/\ Prewarmed /\ settings # None => settings' = settings
       /\ Prewarmed /\ client # None => client' = client]_vars
=============================================================================
