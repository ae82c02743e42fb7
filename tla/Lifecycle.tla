------------------------------ MODULE Lifecycle ------------------------------
(***************************************************************************)
(* Controller.run: the services are loaded, then the views, the bus starts, *)
(* the HTTP server serves until a signal stops it, unless it cannot start,   *)
(* and all of it is undone.                                                *)
(* A signal only starts a thread that stops the server, if there is one.    *)
(***************************************************************************)
EXTENDS Naturals, Sequences, FiniteSets

CONSTANTS
  Services,    \* the enabled services, in the order of their names
  Unset,
  MaxRuns, MaxSignalsAndRuns  \* bounds

VARIABLES
  phase,     \* where the main thread is
  loaded,    \* services that load_services has come to
  services,  \* Controller.services, Unset until it returns
  failing,   \* a service that cannot be loaded, Unset for none
  bus,       \* whether the consumer of the bus runs
  server,    \* CoreRestApi.server: none, created, ready, stopped or failed
  stopper,   \* _stopping_thread: none, running or done
  signals,   \* how many came
  heard,     \* one of them found the server ready
  hung,      \* a future of an executor never ends
  runs       \* how many times dird was started

plugins == <<loaded, services, failing>>
signalling == <<stopper, signals, heard>>
lifeVars == <<phase, plugins, bus, server, signalling, hung, runs>>

Source == "source"
Discovery == "service_discovery"
Ended == phase = "exited"

(* The names of the services differ, and the source service is one of them  *)
(* (config.py, enabled_plugins).                                           *)
ASSUME LifeAssumption ==
  /\ Services \in Seq(STRING)
  /\ \A i, j \in DOMAIN Services : Services[i] = Services[j] => i = j
  /\ \E i \in DOMAIN Services : Services[i] = Source
  /\ Unset \notin {Services[i] : i \in DOMAIN Services}
  /\ \A loads \in SUBSET {Services[i] : i \in DOMAIN Services} : Unset # loads
  /\ MaxRuns \in Nat \ {0} /\ MaxSignalsAndRuns \in Nat \ {0}

Main(from, to) == phase = from /\ phase' = to /\ UNCHANGED <<signalling, hung, runs>>

(* load_services: a plugin that raises is left out, and the others see the   *)
(* services once all of them are loaded.                                   *)
LoadService ==
  /\ Cardinality(loaded) < Len(Services) /\ Main("loading", "loading")
  /\ loaded' = loaded \cup {Services[Cardinality(loaded) + 1]}
  /\ UNCHANGED <<services, failing, bus, server>>
LoadViews ==
  /\ Cardinality(loaded) = Len(Services) /\ Main("loading", "wiring")
  /\ services' = loaded \ {failing}
  /\ UNCHANGED <<loaded, failing, bus, server>>

(* set_source_service: without the source service it is a KeyError.         *)
SetSourceService ==
  /\ Main("wiring", IF Source \in services THEN "bus" ELSE "exited")
  /\ UNCHANGED <<plugins, bus, server>>
StartBus == Main("bus", "server") /\ bus' = TRUE /\ UNCHANGED <<plugins, server>>

(* CoreRestApi.run: the server is made, and then serves, or raises when its  *)
(* port is taken.                                                          *)
CreateServer == Main("server", "serving") /\ server' = "created" /\ UNCHANGED <<plugins, bus>>
Serve ==
  /\ Main("serving", "serving") /\ server = "created" /\ server' = "ready"
  /\ UNCHANGED <<plugins, bus>>

CannotServeWithoutFinally ==
  /\ Main("serving", "exited") /\ server = "created" /\ server' = "failed"
  /\ UNCHANGED <<plugins, bus>>
CannotServe ==
  /\ Main("serving", "serving") /\ server = "created" /\ server' = "failed"
  /\ UNCHANGED <<plugins, bus>>

(* The finally of run: the views, the services, whose executors wait for     *)
(* their futures, and the sources, whose unloading may raise (SourceManager). *)
Unload ==
  /\ server \in {"stopped", "failed"} /\ ~hung
  /\ Main("serving", "joining") \/ Main("serving", "stopping the bus")
  /\ UNCHANGED <<plugins, bus, server>>
Join ==
  /\ stopper # "running" /\ Main("joining", "stopping the bus")
  /\ UNCHANGED <<plugins, bus, server>>
StopBus == Main("stopping the bus", "exited") /\ bus' = FALSE /\ UNCHANGED <<plugins, server>>

(***************************************************************************)
(* Signals, whose handler interrupts the main thread wherever it is, and    *)
(* the thread it starts.                                                   *)
(***************************************************************************)
StartStopperOnce == IF stopper = "none" THEN "running" ELSE stopper
StartStopper == "running"

Signal ==
  /\ ~Ended /\ signals + runs < MaxSignalsAndRuns
  /\ signals' = signals + 1
  /\ stopper' = StartStopper
  /\ heard' = (heard \/ server = "ready")
  /\ UNCHANGED <<phase, plugins, bus, server, hung, runs>>

StopServer ==
  /\ ~Ended /\ stopper = "running" /\ stopper' = "done"
  /\ server' = IF server = "ready" THEN "stopped" ELSE server
  /\ UNCHANGED <<phase, plugins, bus, signals, heard, hung, runs>>

(* A request has its sources searched by an executor, and one of them hangs. *)
Hang ==
  /\ server = "ready" /\ ~Ended /\ hung' = TRUE
  /\ UNCHANGED <<phase, plugins, bus, server, signalling, runs>>

(* The process starts again from nothing, after it ended or was killed.      *)
Restart ==
  /\ runs < MaxRuns /\ signals + runs < MaxSignalsAndRuns /\ runs' = runs + 1
  /\ phase' = "loading" /\ loaded' = {} /\ services' = Unset
  /\ bus' = FALSE /\ server' = "none" /\ stopper' = "none" /\ heard' = FALSE /\ hung' = FALSE
  /\ UNCHANGED <<failing, signals>>

LifeInit ==
  /\ phase = "loading" /\ loaded = {} /\ services = Unset
  /\ failing \in {Services[i] : i \in DOMAIN Services} \cup {Unset}
  /\ bus = FALSE /\ server = "none" /\ stopper = "none" /\ signals = 0 /\ heard = FALSE
  /\ hung = FALSE /\ runs = 1

MainStep ==
  \/ LoadService \/ LoadViews \/ SetSourceService \/ StartBus \/ CreateServer \/ Serve \/ CannotServe
  \/ Unload \/ Join \/ StopBus

LifeNext == MainStep \/ Signal \/ StopServer \/ Hang
LifeFairness == WF_lifeVars(MainStep) /\ WF_lifeVars(StopServer)

LifeTypeOK ==
  /\ loaded \subseteq {Services[i] : i \in DOMAIN Services}
  /\ services = Unset \/ services \subseteq loaded
  /\ server \in {"none", "created", "ready", "stopped", "failed"} /\ stopper \in {"none", "running", "done"}
  /\ hung \in BOOLEAN /\ bus \in BOOLEAN /\ heard \in BOOLEAN
  /\ signals \in Nat /\ signals + runs <= MaxSignalsAndRuns /\ runs \in 1 .. MaxRuns

-------------------------------------------------------------------------------
(* A signal that comes once the server serves stops the process, unless a   *)
(* future hangs, for which its executor waits without a limit.  One that    *)
(* comes before is lost: stop() finds no server, and run() starts it after.  *)
SignalIsObeyed == [](heard => <>(~heard \/ Ended \/ hung))

(* What serves is whole: every service that could be loaded, the source      *)
(* service among them, and the bus.  It ends for a signal, for a source       *)
(* service that is not there, or for a server that could not start, and       *)
(* however it ends the consumer of the bus was stopped.                    *)
ServesWhole ==
  /\ server = "ready" =>
       /\ bus /\ phase = "serving"
       /\ Source \in services /\ services = {Services[i] : i \in DOMAIN Services} \ {failing}
  /\ phase = "exited" => ~bus /\ (signals > 0 \/ failing = Source \/ server = "failed")
=============================================================================
