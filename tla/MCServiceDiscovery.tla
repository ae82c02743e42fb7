-------------------------- MODULE MCServiceDiscovery --------------------------
(* Two services in the order they are loaded: the discovery comes before    *)
(* the source service it needs.  Two servers, of two services that are      *)
(* watched, one listed after the other.                                    *)
EXTENDS ServiceDiscovery

MCServices == <<"service_discovery", "source">>
MCHosts == {"confd", "other"}
MCNames == <<"wazo-confd", "wazo-other">>
MCServiceOf == [h \in MCHosts |-> IF h = "confd" THEN "wazo-confd" ELSE "wazo-other"]
NoObstacle == [h \in MCHosts |-> "none"]
MCObstacles ==
  {NoObstacle, [NoObstacle EXCEPT !["confd"] = "template"], [NoObstacle EXCEPT !["other"] = "homonym"]}

(* To bound the run, where a server can have no source the services all     *)
(* load, and the process is signalled or started again but once.            *)
MCSpec ==
  /\ Init
  /\ (\E h \in MCHosts : obstacle[h] # "none") => failing = Unset
  /\ [][Next /\ ((\E h \in MCHosts : obstacle[h] # "none") => signals' + runs' < MaxSignalsAndRuns)]_vars
  /\ Fairness
=============================================================================
