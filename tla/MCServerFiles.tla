---------------------------- MODULE MCServerFiles ----------------------------
(* Model values for ServerFiles: a gibibyte of four units, three machines, *)
(* two workloads; an empty directory, one with an accepted EULA only, and  *)
(* a live server's.                                                        *)
EXTENDS ServerFiles

MCMachines == {[cores |-> 300, budget |-> 32, disk |-> "ssd", container |-> TRUE],
               [cores |-> 150, budget |-> 9, disk |-> "hdd", container |-> FALSE],
               [cores |-> 1600, budget |-> 0, disk |-> "unknown", container |-> FALSE]}
MCFlags == {[players |-> 2, perfMods |-> TRUE, clustered |-> FALSE, settled |-> FALSE],
            [players |-> 9, perfMods |-> FALSE, clustered |-> TRUE, settled |-> TRUE]}
MCJars == <<"server.jar", "lithium.jar">>
MCKeys == {"view-distance", "simulation-distance"}
MCEmpty == [f \in FileNames |-> NoFile]
\* view-distance is set twice; simulation-distance is missing and locked
MCLive == [MCEmpty EXCEPT
    !["server.properties"] = <<Comment, Line("view-distance", 10), Line("motd", 1),
                               Line("view-distance", 12)>>,
    !["eula.txt"] = <<Line("eula", 1)>>,
    !["tickwarden.toml"] = <<Line("simulation-distance", 1)>>]
MCAccepted == [MCEmpty EXCEPT !["eula.txt"] = <<Line("eula", 1)>>]
MCDirectories == {MCEmpty, MCAccepted, MCLive}
=============================================================================
