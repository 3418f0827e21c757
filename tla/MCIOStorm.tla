----------------------------- MODULE MCIOStorm -----------------------------
(* Model values for IOStorm.  A unit is about 27 MB: floor 50 MB, writer   *)
(* threshold 80 MB, suggested cap 100 to 120 MB, a burst of 140 MB.        *)
EXTENDS IOStorm

MCContainers == {101, 102}

\* One disk: what is detected, and who is capped.
MCOneDevice == {1}
MCOneMount == [c \in MCContainers |-> {1}]

\* Two disks, both mounted by 101: where the cap lands.
MCTwoDevices == {1, 2}
MCTwoMounts == [c \in MCContainers |-> IF c = 101 THEN {1, 2} ELSE {1}]

MCApply == [undo |-> FALSE, dryRun |-> FALSE, wbps |-> 0, device |-> NoDevice]
MCCommandLines ==
    {MCApply,
     [MCApply EXCEPT !.wbps = 1],               \* below the floor
     [MCApply EXCEPT !.wbps = -1, !.device = 1],
     [MCApply EXCEPT !.dryRun = TRUE],
     [MCApply EXCEPT !.undo = TRUE]}
=============================================================================
