------------------------ MODULE MCDurableQueueScenes ------------------------
(* Two scenes for one run, chosen at the start.  In the first, one producer      *)
(* makes one job and two workers contend for it over time.  In the second, two   *)
(* producers race for two rows of any request, while at most one worker is busy  *)
(* and no time passes.                                                           *)
EXTENDS MCDurableQueue

CONSTANTS j1, p1

VARIABLE scene

LeaseScene ==
    /\ \A j \in Jobs \ {j1} : status'[j] = "absent"
    /\ \A p \in Producers : producer'[p] # producer[p]
                              => p = p1 /\ producer'[p].req \in ReqBoth

RaceScene ==
    /\ Cardinality({w \in Workers : pc'[w] # "idle"}) <= 1
    /\ \A j \in Jobs : spent'[j] = 0 /\ lease'[j].expires >= lease[j].expires
    /\ \A w \in Workers : age'[w] <= age[w]

SceneSpec ==
    /\ Init /\ scene \in {"leases", "races"}
    /\ [][/\ UNCHANGED scene
          /\ \/ scene = "leases" /\ Next /\ LeaseScene
             \/ scene = "races" /\ Next /\ RaceScene
             \/ scene = "races" /\ UNCHANGED vars]_<<vars, scene>>
=============================================================================
