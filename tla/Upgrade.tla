------------------------------ MODULE Upgrade ------------------------------
(***************************************************************************)
(* What a firmware upgrade with a backup image promises, whatever flash     *)
(* operations carry it out and wherever the power fails: the device runs    *)
(* one complete version, and a boot runs the version committed last.        *)
(***************************************************************************)
CONSTANTS Versions, NoVersion

VARIABLES running,  \* the version running, NoVersion while the device is down
          next      \* the version the next boot runs

Init == running = NoVersion /\ next \in Versions

(* The device comes up. *)
Boot == running = NoVersion /\ running' = next /\ UNCHANGED next

(* The running version hands over to version v and the device restarts. *)
Commit(v) == running # NoVersion /\ next' = v /\ running' = NoVersion

(* The device loses power. *)
GoDown == running' = NoVersion /\ UNCHANGED next

Next == Boot \/ GoDown \/ \E v \in Versions : Commit(v)

UpgradeSpec == Init /\ [][Next]_<<running, next>>
=============================================================================
