---------------------------- MODULE ServedIndex ----------------------------
(***************************************************************************)
(* What the title index promises its readers, whoever builds the files and *)
(* however they are renamed: answers come out of an index whose build had  *)
(* finished, and the index they come from changes in one step.  Between    *)
(* two indexes there may be none, when the server is down.                 *)
(***************************************************************************)
CONSTANTS Indexes, Nothing

VARIABLES finished, served

Init == finished \subseteq Indexes /\ served = Nothing

Finish(i) == finished' = finished \cup {i} /\ UNCHANGED served

Serve(i) == i \in finished /\ served' = i /\ UNCHANGED finished

Delete(i) == i # served /\ finished' = finished \ {i} /\ UNCHANGED served

Close == served' = Nothing /\ UNCHANGED finished

Next == Close \/ \E i \in Indexes : Finish(i) \/ Serve(i) \/ Delete(i)

Spec == Init /\ [][Next]_<<finished, served>>
=============================================================================
