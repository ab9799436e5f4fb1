---------------------------- MODULE MCRevocation ----------------------------
(***************************************************************************)
(* Instances of Revocation. Keys: r is the root, a and b admins it named,  *)
(* c and e admins that a named, d a device of the estate, h a member that  *)
(* votes on nothing.                                                       *)
(***************************************************************************)
EXTENDS Revocation

Hop(x, y, cap) == [grantor |-> x, grantee |-> y, cap |-> cap]

Device == {[cap |-> "dev", grantee |-> "d"]}
DeviceOrAdmin == Device \cup {[cap |-> "adm", grantee |-> "a"]}

Straight == {<<Hop("r", "d", "dev")>>}

RootAndMember == ("r" :> << >>) @@ ("h" :> <<Hop("r", "h", "adm")>>)
RootAndAdmin == ("r" :> << >>) @@ ("a" :> <<Hop("r", "a", "adm")>>)
TwoAdmins == ("a" :> <<Hop("r", "a", "adm")>>) @@ ("b" :> <<Hop("r", "b", "adm")>>)

(* a named both c and e. *)
Named == ("a" :> <<Hop("r", "a", "adm")>>) @@ ("b" :> <<Hop("r", "b", "adm")>>)
         @@ ("c" :> <<Hop("r", "a", "adm"), Hop("a", "c", "adm")>>)
         @@ ("e" :> <<Hop("r", "a", "adm"), Hop("a", "e", "adm")>>)
(* b seconds c, c and e second each other, a seconds c it named. *)
Seconding == [confirmer : {"a", "b", "e"}, grant : {Hop("a", "c", "adm")}]
             \cup [confirmer : {"c"}, grant : {Hop("a", "e", "adm")}]

Base == [nodes |-> {"r", "h"}, issuers |-> {"r"}, learners |-> {"r", "h"},
         chainOf |-> RootAndMember, targets |-> Device, quorums |-> {1}, cuts |-> {0},
         seconds |-> {}, memo |-> TRUE, inOrder |-> TRUE,
         maxMint |-> 4, maxFail |-> 0, maxRestart |-> 1, maxGeneration |-> 5,
         capacity |-> 3, adminCapacity |-> 2, confirmCapacity |-> 2]

(* The root votes, moves its lines and undoes; a member follows its journal. *)
Followed == [Base EXCEPT !.cuts = {0, 1}, !.maxMint = 3]
(* A line moved twice and the vote undone, applied again after each of two   *)
(* restarts, the second in the middle of the first's round.                  *)
Reapplied == [Base EXCEPT !.cuts = {0, 1}, !.learners = {"h"}, !.memo = FALSE,
                !.maxRestart = 2]
(* The same records in any order, repeated, and with a save that fails. *)
AnyOrder == [Base EXCEPT !.inOrder = FALSE, !.memo = FALSE]
Failing == [Base EXCEPT !.inOrder = FALSE, !.memo = FALSE, !.maxMint = 3, !.maxFail = 1]
(* Two admins of a quorum of two. *)
Quorate == [Base EXCEPT !.nodes = {"a", "b"}, !.issuers = {"a", "b"}, !.learners = {"a", "b"},
              !.chainOf = TwoAdmins, !.quorums = {2}, !.memo = FALSE, !.maxMint = 5,
              !.maxRestart = 0]
QuorateAgain == [Quorate EXCEPT !.learners = {"b"}, !.maxMint = 3, !.maxRestart = 1]
(* Admins named by an admin, and whoever seconds them. *)
Seconded == [Base EXCEPT !.nodes = {"a", "b", "c", "e"}, !.issuers = {"a", "c"},
               !.learners = {"b"}, !.chainOf = Named, !.quorums = {2}, !.seconds = Seconding,
               !.memo = FALSE, !.maxMint = 2, !.maxRestart = 0, !.adminCapacity = 4,
               !.confirmCapacity = 3]
(* The root may revoke the admin that votes; k moves; the store is small. *)
Standing == [Base EXCEPT !.nodes = {"r", "a"}, !.issuers = {"r", "a"}, !.learners = {"a"},
               !.chainOf = RootAndAdmin, !.targets = DeviceOrAdmin, !.quorums = {1, 2},
               !.maxMint = 3, !.maxRestart = 0, !.maxGeneration = 3, !.capacity = 2]
(* Long enough for a reissue to overtake the undo before it. *)
Longer == [Base EXCEPT !.inOrder = FALSE, !.memo = FALSE, !.maxMint = 5, !.maxRestart = 0]

AllEstates == [followed |-> Followed, reapplied |-> Reapplied, any |-> AnyOrder, failing |-> Failing,
               quorate |-> Quorate, again |-> QuorateAgain,
               seconded |-> Seconded, standing |-> Standing]
OnlyLines == [lines |-> [Followed EXCEPT !.maxMint = 4]]
OnlyLonger == [longer |-> Longer]
=============================================================================
