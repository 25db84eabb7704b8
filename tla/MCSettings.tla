----------------------------- MODULE MCSettings ------------------------------
(* A small instance of Settings: one pod per role, two licenses of two      *)
(* organizations, two images of which the newer has one flag more.          *)
EXTENDS Settings

CONSTANTS d, c, e

MCDataPods        == <<d>>
MCCoordinatorPods == <<c>>
MCIssued          == [l \in {"l1", "l2"} |-> IF l = "l1" THEN "o1" ELSE "o2"]
MCConfig          == [i \in {1, 2} |-> IF i = 1 THEN {} ELSE {"newer"}]

MCFirstSpec == [image |-> 1, level |-> 0, coordinators |-> {"raft"}, data |-> {}]
MCSpecs == {
  MCFirstSpec,
  [image |-> 2, level |-> 1, coordinators |-> {"newer"}, data |-> {"newer"}],
  [image |-> 1, level |-> 9, coordinators |-> {}, data |-> {"typo"}] }

(* Two coordinators, and a coordinator setting added to a running cluster. *)
MCTwoCoordinators == <<c, e>>
MCPlainSpec       == [MCFirstSpec EXCEPT !.coordinators = {}]
MCSettingSpecs    == {MCPlainSpec, MCFirstSpec}
=============================================================================
