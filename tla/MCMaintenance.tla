--------------------------- MODULE MCMaintenance ---------------------------
(* Instances of Maintenance for TLC. *)
EXTENDS Maintenance

Plain == [version |-> 1, pin |-> 0, frozen |-> FALSE, auto |-> FALSE]
Pinned == [Plain EXCEPT !.pin = 1]
Auto == [Plain EXCEPT !.auto = TRUE]
Wishes == {Plain, [Plain EXCEPT !.version = 2], Pinned, [Plain EXCEPT !.frozen = TRUE], Auto}

\* The claim is moved while revisions are published, the Release is patched while
\* versions are published, and both.
Nothing == [b \in Bounded |-> 0]
Releases ==
  [claim |-> Plain, disabled |-> {"service"}, source |-> "none", newest |-> 1, aged |-> 0,
   latest |-> 3, budget |-> [Nothing EXCEPT !.hotfixes = 1]]
Updates ==
  [claim |-> Plain, disabled |-> {"release"}, source |-> "mirror", newest |-> 2, aged |-> 2,
   latest |-> 1, budget |-> [Nothing EXCEPT !.edits = 1, !.overlaps = 1, !.backups = 1]]
Both ==
  [claim |-> Plain, disabled |-> {}, source |-> "claim", newest |-> 2, aged |-> 2,
   latest |-> 2, budget |-> [Nothing EXCEPT !.faults = 1]]
Scenarios ==
  {Releases, [Releases EXCEPT !.claim = Auto, !.budget = [Nothing EXCEPT !.edits = 1]],
   [Updates EXCEPT !.claim = Pinned, !.source = "none", !.budget = [Nothing EXCEPT !.edits = 1]],
   Updates}
  \cup {[Both EXCEPT !.claim = c] : c \in Wishes}
  \cup {[Both EXCEPT !.disabled = {"management"}]}
============================================================================
