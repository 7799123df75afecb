----------------------------- MODULE MCLayover -----------------------------
(* The scenarios keep apart what does not interact: the tag, the      *)
(* pull request, the two queued one behind the other, and repeated         *)
(* deliveries with a clock and a restart.                                  *)
EXTENDS Layover

MCPeel == [o \in Objects |-> "commit"]
Github == [forge |-> "github", required |-> Checks, delete |-> TRUE]
Forgejo == [forge |-> "forgejo", required |-> {}, delete |-> TRUE]
MCSettings == {Github, Forgejo}

Quiet == [enabled |-> <<"notify">>, changes |-> 0, moves |-> 0, arrivals |-> 0, time |-> 0,
          restarts |-> 0, others |-> FALSE, chatter |-> FALSE, settings |-> {Github},
          tags |-> {NoTag}]
MCScenarios ==
    {[Quiet EXCEPT !.enabled = <<"release">>, !.moves = 1, !.arrivals = 1,
                   !.others = TRUE, !.tags = Tag],
     [Quiet EXCEPT !.enabled = <<"merge">>, !.changes = 3, !.arrivals = 1,
                   !.settings = MCSettings],
     [Quiet EXCEPT !.enabled = <<"release", "merge">>, !.changes = 1, !.moves = 1,
                   !.arrivals = 2, !.settings = {Forgejo}, !.tags = Tag],
     [Quiet EXCEPT !.chatter = TRUE, !.arrivals = 3, !.time = 1],
     [Quiet EXCEPT !.chatter = TRUE, !.arrivals = 2, !.time = 1, !.restarts = 1]}
=============================================================================
