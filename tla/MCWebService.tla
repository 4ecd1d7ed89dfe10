----------------------------- MODULE MCWebService -----------------------------
(* Bounded environments for what the web daemon administers. *)
EXTENDS WebService

Nothing == [faults |-> 0, puts |-> 0, posts |-> 0, deaths |-> 0, logins |-> 0, outs |-> 0, hours |-> 0]
Quiet == [part |-> "boot", doc |-> "none", marker |-> "none", account |-> "none", settles |-> FALSE,
          lame |-> {}, dies |-> {"btd", "waked"}, busy |-> {"btd", "agentd", "waked"}, hangs |-> FALSE, left |-> Nothing]
Settling == [Quiet EXCEPT !.settles = TRUE]
Explored ==
  { \* a document, refusals, crashes
    [Settling EXCEPT !.doc = "good", !.left.faults = 2, !.left.deaths = 1],
    [Settling EXCEPT !.doc = "bad", !.left.faults = 1, !.left.deaths = 1],
    [Quiet EXCEPT !.doc = "good", !.account = "owner", !.left.faults = 1, !.left.puts = 1],
    [Quiet EXCEPT !.doc = "good", !.account = "owner", !.marker = "valid", !.left.deaths = 1, !.left.puts = 1],
    [Quiet EXCEPT !.marker = "bad", !.left.puts = 1],
    \* the wizard against later changes, failing saves and other changes of network
    [Quiet EXCEPT !.left.puts = 2, !.left.faults = 1, !.left.posts = 1],
    [Quiet EXCEPT !.doc = "good", !.left.puts = 1, !.left.posts = 1, !.left.deaths = 1],
    \* sessions
    [Quiet EXCEPT !.part = "accounts", !.left = [Nothing EXCEPT !.logins = 3, !.outs = 1, !.deaths = 2, !.hours = 1]],
    [Quiet EXCEPT !.part = "accounts", !.left = [Nothing EXCEPT !.logins = 2, !.outs = 2, !.deaths = 1, !.hours = 2]],
    \* a reset, refused at any step, with services that die and recover
    [Settling EXCEPT !.part = "reset", !.left.posts = 1, !.left.faults = 1, !.left.deaths = 1],
    [Settling EXCEPT !.part = "reset", !.left.posts = 1, !.left.faults = 1, !.lame = {"watchdogd", "btd", "waked", "micd"}],
    [Settling EXCEPT !.part = "reset", !.left.posts = 1, !.left.faults = 2],
    \* the clock
    [Settling EXCEPT !.part = "clock", !.left.faults = 3, !.left.deaths = 1],
    [Settling EXCEPT !.part = "clock", !.hangs = TRUE, !.left.faults = 1, !.left.deaths = 1] }
(* A refused reset during which btd dies, or is gone although its stop failed. *)
Refused == { [Settling EXCEPT !.part = "reset", !.left.posts = 1, !.left.faults = 1, !.dies = {"btd"}, !.left.deaths = 1],
             [Settling EXCEPT !.part = "reset", !.left.posts = 1, !.left.faults = 1, !.lame = {"btd"}] }
=============================================================================
