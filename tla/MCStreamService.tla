--------------------------- MODULE MCStreamService ---------------------------
(* Bounded environments for internet radio, the Sendspin bridge and         *)
(* discovery.                                                               *)
EXTENDS StreamService

Nothing == [asks |-> 0, late |-> 0, deaths |-> 0, drops |-> 0, stuck |-> 0, fails |-> 0, moves |-> 0, ends |-> 0,
            buses |-> 0, full |-> 0, starts |-> 0, seeks |-> 0, mutes |-> 0, restarts |-> 0]
Calm == [part |-> "live", urls |-> {"live"}, answers |-> TRUE, orphans |-> FALSE, settles |-> FALSE, seen |-> 0,
         left |-> Nothing]
Bridge == [Calm EXCEPT !.part = "sendspin"]
Finding == [Calm EXCEPT !.part = "discovery", !.settles = TRUE]
Explored ==
  { \* requests against a player that gets stuck, with radiod dying
    [Calm EXCEPT !.urls = {"live", "file"}, !.left.asks = 3, !.left.late = 1, !.left.stuck = 1, !.left.deaths = 1],
    [Calm EXCEPT !.part = "files", !.urls = {"file", "opus"}, !.left.asks = 2, !.left.drops = 2, !.left.buses = 1],
    [Calm EXCEPT !.part = "broken", !.urls = {"broken"}, !.left.asks = 2, !.settles = TRUE],
    [Calm EXCEPT !.settles = TRUE, !.left.asks = 2, !.left.drops = 3, !.left.buses = 1, !.left.deaths = 1],
    [Calm EXCEPT !.settles = TRUE, !.urls = {"hls"}, !.left.asks = 1, !.left.fails = 2, !.left.moves = 3],
    [Calm EXCEPT !.urls = {"hls"}, !.part = "hls", !.left.asks = 1, !.left.fails = 1, !.left.moves = 2, !.left.ends = 1,
                 !.left.buses = 1],
    \* the bridge: late answers, seeks, ends
    [Bridge EXCEPT !.settles = TRUE, !.left.starts = 2, !.left.ends = 1, !.left.seeks = 2],
    [Bridge EXCEPT !.left.starts = 2, !.left.late = 2, !.left.seeks = 2],
    [Bridge EXCEPT !.settles = TRUE, !.left.starts = 2, !.left.ends = 2, !.left.late = 3],
    [Bridge EXCEPT !.settles = TRUE, !.left.starts = 2, !.left.ends = 1, !.left.full = 2, !.left.mutes = 1],
    [Bridge EXCEPT !.left.starts = 2, !.left.ends = 1, !.left.late = 2, !.left.deaths = 1, !.left.mutes = 1],
    [Bridge EXCEPT !.settles = TRUE, !.seen = 1, !.left.starts = 2, !.left.restarts = 1, !.left.ends = 1],
    \* discovery: programs that come and go, visitors that fill the table, failing files, mdnsd and its children dying
    [Finding EXCEPT !.left.restarts = 1, !.left.deaths = 1],
    [Finding EXCEPT !.left.moves = 1, !.left.asks = 1],
    [Finding EXCEPT !.left.fails = 1, !.left.asks = 1],
    [Finding EXCEPT !.left.fails = 1, !.left.deaths = 1] }
(* A refusal of a cancel, read late, taken for the answer to a frame. *)
Misread == { [Bridge EXCEPT !.left.starts = 2, !.left.ends = 1, !.left.late = 2, !.left.seeks = 1] }
(* A seek whose cancel is answered late; a refused frame whose refusal is read by the progress poll; a frame muted while unanswered; a companion *)
(* that finds an engine which has seen more generations than it tries. *)
Silenced == { [Bridge EXCEPT !.settles = TRUE, !.left.starts = 1, !.left.seeks = 1, !.left.late = 1],
              [Bridge EXCEPT !.settles = TRUE, !.left.starts = 1, !.left.full = 1, !.left.late = 1],
              [Bridge EXCEPT !.settles = TRUE, !.left.starts = 1, !.left.late = 1, !.left.mutes = 1],
              [Bridge EXCEPT !.settles = TRUE, !.left.starts = 1, !.seen = 3] }
(* radiod killed before its player watches it; an HLS station when the bus goes away. *)
Orphaned == { [Calm EXCEPT !.orphans = TRUE, !.left.asks = 2, !.left.deaths = 1] }
TakenForEnd == { [Calm EXCEPT !.urls = {"hls"}, !.left.asks = 1, !.left.buses = 1, !.left.moves = 2] }
NotTakenForEnd == \A i \in Players : p[i].st = "zombie" /\ p[i].url = "hls" => srv.end \/ ~p[i].played
=============================================================================
