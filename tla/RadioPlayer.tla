----------------------------- MODULE RadioPlayer -----------------------------
(* Internet radio: radiod serves one request at a time and forks one player *)
(* per play; the player reconnects by itself, and for an HLS station forks  *)
(* a fetcher that walks the playlist into a pipe.                           *)
EXTENDS Integers, Sequences, FiniteSets, FiniteSetsExt

CONSTANTS Players,     \* how many plays are explored, numbered from 1
          Tries,       \* RECONNECT_TRIES
          Fails,       \* HLS_SEGMENT_FAILS
          Stalls,      \* HLS_STALL_REFRESHES
          ListMax,     \* LE_HLS_MAX_SEGMENTS
          PipeRoom     \* segments the fetcher's pipe holds
ASSUME RadioAssumption == /\ Players \subseteq Nat \ {0}
                          /\ {Tries, Fails, Stalls, ListMax, PipeRoom} \subseteq Nat \ {0}
VARIABLES
  r,     \* radiod: player_pid, player_paused, playing_url, playing_title
  p,     \* the player processes
  f,     \* the fetcher of the current HLS attempt
  srv,   \* what the HLS server lists: segments lo..hi, and whether it ended
  bus    \* the media bus can be opened and written
radioVars == <<r, p, f, srv, bus>>

Stations == {"live", "file", "opus", "broken", "hls"}
NoPlayer == [up |-> TRUE, pid |-> 0, paused |-> FALSE, lost |-> FALSE, url |-> "none", title |-> 0]
Unborn == [st |-> "none", doom |-> "no", halt |-> FALSE, busy |-> FALSE, url |-> "none",
           phase |-> "opens", played |-> FALSE, barren |-> 0, told |-> FALSE, passes |-> 0]
NoFetcher == [st |-> "off", next |-> 0, fails |-> 0, stalled |-> 0, list |-> {}, end |-> FALSE,
              got |-> FALSE, pipe |-> <<>>, sent |-> <<>>]
RadioInit == /\ r = NoPlayer
             /\ p = [i \in Players |-> Unborn] /\ f = NoFetcher
             /\ srv = [lo |-> 1, hi |-> 1, end |-> FALSE] /\ bus = TRUE

Alive(i) == p[i].st \in {"forked", "runs"}
Heeds(i) == p[i].st = "runs" /\ ~p[i].busy
Acts(i) == Heeds(i) /\ ~p[i].halt /\ p[i].doom = "no"
Plays(i, kind) == Acts(i) /\ p[i].phase = "plays" /\ p[i].url = kind

----------------------------------------------------------------------------
(* The parent.  Every request first takes what the player said and buries   *)
(* it if it ended.                                                          *)
Forget(s) == [NoPlayer EXCEPT !.up = s.up]
Drained == IF r.pid # 0 /\ p[r.pid].told THEN [r EXCEPT !.title = r.pid] ELSE r
Reaped == IF r.pid # 0 /\ p[r.pid].st = "zombie" THEN Forget(Drained) ELSE Drained
Buried == [i \in Players |-> IF i = r.pid /\ p[i].st = "zombie" THEN [p[i] EXCEPT !.st = "gone"] ELSE p[i]]
Status == r.up /\ r' = Reaped /\ p' = Buried /\ UNCHANGED <<f, srv, bus>>

(* SIGTERM, and SIGCONT when it is known to be paused; SIGKILL after 200 ms *)
(* and a failure after 400.  late: still inside a read that cannot be       *)
(* interrupted.  A player that dies takes its fetcher along.                *)
Stopped(late) ==
  IF Reaped.pid = 0 THEN [r |-> Reaped, p |-> Buried, ok |-> TRUE]
  ELSE IF late THEN [r |-> Reaped, p |-> [p EXCEPT ![r.pid].doom = "kill"], ok |-> FALSE]
  ELSE [r |-> Forget(r), p |-> [p EXCEPT ![r.pid].st = "gone"], ok |-> TRUE]
FetcherAfter(q) == IF \E i \in Players : q[i].st = "runs" /\ q[i].url = "hls" THEN f ELSE NoFetcher
CanBeLate(late) == late => r.pid # 0 /\ p[r.pid].st = "runs" /\ p[r.pid].busy
Stop(late) ==
  /\ r.up /\ CanBeLate(late)
  /\ \E s \in {Stopped(late)} : r' = s.r /\ p' = s.p /\ f' = FetcherAfter(s.p)
  /\ UNCHANGED <<srv, bus>>
Play(late, url, i) ==
  /\ r.up /\ CanBeLate(late) /\ p[i].st = "none" /\ \A j \in Players : j < i => p[j].st # "none"
  /\ \E s \in {Stopped(late)} :
       IF s.ok THEN /\ p' = [s.p EXCEPT ![i] = [Unborn EXCEPT !.st = "forked", !.url = url]]
                    /\ r' = [s.r EXCEPT !.pid = i, !.url = url] /\ f' = NoFetcher
       ELSE p' = s.p /\ r' = s.r /\ UNCHANGED f
  /\ UNCHANGED <<srv, bus>>
(* SIGSTOP or SIGCONT, confirmed within 200 ms or answered as a failure.    *)
SetPaused(want, late) ==
  /\ r.up /\ CanBeLate(late)
  /\ IF Reaped.pid = 0 \/ r.paused = want THEN r' = Reaped /\ p' = Buried
     ELSE /\ p' = [p EXCEPT ![r.pid].halt = want]
          /\ r' = IF late THEN [Reaped EXCEPT !.lost = TRUE] ELSE [Reaped EXCEPT !.paused = want]
  /\ UNCHANGED <<f, srv, bus>>
(* radiod is killed: the kernel kills every player that armed its death     *)
(* signal.  One that had not yet takes init for its parent and plays on.    *)
RadiodDies ==
  /\ r.up /\ r' = [NoPlayer EXCEPT !.up = FALSE]
  /\ p' = [i \in Players |-> IF p[i].st = "zombie" THEN [p[i] EXCEPT !.st = "gone"]
                             ELSE IF p[i].st = "runs" THEN [p[i] EXCEPT !.doom = "kill"] ELSE p[i]]
  /\ UNCHANGED <<f, srv, bus>>
RadiodStarts == ~r.up /\ r' = [r EXCEPT !.up = TRUE] /\ UNCHANGED <<p, f, srv, bus>>

----------------------------------------------------------------------------
(* The player process.                                                      *)
Guarded(i) == p[i].st = "forked" /\ p' = [p EXCEPT ![i].st = "runs"] /\ UNCHANGED <<r, f, srv, bus>>
GetsStuck(i) == Acts(i) /\ p' = [p EXCEPT ![i].busy = TRUE] /\ UNCHANGED <<r, f, srv, bus>>
ComesBack(i) ==
  /\ p[i].st = "runs" /\ p[i].busy
  /\ p' = [p EXCEPT ![i].busy = FALSE,
                    ![i].st = IF p[i].doom # "kill" THEN "runs" ELSE IF r.pid = i THEN "zombie" ELSE "gone"]
  /\ f' = FetcherAfter(p') /\ UNCHANGED <<r, srv, bus>>
Killed(i) == /\ Heeds(i) /\ p[i].doom = "kill" /\ p' = [p EXCEPT ![i].st = "gone"]
             /\ f' = FetcherAfter(p') /\ UNCHANGED <<r, srv, bus>>

(* One attempt ended.  Only a complete one ends playback; one that played   *)
(* is a drop and forgiven; the rest count towards giving up.                *)
BugOver(q, complete) ==
  IF complete \/ (~q.played /\ q.barren + 1 >= Tries) THEN [q EXCEPT !.st = "zombie"]
  ELSE [q EXCEPT !.phase = "waits", !.barren = 0]
Over(q, complete) ==
  IF complete \/ (~q.played /\ q.barren + 1 >= Tries) THEN [q EXCEPT !.st = "zombie"]
  ELSE [q EXCEPT !.phase = "waits", !.barren = IF q.played THEN 0 ELSE @ + 1]
Reconnects(i) == /\ Acts(i) /\ p[i].phase = "waits"
                 /\ p' = [p EXCEPT ![i].phase = "opens", ![i].played = FALSE] /\ UNCHANGED <<r, f, srv, bus>>
(* Connect or open the file; read the headers and open the bus.             *)
Dials(i) == /\ Acts(i) /\ p[i].phase = "opens" /\ p' = [p EXCEPT ![i].phase = "asks"]
            /\ UNCHANGED <<r, f, srv, bus>>
Tells(q) == [q EXCEPT !.told = TRUE]
Opens(i) ==
  /\ Acts(i) /\ p[i].phase = "asks" /\ bus
  /\ p' = [p EXCEPT ![i] = Tells([@ EXCEPT !.phase = "plays"])]
  /\ f' = IF p[i].url = "hls" THEN [NoFetcher EXCEPT !.st = "first"] ELSE f
  /\ UNCHANGED <<r, srv, bus>>
OpenFails(i) == /\ Acts(i) /\ p[i].phase \in {"opens", "asks"} /\ p' = [p EXCEPT ![i] = Over(@, FALSE)]
                /\ UNCHANGED <<r, f, srv, bus>>
Sounds(i) == /\ bus /\ Acts(i) /\ p[i].phase = "plays" /\ p[i].url \in {"live", "file", "opus"}
             /\ p' = [p EXCEPT ![i].played = TRUE] /\ UNCHANGED <<r, f, srv, bus>>
(* The source ended: a file whose declared length was read is complete.     *)
Finishes(i) ==
  /\ (Plays(i, "file") \/ Plays(i, "opus")) /\ p[i].played
  /\ p' = [p EXCEPT ![i] = Over([p[i] EXCEPT !.passes = @ + 1], TRUE)] /\ UNCHANGED <<r, f, srv, bus>>
(* It dropped, gave nothing, or the bus went away; Opus is complete anyhow. *)
Drops(i) ==
  /\ Acts(i) /\ p[i].phase = "plays" /\ p[i].url # "hls"
  /\ p' = [p EXCEPT ![i] = Over(@, p[i].url = "opus")] /\ UNCHANGED <<r, f, srv, bus>>
BusTurns == bus' = ~bus /\ UNCHANGED <<r, p, f, srv>>

----------------------------------------------------------------------------
(* The fetcher.  A round fetches every listed segment not fetched before,   *)
(* then waits and lists again.                                              *)
Unfetched == {s \in f.list : s >= f.next}
Exits(g, code) == [g EXCEPT !.st = code]
Failed(g) == IF g.fails + 1 >= Fails THEN Exits(g, "exit1") ELSE [g EXCEPT !.fails = @ + 1]
Edge(list) == LET newest == Max(list) IN IF newest - 2 \in list THEN newest - 2 ELSE Min(list)
BugRound(g) ==
  IF g.list = {} THEN Exits(g, "exit1")
  ELSE [g EXCEPT !.st = "segments", !.got = FALSE, !.next = Edge(g.list)]
Round(g) ==
  IF g.list = {} THEN Exits(g, "exit1")
  ELSE [g EXCEPT !.st = "segments", !.got = FALSE,
                 !.next = IF g.next = 0 THEN Edge(g.list) ELSE Max({g.next, Min(g.list)})]
Parsed == {s \in srv.lo..srv.hi : s + ListMax > srv.hi}      \* the newest that fit
Listed(g) == [g EXCEPT !.list = Parsed, !.end = srv.end]
FirstList(ok) == /\ f.st = "first" /\ f' = IF ok THEN Round(Listed(f)) ELSE Exits(f, "exit1")
                 /\ UNCHANGED <<r, p, srv, bus>>
Refreshes(how) ==
  /\ f.st = "waits"
  /\ f' = IF how = "ok" THEN Round(Listed(f))
          ELSE LET g == Failed(f) IN IF g.st = "exit1" THEN g
               ELSE Round(IF how = "unparsed" THEN [g EXCEPT !.list = {}, !.end = FALSE] ELSE g)
  /\ UNCHANGED <<r, p, srv, bus>>
Fetches(ok) ==
  /\ f.st = "segments" /\ Unfetched # {} /\ (ok => Len(f.pipe) < PipeRoom)
  /\ LET s == Min(Unfetched)
         g == [f EXCEPT !.next = s + 1]
     IN f' = IF ~ok THEN Failed(g)
             ELSE [g EXCEPT !.fails = 0, !.got = TRUE, !.pipe = Append(@, s), !.sent = Append(@, s)]
  /\ UNCHANGED <<r, p, srv, bus>>
RoundEnds ==
  /\ f.st = "segments" /\ Unfetched = {}
  /\ f' = IF f.end THEN Exits(f, "exit0")
          ELSE IF f.got THEN [f EXCEPT !.st = "waits", !.stalled = 0]
          ELSE IF f.stalled + 1 >= Stalls THEN Exits(f, "exit1")
          ELSE [f EXCEPT !.st = "waits", !.stalled = @ + 1]
  /\ UNCHANGED <<r, p, srv, bus>>
(* The server appends a segment and lets old ones go, or ends the list.     *)
ServerMoves(drop) == /\ ~srv.end /\ srv' = [srv EXCEPT !.hi = @ + 1, !.lo = IF drop THEN srv.hi + 1 ELSE @]
                     /\ UNCHANGED <<r, p, f, bus>>
ServerEnds == ~srv.end /\ srv' = [srv EXCEPT !.end = TRUE] /\ UNCHANGED <<r, p, f, bus>>

(* The player decodes the pipe until it ends, and takes the exit status 0   *)
(* of the fetcher for the end of the programme.  When the bus goes away the *)
(* closed pipe and SIGTERM race for a fetcher that is writing.              *)
HlsSounds(i) == /\ bus /\ Plays(i, "hls") /\ f.pipe # <<>>
                /\ p' = [p EXCEPT ![i].played = TRUE] /\ f' = [f EXCEPT !.pipe = Tail(@)]
                /\ UNCHANGED <<r, srv, bus>>
HlsEnds(i) == /\ Plays(i, "hls") /\ f.pipe = <<>> /\ f.st \in {"exit0", "exit1"}
              /\ p' = [p EXCEPT ![i] = Over(@, f.st = "exit0" /\ @.played)]
              /\ f' = NoFetcher /\ UNCHANGED <<r, srv, bus>>
HlsCut(i, broken) ==
  /\ ~bus /\ Plays(i, "hls") /\ (broken => f.st = "segments")
  /\ p' = [p EXCEPT ![i] = Over(@, (broken \/ f.st = "exit0") /\ @.played)]
  /\ f' = NoFetcher /\ UNCHANGED <<r, srv, bus>>

----------------------------------------------------------------------------
(* At most one player may write the bus; radiod's record names it, and its  *)
(* title came from it; "paused" is what the process is, but after a control *)
(* call that ran out of time; a file is heard to its end once; segments     *)
(* reach the decoder in order, each once.                                   *)
RadioHonest ==
  /\ Cardinality({i \in Players : Alive(i) /\ p[i].doom = "no"}) <= 1
  /\ r.up => \A i \in Players : Alive(i) /\ p[i].doom = "no" => r.pid = i
  /\ r.title \in {0, r.pid}
  /\ r.pid # 0 => r.url = p[r.pid].url
  /\ ~r.lost /\ r.pid # 0 /\ Alive(r.pid) => r.paused = p[r.pid].halt
  /\ \A i \in Players : p[i].passes <= 1
  /\ \A m, n \in 1..Len(f.sent) : m < n => f.sent[m] < f.sent[n]
Silent == r.pid = 0
Audible == \E i \in Players : Acts(i) /\ p[i].phase = "plays" /\ p[i].played
=============================================================================
