---------------------------- MODULE NetworkService ----------------------------
(***************************************************************************)
(* networkd whole: its loop (Networkd), in which a file operation of the   *)
(* recovery access point is one step and a scan's answer has no content,   *)
(* the steps of those operations with the power cut between them           *)
(* (RecoveryAp), and the content of that answer.  A setup                  *)
(* explores one of the three.                                              *)
(***************************************************************************)
EXTENDS Networkd, Integers, Sequences, SequencesExt

(***************************************************************************)
(* What a scan answers: rows of wpa_supplicant (parse_scan_results), of    *)
(* the wireless extensions (wext_parse_scan_events) or of an nl80211 dump  *)
(* (nl80211_parse_dump_message) become one sorted list with every network  *)
(* once (serialize_scan_results).                                          *)
(*                                                                         *)
(* A row is one access point: its network name (0 for a name that is empty *)
(* or, where bogus_ssid is asked, not a name), its band, its level and the *)
(* unit of the level.  In dBm, levels from Ceiling up are 100 per cent.    *)
(***************************************************************************)
CONSTANTS
    Names,      \* network names; strcmp orders them as numbers
    RowMax,     \* bound: rows of one scan
    Sizes       \* bound: SCAN_MAX and SCAN_OUTPUT_MAX, pairs explored

Ceiling == 1
Paths == {"supplicant", "wext", "kernel"}

VARIABLE list   \* the scan being read: its source, the table, what is shown

Rows(units) ==
    {r \in [ssid : Names \cup {0}, five : BOOLEAN, level : 0 .. Ceiling + 1,
            unit : units] : r.unit = "percent" => r.level <= Ceiling}

NoList == [path |-> "none", size |-> <<0, 0>>, rows |-> <<>>, table |-> <<>>,
           shown |-> <<>>, done |-> FALSE]

ListInit == list = NoList

\* scan_result_strength, with rssi_to_percent
Strength(r) == IF r.level > Ceiling THEN Ceiling ELSE r.level

\* scan_result_better
Better(a, b) ==
    IF a.five # b.five THEN a.five
    ELSE IF Strength(a) # Strength(b) THEN Strength(a) > Strength(b)
    ELSE IF a.unit = "dbm" /\ b.unit = "dbm" /\ a.level # b.level
      THEN a.level > b.level
    ELSE a.ssid < b.ssid

\* The order of wext_parse_scan_events: cells without a level in dBm last.
CellBetter(a, b) ==
    LET dbm(r) == IF r.unit = "dbm" THEN r.level ELSE -1
    IN  IF a.five # b.five THEN a.five
        ELSE IF dbm(a) # dbm(b) THEN dbm(a) > dbm(b)
        ELSE IF Strength(a) # Strength(b) THEN Strength(a) > Strength(b)
        ELSE a.ssid < b.ssid

\* The two nested loops, of either order: position i against every later one.
Exchanged(s, cells) ==
    LET n == Len(s)
        Before(a, b) == IF cells THEN CellBetter(a, b) ELSE Better(a, b)
        Meets(t, k) == LET i == (k \div n) + 1
                           j == (k % n) + 1
                       IN  IF i < j /\ Before(t[j], t[i])
                             THEN [t EXCEPT ![i] = t[j], ![j] = t[i]] ELSE t
    IN  FoldLeft(Meets, s, [k \in 1 .. n * n |-> k - 1])

Once(s) == FoldLeft(LAMBDA t, r : IF \E x \in Range(t) : x.ssid = r.ssid
                                    THEN t ELSE Append(t, r), <<>>, s)

\* parse_scan_results: one entry per name, the better access point of it.
SupplicantRow(t, r) ==
    LET same == {i \in DOMAIN t : t[i].ssid = r.ssid}
    IN  IF r.ssid = 0 THEN t
        ELSE IF same # {}
          THEN LET i == CHOOSE i \in same : TRUE
                   x == t[i]
               IN  IF (r.five /\ ~x.five) \/ (r.five = x.five /\ r.level > x.level)
                     THEN [t EXCEPT ![i] = r] ELSE t
        ELSE IF Len(t) < list.size[1] THEN Append(t, r) ELSE t

\* nl80211_append_bss: an entry per access point with a name.
KernelRow(t, r) ==
    IF r.ssid # 0 /\ Len(t) < list.size[1] THEN Append(t, r) ELSE t

\* wext_new_cell: an entry per access point; names are looked at later.
Cell(t, r) == IF Len(t) < list.size[1] THEN Append(t, r) ELSE t

CellsListed(t) ==
    Once(SelectSeq(Exchanged(t, TRUE), LAMBDA r : r.ssid # 0))

\* serialize_scan_results
Serialized(t) ==
    LET s == Once(Exchanged(t, FALSE))
    IN  IF Len(s) > list.size[2] THEN SubSeq(s, 1, list.size[2]) ELSE s

ScanBegins(path, size) ==
    /\ list.path = "none"
    /\ list' = [NoList EXCEPT !.path = path, !.size = size]

RowRead(r) ==
    /\ list.path # "none" /\ ~list.done /\ Len(list.rows) < RowMax
    /\ r.unit = "percent" => list.path # "supplicant"
    /\ list' = [list EXCEPT
         !.rows = Append(@, r),
         !.table = CASE list.path = "supplicant" -> SupplicantRow(@, r)
                     [] list.path = "wext" -> Cell(@, r)
                     [] list.path = "kernel" -> KernelRow(@, r)]

ScanAnswers ==
    /\ list.path # "none" /\ ~list.done
    /\ list' = [list EXCEPT
         !.done = TRUE,
         !.shown = Serialized(IF list.path = "wext" THEN CellsListed(list.table)
                              ELSE list.table)]

ScanForgotten == list.done /\ list' = NoList

----------------------------------------------------------------------------
(* The answer names every network once, by its best access point (5 GHz,    *)
(* then strength), best first, and leaves one out only for a better one or  *)
(* because the table was full (parse_scan_results, wext_parse_scan_events,  *)
(* nl80211_parse_dump_message, serialize_scan_results).                     *)
ListHonest ==
    LET seen == {r \in Range(list.rows) : r.ssid # 0}
        told == Range(list.shown)
        fits == \/ Len(list.rows) <= list.size[1]
                \/ /\ list.path = "supplicant"
                   /\ Cardinality({r.ssid : r \in seen}) <= list.size[1]
    IN  list.done =>
        /\ told \subseteq seen
        /\ \A i, j \in DOMAIN list.shown : i < j =>
              /\ list.shown[i].ssid # list.shown[j].ssid
              /\ ~Better(list.shown[j], list.shown[i])
        /\ fits =>
              \A r \in seen :
                 \/ \E x \in told : x.ssid = r.ssid /\ ~Better(r, x)
                 \/ /\ Len(list.shown) = list.size[2]
                    /\ \A x \in told : x.ssid # r.ssid /\ ~Better(r, x)

-----------------------------------------------------------------------------
serviceVars == <<vars, fileVars, list>>

ServiceInit ==
    /\ Init /\ FilesInit /\ ListInit
    /\ setup.part # "loop" => wpa.cfgs = {}

\* Without "torn", nothing interrupts the two renames that replace the
\* settings: between them the directory holds only the backup, which no code
\* reads.
Interrupts == "torn" \in Faults \/ job.step # "conf_rename"
RollsBack == IF "torn" \in Faults THEN BOOLEAN ELSE {TRUE}

FileStep ==
    \/ \E read \in Works("torn"), marker \in Markers : Boots(read, marker)
    \/ \E why \in {"prepare", "reveal"} : AskSecret(why)
    \/ Serve
    \/ \E want \in Settings : StoreSettings(want)
    \/ \E ok \in Works("file") :
          \/ LookUp(ok) \/ PskRename(ok) \/ PskSync(ok) \/ Publish(ok)
          \/ ConfWrite(ok) \/ ConfBackup(ok)
          \/ \E undone \in RollsBack : ConfRename(ok, undone) \/ ConfSync(ok, undone)
    \/ Interrupts /\ WrittenBack
    \/ Interrupts /\ "power" \in Faults /\ PowerCut
    \/ Interrupts /\ "crash" \in Faults /\ DaemonDies

ListStep ==
    \/ \E path \in Paths, size \in Sizes : ScanBegins(path, size)
    \/ \E r \in Rows(setup.units) : RowRead(r)
    \/ ScanAnswers \/ ScanForgotten

InLoop(A) == setup.part = "loop" /\ A /\ Kept /\ UNCHANGED <<fileVars, list>>
OnFiles(A) == setup.part = "files" /\ A /\ UNCHANGED <<vars, list>>
InScan(A) == setup.part = "list" /\ A /\ UNCHANGED <<vars, fileVars>>

ServiceNext == InLoop(Step) \/ OnFiles(FileStep) \/ InScan(ListStep)

(***************************************************************************)
(* Every deadline is served by the poll loop, which computes its timeout   *)
(* from them: an association, a DHCP child and a scan end, and an owed     *)
(* net-down is tried again; queued netlink events are read.  Nothing is    *)
(* assumed of the environment.                                             *)
(***************************************************************************)
ServiceSpec ==
    /\ ServiceInit /\ [][ServiceNext]_serviceVars
    /\ WF_serviceVars(InLoop(AssociationStep)) /\ WF_serviceVars(InLoop(DhcpStep))
    /\ WF_serviceVars(InLoop(ScanEnds))
    /\ WF_serviceVars(InLoop(rec.pending /\ RecoveryTick(TRUE)))
    /\ WF_serviceVars(InLoop(netlink /\ Refresh(FALSE)))

----------------------------------------------------------------------------
(* Every busy client is the one a running operation will answer; the        *)
(* profile of the last confirmed lease stays in the supplicant's file       *)
(* through every failed attempt to replace it; and a scan is answered with  *)
(* every network once, by its best access point, best first.                *)
ClientsHonest == TypeOK /\ RequestsOwned /\ WorkingProfileKept /\ ListHonest

(* The recovery access point is what networkd says of it: a radio held by   *)
(* the platform is known to be owed back, an access point reported as       *)
(* starting or active has its children, its address and no cleanup pending, *)
(* no child outlives it, ledd shows it exactly while it is active, it and a *)
(* client association never use the radio together, a hand-over is carried  *)
(* by an attempt that will end it, and the password and settings the owner  *)
(* was told of are the ones on disk and in use.                             *)
RecoveryHonest ==
    /\ OwnershipTracked /\ ApBacked /\ NoStrayChildren /\ LedTruthful
    /\ RadioExclusive /\ HandoverOwned
    /\ FilesHonest

(* One recovery reboot at most passes the persistent guard, restarts        *)
(* included, and only after re-association and a full interface cycle were  *)
(* tried since the gateway last answered.                                   *)
RebootsEarned ==
    [][reboots' > reboots =>
          reboots' = 1 /\ {"reassociate", "if_down", "if_up"} \subseteq tried]_serviceVars

(* Every waiting client is answered, and an owed net-down is settled or,    *)
(* after a bounded number of retries, given up.                             *)
NetworkSettles == RequestsAnswered /\ ReleaseSettled
=============================================================================
