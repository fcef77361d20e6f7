------------------------------ MODULE FileList ------------------------------
(***************************************************************************)
(* The list of recordings that device/file_manager.c keeps in memory, for  *)
(* one type of recording (flist[type] and one folder of the card):         *)
(*   - the SD thread reads it from the folder after a mount, forgets it    *)
(*     before the card is formatted or ejected, and, when the card is      *)
(*     full, removes old files without touching the list;                  *)
(*   - the recorder's job thread closes a file and then adds it;           *)
(*   - the player and the cloud client search it by bisection.             *)
(* Readers of ilock may overlap: reading the folder takes it for reading,  *)
(* although it writes, so that a search may see a list half read. Adding,  *)
(* forgetting and removing take it for writing.                            *)
(*                                                                         *)
(* Recordings of one type follow one another (the plan is one repeating    *)
(* job; alarms are at least alarm_interval apart), and none is finished    *)
(* before the list is read: it lasts min_length seconds at least, and the  *)
(* SD thread reads the list right after it has set E_SDCARD_STATUS_MOUNT.  *)
(***************************************************************************)
EXTENDS Integers, Sequences

CONSTANTS
  MaxTime,    \* bound: the last time stamp
  Today,      \* the time at the start
  MaxFiles,   \* MAX_FILE_NUM
  Day,        \* 86400
  Step,       \* what the cut-off date is moved on by
  Far,        \* the address of last_write, taken for a time stamp
  MaxFaults   \* bound: directories that cannot be scanned

ASSUME FileListAssumption ==
  /\ MaxTime \in Nat /\ Today \in 1 .. MaxTime
  /\ MaxFiles \in Nat \ {0}
  /\ Day \in Nat \ {0} /\ Step \in Nat \ {0}
  /\ Far \in Nat /\ Far > MaxTime
  /\ MaxFaults \in Nat

VARIABLES
  disk,     \* the finished recordings in the folder
  list,     \* flist[type]: the first num entries of start and stop
  init,     \* the list has been read
  sd,       \* the SD thread: "unread" before file_manager_read_file_list,
            \* "reading", "idle", "cleaning" with ilock held, or "gone" from
            \* file_manager_clean_disk without giving ilock back
  names,    \* what scandir has returned that is still to be listed
  cutoff,   \* cutoff_date of the pass being made
  adding,   \* what the recorder has closed but not added yet, at most one
  now,      \* the time
  faults    \* directories that could not be scanned so far

vars == <<disk, list, init, sd, names, cutoff, adding, now, faults>>

Time == 1 .. MaxTime
Recording(t) == {f \in [start : 1 .. t, stop : 1 .. t] : f.start < f.stop}

(* What a card may hold at time t.                                         *)
Cards(t) ==
  {D \in SUBSET Recording(t) :
     \A f, g \in D : f = g \/ f.stop <= g.start \/ g.stop <= f.start}

Init ==
  /\ disk \in Cards(Today)
  /\ list = <<>>
  /\ init = FALSE
  /\ sd = "unread"
  /\ names = {}
  /\ cutoff = 0
  /\ adding = {}
  /\ now = Today
  /\ faults = 0

-----------------------------------------------------------------------------
(* The SD thread. file_manager_read_file_list scans the folder once; files *)
(* whose name has no valid times are removed from the card and are left    *)
(* out here. The memset before it clears flist[0] alone, so that a list of *)
(* another type must be empty already.                                     *)
StartsReading ==
  /\ sd = "unread"
  /\ IF init
     THEN sd' = "idle" /\ UNCHANGED names
     ELSE /\ sd' = "reading"
          /\ names' = disk
  /\ UNCHANGED <<disk, list, init, cutoff, adding, now, faults>>

(* alphasort has sorted what was found by start.                           *)
ReadsNext ==
  /\ sd = "reading"
  /\ \E f \in names :
       /\ \A g \in names : f.start <= g.start
       /\ list' = Append(list, f)
       /\ names' = IF Len(list) + 1 >= MaxFiles THEN {} ELSE names \ {f}
  /\ UNCHANGED <<disk, init, sd, cutoff, adding, now, faults>>

HasRead ==
  /\ sd = "reading"
  /\ names = {}
  /\ init' = TRUE
  /\ sd' = "idle"
  /\ UNCHANGED <<disk, list, names, cutoff, adding, now, faults>>

(* Faulty: the list is kept.                                               *)
ForgetsInitOnly ==
  /\ sd = "idle"
  /\ adding = {}
  /\ init' = FALSE
  /\ sd' = "unread"
  /\ UNCHANGED <<disk, list, names, cutoff, adding, now, faults>>

(* Faulty: the list counts as read.                                        *)
ForgetsListOnly ==
  /\ sd = "idle"
  /\ adding = {}
  /\ list' = <<>>
  /\ sd' = "unread"
  /\ UNCHANGED <<disk, init, names, cutoff, adding, now, faults>>

(* file_manager_set_reinit, once the recorder has answered.                *)
Forgets ==
  /\ sd = "idle"
  /\ adding = {}
  /\ init' = FALSE
  /\ list' = <<>>
  /\ sd' = "unread"
  /\ UNCHANGED <<disk, names, cutoff, adding, now, faults>>

(* The card is formatted, or another one is put in.                        *)
NewCard ==
  /\ sd = "unread"
  /\ disk' \in Cards(Today)
  /\ UNCHANGED <<list, init, sd, names, cutoff, adding, now, faults>>

(* file_manager_clean_disk, when sd_proc finds the card full               *)
StartsCleaning ==
  /\ sd = "idle"
  /\ sd' = "cleaning"
  /\ cutoff' = IF now > Day THEN now - Day ELSE 0
  /\ UNCHANGED <<disk, list, init, names, adding, now, faults>>

Old == {f \in disk : f.start < cutoff}

(* Faulty: the cut-off date stays where it is.                             *)
CleansWithoutMovingOn ==
  /\ sd = "cleaning"
  /\ IF Old # {}
     THEN sd' = "idle" /\ cutoff' = 0
     ELSE UNCHANGED <<sd, cutoff>>
  /\ disk' = disk \ Old
  /\ UNCHANGED <<list, init, names, adding, now, faults>>

(* One pass over the folder: files before the cut-off date are removed; if *)
(* there are none the date is moved on and the next pass begins; behind    *)
(* MaxTime it need not be moved any more. The list is not read again: init *)
(* is still set.                                                           *)
Cleans ==
  /\ sd = "cleaning"
  /\ IF Old # {}
     THEN sd' = "idle" /\ cutoff' = 0
     ELSE /\ cutoff' = IF cutoff > MaxTime THEN cutoff ELSE cutoff + Step
          /\ UNCHANGED sd
  /\ disk' = disk \ Old
  /\ UNCHANGED <<list, init, names, adding, now, faults>>

(* scandir fails: "return -1" with ilock held. What the SD thread's next   *)
(* lock of it does depends on the C library; the model ends here.          *)
LeavesLocked ==
  /\ sd = "cleaning"
  /\ faults < MaxFaults
  /\ faults' = faults + 1
  /\ sd' = "gone"
  /\ UNCHANGED <<disk, list, init, names, cutoff, adding, now>>

SdStep ==
  \/ StartsReading \/ ReadsNext \/ HasRead \/ Forgets \/ NewCard
  \/ StartsCleaning \/ Cleans \/ LeavesLocked

-----------------------------------------------------------------------------
(* recorder_thread_close renames the file to its start and stop ...        *)
Closes(s, e) ==
  /\ init
  /\ adding = {}
  /\ disk' = disk \cup {[start |-> s, stop |-> e]}
  /\ adding' = {[start |-> s, stop |-> e]}
  /\ now' = e
  /\ UNCHANGED <<list, init, sd, names, cutoff, faults>>

Added(f) == [start |-> f.start, stop |-> Far]

(* Faulty: the check for a full list is one late.                          *)
AddsOneMore ==
  /\ sd \in {"unread", "idle"}
  /\ \E f \in adding :
       /\ list' = IF Len(list) > MaxFiles THEN list ELSE Append(list, Added(f))
       /\ adding' = adding \ {f}
  /\ UNCHANGED <<disk, init, sd, names, cutoff, now, faults>>

(* ... and calls file_manager_add_file with &ctrl->run.last_write, an      *)
(* address, for the stop. A full list refuses it and nobody looks.         *)
Adds ==
  /\ sd \in {"unread", "idle"}
  /\ \E f \in adding :
       /\ list' = IF Len(list) >= MaxFiles THEN list ELSE Append(list, Added(f))
       /\ adding' = adding \ {f}
  /\ UNCHANGED <<disk, init, sd, names, cutoff, now, faults>>

Next ==
  \/ SdStep
  \/ \E s \in now .. MaxTime : \E e \in s + 1 .. MaxTime : Closes(s, e)
  \/ Adds

(* The SD thread, once in file_manager_*, goes on; the card need not fill. *)
Fairness == WF_vars(StartsReading \/ ReadsNext \/ HasRead \/ Cleans) /\ WF_vars(Adds)

Spec == Init /\ [][Next]_vars /\ Fairness

-----------------------------------------------------------------------------
(* The search. Slots behind the last entry hold 0, but behind a full       *)
(* start[] lies stop[].                                                    *)
Start(i) == IF i < Len(list) THEN list[i + 1].start
            ELSE IF i < MaxFiles THEN 0 ELSE list[i - MaxFiles + 1].stop
Stop(i) == list[i + 1].stop

Slots == 0 .. Len(list) - 1
Starts == [i \in Slots |-> Start(i)]
Stops == [i \in Slots |-> Stop(i)]

(* What low and high go through in a list of n.                            *)
Window(n) == [low : 0 .. n, high : -1 .. n - 1]

(* The loop of both bisections, through the n values of a: where it ends,  *)
(* and whether it has hit the key.                                         *)
Bisection(a, n, key) ==
  LET search[w \in Window(n)] ==
        LET mid == (w.low + w.high) \div 2
        IN  IF w.low > w.high THEN [at |-> w.low, hit |-> FALSE]
            ELSE IF key < a[mid] THEN search[[w EXCEPT !.high = mid - 1]]
            ELSE IF key > a[mid] THEN search[[w EXCEPT !.low = mid + 1]]
            ELSE [at |-> mid, hit |-> TRUE]
  IN  search[[low |-> 0, high |-> n - 1]]

(* Faulty: the entry behind the one that contains key is taken.            *)
BisearchStartNext(key) ==
  IF Start(0) > key THEN 0 ELSE Bisection(Starts, Len(list), key).at

(* file_manager_file_bisearch_start                                        *)
BisearchStart(key) ==
  LET end == Bisection(Starts, Len(list), key)
  IN  IF Start(0) > key THEN 0
      ELSE IF end.hit \/ key > Start(end.at) THEN end.at
      ELSE end.at - 1

(* file_manager_file_bisearch_stop                                         *)
BisearchStop(key) ==
  LET end == Bisection(Stops, Len(list), key)
  IN  IF Stop(Len(list) - 1) < key THEN Len(list) - 1
      ELSE IF end.hit \/ key < Stop(end.at) THEN end.at
      ELSE end.at + 1

Overlaps(f, s, e) == f.stop > s /\ f.start < e

Hits(s, e) == {i \in Slots : Overlaps(list[i + 1], s, e)}

(* file_manager_search_file_list: the slots it returns, which it goes      *)
(* through in ascending order. file_manager_check_file_list finds          *)
(* something exactly when it does.                                         *)
Found(s, e) ==
  IF list = <<>> THEN {}
  ELSE LET from == BisearchStart(s)
           to == BisearchStop(e)
       IN  IF from \notin Slots \/ to \notin Slots THEN {}
           ELSE Hits(s, e) \cap (from .. to)

-----------------------------------------------------------------------------
(* Type correctness; the list never outgrows its array.                    *)
Entry == [start : Time, stop : Time \cup {Far}]

TypeOK ==
  /\ disk \subseteq Recording(MaxTime)
  /\ list \in Seq(Entry) /\ Len(list) <= MaxFiles
  /\ init \in BOOLEAN
  /\ sd \in {"unread", "reading", "idle", "cleaning", "gone"}
  /\ names \subseteq Recording(MaxTime)
  /\ cutoff \in 0 .. MaxTime + Step
  /\ adding \subseteq Recording(MaxTime) /\ \A f, g \in adding : f = g
  /\ now \in Time
  /\ faults \in 0 .. MaxFaults

(* What the bisections need: starts and stops ascend, whatever the list    *)
(* has gone through, half read or with addresses for stops.                *)
ListIsOrdered ==
  \A i, j \in 1 .. Len(list) :
    i < j => list[i].start < list[j].start /\ list[i].stop <= list[j].stop

(* No two entries overlap. They do as soon as two recordings have been     *)
(* added since the list was read: both stop at an address.                 *)
EntriesAreApart ==
  \A i, j \in 1 .. Len(list) : i < j => list[i].stop <= list[j].start

(* A search finds exactly the entries that overlap the interval, if it     *)
(* does not begin behind the last start and the entries are apart.         *)
SearchIsExact ==
  \A s \in Time : \A e \in s + 1 .. MaxTime :
    list # <<>> /\ s <= list[Len(list)].start /\ EntriesAreApart
      => Found(s, e) = Hits(s, e)

(* Whatever is on the card is listed, once the list has been read and the  *)
(* recorder has added what it closed, unless the list is full.             *)
NothingIsForgotten ==
  init /\ sd # "unread" =>
    \A f \in disk \ adding :
      Len(list) = MaxFiles \/ \E i \in DOMAIN list : list[i].start = f.start

(* file_manager_clean_disk comes to an end, and ilock is free again, if    *)
(* there is a recording to remove; with none it repeats its passes for     *)
(* ever, and where scandir fails it leaves ilock locked.                   *)
CleaningEnds == sd = "cleaning" ~> (sd = "idle" \/ sd = "gone" \/ disk = {})

(* player.c, player_add_job: "not finding valid vod files". When a search  *)
(* finds nothing there would have to be nothing on the card.               *)
NotFoundMeansNone ==
  \A s \in Time : \A e \in s + 1 .. MaxTime :
    init /\ sd = "idle" /\ adding = {} /\ Len(list) < MaxFiles /\ Found(s, e) = {}
      => \A f \in disk : ~Overlaps(f, s, e)
-----------------------------------------------------------------------------
(* What makes the safety properties inductive.                             *)

(* Recordings of one type follow one another, up to now.                   *)
DiskIsApart ==
  /\ Today <= now
  /\ \A f, g \in disk : f = g \/ f.stop <= g.start \/ g.stop <= f.start
  /\ \A f \in disk : f.stop <= now

(* What the SD thread is about agrees with init, and nothing is added to a *)
(* list that has not been read.                                            *)
InitFits ==
  /\ init <=> sd \in {"idle", "cleaning", "gone"}
  /\ sd = "unread" => list = <<>>
  /\ sd # "reading" => names = {}
  /\ ~init => adding = {}

(* What is still to be listed lies behind everything that is, and there is *)
(* room for it.                                                            *)
ListIsBehind ==
  /\ names \subseteq disk
  /\ names # {} => Len(list) < MaxFiles
  /\ \A i \in 1 .. Len(list) :
       /\ list[i].start < list[i].stop /\ list[i].start < now
       /\ \A f \in names : list[i].stop <= f.start
       /\ \A f \in adding : list[i].start < f.start
  /\ \A f \in adding : f.start < now

(* While the list is read each recording is listed or still to be listed.  *)
NothingIsSkipped ==
  sd = "reading" =>
    \A f \in disk :
      \/ f \in names
      \/ Len(list) = MaxFiles
      \/ \E i \in DOMAIN list : list[i].start = f.start

IInv ==
  /\ TypeOK
  /\ DiskIsApart
  /\ InitFits
  /\ ListIsBehind
  /\ ListIsOrdered
  /\ NothingIsSkipped
  /\ NothingIsForgotten
=============================================================================
