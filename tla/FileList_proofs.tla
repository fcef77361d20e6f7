--------------------------- MODULE FileList_proofs ---------------------------
(***************************************************************************)
(* Proofs about the list of recordings: its safety, by the inductive       *)
(* invariant IInv of FileList, and what the bisections of                  *)
(* file_manager.c find in a list of any length.                            *)
(***************************************************************************)
EXTENDS FileList, FiniteSetTheorems, TLAPS

(* What Append does to a list of entries.                                  *)
LEMMA Appended ==
  ASSUME NEW q \in Seq(Entry), NEW f \in Entry
  PROVE  /\ Append(q, f) \in Seq(Entry)
         /\ Len(Append(q, f)) = Len(q) + 1
         /\ \A i \in 1 .. Len(q) : Append(q, f)[i] = q[i]
         /\ Append(q, f)[Len(q) + 1] = f
OBVIOUS

(* Starts and stops are numbers; the stop of a finished recording is no    *)
(* address.                                                                *)
LEMMA EntriesAreTimes ==
  /\ \A f \in Entry : /\ f.start \in Int /\ f.start >= 1 /\ f.start <= MaxTime
                      /\ f.stop \in Int /\ f.stop <= Far
  /\ \A f \in Recording(MaxTime) :
       f \in Entry /\ f.start < f.stop /\ f.stop <= MaxTime /\ f.stop < Far
BY FileListAssumption DEF Entry, Recording, Time

(* Every slot of a typed list holds an entry.                              *)
LEMMA ListHoldsEntries ==
  TypeOK => /\ list \in Seq(Entry) /\ Len(list) \in Nat /\ Len(list) <= MaxFiles
            /\ \A i \in 1 .. Len(list) : list[i] \in Entry
<1> SUFFICES ASSUME list \in Seq(Entry) 
             PROVE  Len(list) \in Nat /\ \A i \in 1 .. Len(list) : list[i] \in Entry
  BY DEF TypeOK
<1> QED OBVIOUS

(* What a card may hold at the start lies in the past and apart.           *)
LEMMA CardsHoldRecordings ==
  \A D \in Cards(Today) :
    /\ D \subseteq Recording(MaxTime)
    /\ \A f \in D : f.stop <= Today
    /\ \A f, g \in D : f = g \/ f.stop <= g.start \/ g.stop <= f.start
<1> SUFFICES ASSUME NEW D \in Cards(Today)
             PROVE  /\ D \subseteq Recording(MaxTime)
                    /\ \A f \in D : f.stop <= Today
                    /\ \A f, g \in D : f = g \/ f.stop <= g.start \/ g.stop <= f.start
  OBVIOUS
<1>1. D \subseteq Recording(Today)
  BY DEF Cards
<1>2. ASSUME NEW f \in Recording(Today)
      PROVE  f \in Recording(MaxTime) /\ f.stop <= Today
  BY <1>2, FileListAssumption DEF Recording
<1> QED BY <1>1, <1>2 DEF Cards

(* A boot, with any card.                                                  *)
LEMMA InitIsFine == Init => IInv
<1> SUFFICES ASSUME Init PROVE IInv
  OBVIOUS
<1> USE FileListAssumption
<1>1. TypeOK
  <2>1. list \in Seq(Entry) /\ Len(list) <= MaxFiles
    <3>1. <<>> \in Seq(Entry) /\ Len(<<>>) = 0
      OBVIOUS
    <3> QED BY <3>1 DEF Init
  <2>2. disk \subseteq Recording(MaxTime) /\ now \in Time
    BY CardsHoldRecordings DEF Init, Time
  <2>3. /\ init \in BOOLEAN /\ sd = "unread" /\ names = {} /\ adding = {}
        /\ cutoff \in 0 .. MaxTime + Step /\ faults \in 0 .. MaxFaults
    <3>1. /\ init = FALSE /\ sd = "unread" /\ names = {} /\ adding = {}
          /\ cutoff = 0 /\ faults = 0
      BY Zenon DEF Init
    <3>2. init \in BOOLEAN
      BY <3>1
    <3>3. cutoff \in 0 .. MaxTime + Step
      BY <3>1
    <3>4. faults \in 0 .. MaxFaults
      BY <3>1
    <3> QED BY <3>1, <3>2, <3>3, <3>4, Zenon
  <2> QED BY <2>1, <2>2, <2>3 DEF TypeOK
<1>2. DiskIsApart
  BY CardsHoldRecordings DEF DiskIsApart, Init
<1>3. InitFits /\ ListIsBehind /\ ListIsOrdered /\ NothingIsSkipped /\ NothingIsForgotten
  BY DEF Init, InitFits, ListIsBehind, ListIsOrdered, NothingIsSkipped,
         NothingIsForgotten
<1> QED BY <1>1, <1>2, <1>3 DEF IInv

(* file_manager_get_file_list lists one more recording: it is the first of *)
(* those left, so it lies behind what is listed and before the rest.       *)
LEMMA ReadsNextKeeps == IInv /\ ReadsNext => IInv'
<1> SUFFICES ASSUME IInv, ReadsNext PROVE IInv'
  OBVIOUS
<1> USE FileListAssumption
<1>0. TypeOK /\ DiskIsApart /\ InitFits /\ ListIsBehind /\ ListIsOrdered /\ NothingIsSkipped
  BY DEF IInv
<1>1. PICK f \in names : /\ \A g \in names : f.start <= g.start
                         /\ list' = Append(list, f)
                         /\ names' = IF Len(list) + 1 >= MaxFiles THEN {} ELSE names \ {f}
  BY DEF ReadsNext
<1>2. sd = "reading" /\ UNCHANGED <<disk, init, sd, cutoff, adding, now, faults>>
  BY DEF ReadsNext
<1>3. f \in disk /\ f \in Recording(MaxTime) /\ f \in Entry
  BY <1>0, <1>1, EntriesAreTimes DEF TypeOK, ListIsBehind
<1>4. list \in Seq(Entry) /\ Len(list) \in Nat /\ Len(list) < MaxFiles
  BY <1>0, <1>1, ListHoldsEntries DEF ListIsBehind
<1>5. /\ list' \in Seq(Entry)
      /\ Len(list') = Len(list) + 1
      /\ \A i \in 1 .. Len(list) : list'[i] = list[i]
      /\ list'[Len(list) + 1] = f
  <2>1. /\ Append(list, f) \in Seq(Entry)
        /\ Len(Append(list, f)) = Len(list) + 1
        /\ \A i \in 1 .. Len(list) : Append(list, f)[i] = list[i]
        /\ Append(list, f)[Len(list) + 1] = f
    BY <1>3, <1>4, Appended, Zenon
  <2> QED BY <2>1, <1>1, Zenon
<1>6. TypeOK'
  BY <1>0, <1>1, <1>2, <1>3, <1>4, <1>5 DEF TypeOK
<1>7. DiskIsApart' /\ InitFits'
  BY <1>0, <1>2 DEF DiskIsApart, InitFits
<1>8. adding = {} 
  BY <1>0, <1>2 DEF InitFits
<1>9. \A g \in names' : g \in names /\ f.stop <= g.start
  <2> SUFFICES ASSUME NEW g \in names' PROVE g \in names /\ f.stop <= g.start
    OBVIOUS
  <2>1. g \in names /\ g # f /\ f.start <= g.start
    BY <1>1
  <2>2. g \in disk /\ g \in Recording(MaxTime)
    BY <2>1, <1>0 DEF ListIsBehind, TypeOK
  <2>3. f.stop <= g.start \/ g.stop <= f.start
    BY <2>1, <2>2, <1>0, <1>3 DEF DiskIsApart
  <2> QED BY <2>1, <2>2, <2>3, <1>3, EntriesAreTimes
<1>10. ListIsBehind'
  <2>1. names' \subseteq disk' /\ (names' # {} => Len(list') < MaxFiles)
    BY <1>0, <1>1, <1>2, <1>4, <1>5 DEF ListIsBehind
  <2>2. f.start < f.stop /\ f.start < now
    BY <1>0, <1>3, EntriesAreTimes DEF DiskIsApart, TypeOK, Time
  <2> SUFFICES ASSUME NEW i \in 1 .. Len(list')
               PROVE  /\ list'[i].start < list'[i].stop /\ list'[i].start < now
                      /\ \A g \in names' : list'[i].stop <= g.start
    BY <2>1, <1>2, <1>8 DEF ListIsBehind
  <2>3. CASE i = Len(list) + 1
    BY <2>2, <2>3, <1>5, <1>9
  <2>4. CASE i \in 1 .. Len(list)
    BY <2>4, <1>0, <1>5, <1>9 DEF ListIsBehind
  <2> QED BY <2>3, <2>4, <1>4, <1>5
<1>11. ListIsOrdered'
  <2> SUFFICES ASSUME NEW i \in 1 .. Len(list'), NEW j \in 1 .. Len(list'), i < j
               PROVE  list'[i].start < list'[j].start /\ list'[i].stop <= list'[j].stop
    BY DEF ListIsOrdered
  <2>1. i \in 1 .. Len(list) /\ list[i] \in Entry /\ list'[i] = list[i]
    BY <1>0, <1>4, <1>5, ListHoldsEntries
  <2>2. CASE j = Len(list) + 1
    <3>1. list[i].start < list[i].stop /\ list[i].stop <= f.start
      BY <2>1, <1>0 DEF ListIsBehind
    <3> QED BY <3>1, <2>1, <2>2, <1>3, <1>5, EntriesAreTimes
  <2>3. CASE j \in 1 .. Len(list)
    BY <2>1, <2>3, <1>0, <1>5 DEF ListIsOrdered
  <2> QED BY <2>2, <2>3, <1>4, <1>5
<1>12. NothingIsSkipped' /\ NothingIsForgotten'
  BY <1>0, <1>1, <1>2, <1>3, <1>4, <1>5, <1>8, <1>9 DEF NothingIsSkipped, NothingIsForgotten, InitFits
<1> QED BY <1>6, <1>7, <1>10, <1>11, <1>12 DEF IInv
(* file_manager_add_file with an address for the stop: nothing in the list *)
(* stops later, and the recording started after everything that is listed. *)
LEMMA AddsKeeps == IInv /\ Adds => IInv'
<1> SUFFICES ASSUME IInv, Adds PROVE IInv'
  OBVIOUS
<1> USE FileListAssumption
<1>0. /\ TypeOK /\ DiskIsApart /\ InitFits /\ ListIsBehind /\ ListIsOrdered
      /\ NothingIsSkipped /\ NothingIsForgotten
  BY DEF IInv
<1>1. PICK f \in adding :
        /\ list' = IF Len(list) >= MaxFiles THEN list ELSE Append(list, Added(f))
        /\ adding' = adding \ {f}
  BY DEF Adds
<1>2. /\ sd \in {"unread", "idle"}
      /\ UNCHANGED <<disk, init, sd, names, cutoff, now, faults>>
  BY DEF Adds
<1>3. sd = "idle" /\ init /\ names = {} /\ adding' = {}
  BY <1>0, <1>1, <1>2 DEF InitFits, TypeOK
<1>4. f \in Recording(MaxTime) /\ f \in Entry /\ Added(f) \in Entry
  BY <1>0, EntriesAreTimes DEF TypeOK, Entry, Added, Recording, Time
<1>5. Added(f).start = f.start /\ Added(f).stop = Far /\ f.start < Far
  BY <1>4, EntriesAreTimes DEF Added
<1>6. list \in Seq(Entry) /\ Len(list) \in Nat /\ Len(list) <= MaxFiles
  BY <1>0, ListHoldsEntries
<1>7. CASE Len(list) >= MaxFiles
  <2> USE <1>0, <1>1, <1>2, <1>3, <1>7
  <2>1. TypeOK' /\ DiskIsApart' /\ InitFits'
    BY DEF TypeOK, DiskIsApart, InitFits
  <2>2. ListIsBehind' /\ ListIsOrdered' /\ NothingIsSkipped'
    BY DEF ListIsBehind, ListIsOrdered, NothingIsSkipped
  <2>3. NothingIsForgotten'
    BY <1>6 DEF NothingIsForgotten
  <2> QED BY <2>1, <2>2, <2>3 DEF IInv
<1>8. CASE Len(list) < MaxFiles
  <2>1. /\ list' \in Seq(Entry)
        /\ Len(list') = Len(list) + 1
        /\ \A i \in 1 .. Len(list) : list'[i] = list[i]
        /\ list'[Len(list) + 1] = Added(f)
    <3>1. /\ Append(list, Added(f)) \in Seq(Entry)
          /\ Len(Append(list, Added(f))) = Len(list) + 1
          /\ \A i \in 1 .. Len(list) : Append(list, Added(f))[i] = list[i]
          /\ Append(list, Added(f))[Len(list) + 1] = Added(f)
      BY <1>4, <1>6, Appended, Zenon
    <3>2. list' = Append(list, Added(f))
      BY <1>1, <1>6, <1>8
    <3> QED BY <3>1, <3>2, Zenon
  <2>2. TypeOK'
    BY <1>0, <1>2, <1>3, <1>6, <1>8, <2>1 DEF TypeOK
  <2>3. DiskIsApart' /\ InitFits' /\ NothingIsSkipped'
    BY <1>0, <1>2, <1>3 DEF DiskIsApart, InitFits, NothingIsSkipped
  <2>4. ListIsBehind'
    <3> SUFFICES ASSUME NEW i \in 1 .. Len(list')
                 PROVE  list'[i].start < list'[i].stop /\ list'[i].start < now
      BY <1>2, <1>3 DEF ListIsBehind
    <3>1. CASE i = Len(list) + 1
      BY <3>1, <1>0, <1>5, <2>1 DEF ListIsBehind
    <3>2. CASE i \in 1 .. Len(list)
      BY <3>2, <1>0, <2>1 DEF ListIsBehind
    <3> QED BY <3>1, <3>2, <1>6, <2>1
  <2>5. ListIsOrdered'
    <3> SUFFICES ASSUME NEW i \in 1 .. Len(list'), NEW j \in 1 .. Len(list'), i < j
                 PROVE  list'[i].start < list'[j].start /\ list'[i].stop <= list'[j].stop
      BY DEF ListIsOrdered
    <3>1. i \in 1 .. Len(list) /\ list[i] \in Entry /\ list'[i] = list[i]
      BY <1>0, <1>6, <2>1, ListHoldsEntries
    <3>2. CASE j = Len(list) + 1
      <4>1. list[i].start < f.start /\ list[i].stop <= Far
        BY <3>1, <1>0, EntriesAreTimes DEF ListIsBehind
      <4> QED BY <4>1, <3>1, <3>2, <1>5, <2>1
    <3>3. CASE j \in 1 .. Len(list)
      BY <3>1, <3>3, <1>0, <2>1 DEF ListIsOrdered
    <3> QED BY <3>2, <3>3, <1>6, <2>1
  <2>6. NothingIsForgotten'
    <3> SUFFICES ASSUME NEW g \in disk
                 PROVE  Len(list') = MaxFiles \/ \E i \in 1 .. Len(list') : list'[i].start = g.start
      BY <1>2, <2>1 DEF NothingIsForgotten
    <3>1. CASE g \in adding
      <4>1. g = f
        BY <3>1, <1>1, <1>3
      <4> QED BY <4>1, <1>5, <1>6, <2>1
    <3>2. CASE g \notin adding
      <4>1. PICK i \in 1 .. Len(list) : list[i].start = g.start
        BY <3>2, <1>0, <1>2, <1>3, <1>6, <1>8 DEF NothingIsForgotten
      <4> QED BY <4>1, <1>6, <2>1
    <3> QED BY <3>1, <3>2
  <2> QED BY <2>2, <2>3, <2>4, <2>5, <2>6 DEF IInv
<1> QED BY <1>6, <1>7, <1>8

(* recorder_thread_close leaves a file that starts after everything before. *)
LEMMA ClosesKeeps ==
  ASSUME NEW s \in now .. MaxTime, NEW e \in s + 1 .. MaxTime, IInv, Closes(s, e)
  PROVE  IInv'
<1> USE FileListAssumption
<1>0. /\ TypeOK /\ DiskIsApart /\ InitFits /\ ListIsBehind /\ ListIsOrdered
      /\ NothingIsSkipped /\ NothingIsForgotten
  BY DEF IInv
<1> DEFINE r == [start |-> s, stop |-> e]
<1>1. /\ init /\ adding = {}
      /\ disk' = disk \cup {r} /\ adding' = {r} /\ now' = e
      /\ UNCHANGED <<list, init, sd, names, cutoff, faults>>
  BY DEF Closes
<1>2. now \in Time /\ s \in Time /\ e \in Time /\ now <= s /\ s < e
  BY <1>0 DEF TypeOK, Time
<1>3. r \in Recording(MaxTime) /\ r.start = s /\ r.stop = e
  BY <1>2 DEF Recording, Time
<1>4. list \in Seq(Entry) /\ Len(list) \in Nat
  BY <1>0, ListHoldsEntries
<1>5. \A i \in 1 .. Len(list) : list[i].start \in Int
  BY <1>0, ListHoldsEntries, EntriesAreTimes
<1>6. \A f \in disk : f.stop \in Int /\ f.stop <= now
  BY <1>0, EntriesAreTimes DEF DiskIsApart, TypeOK
<1>7. names = {} /\ sd # "reading"
  BY <1>0, <1>1 DEF InitFits
<1> HIDE DEF r
<1>8. TypeOK'
  BY <1>0, <1>1, <1>2, <1>3 DEF TypeOK
<1>9. DiskIsApart'
  BY <1>0, <1>1, <1>2, <1>3, <1>6 DEF DiskIsApart, Time
<1>10. InitFits' /\ NothingIsSkipped'
  BY <1>0, <1>1, <1>7 DEF InitFits, NothingIsSkipped
<1>11. ListIsBehind'
  BY <1>0, <1>1, <1>2, <1>3, <1>5, <1>7 DEF ListIsBehind, Time
<1>12. ListIsOrdered'
  BY <1>0, <1>1 DEF ListIsOrdered
<1>13. NothingIsForgotten'
  BY <1>0, <1>1 DEF NothingIsForgotten
<1> QED BY <1>8, <1>9, <1>10, <1>11, <1>12, <1>13 DEF IInv
(* file_manager_read_file_list begins, or is over.                         *)
LEMMA ReadingKeeps == IInv /\ (StartsReading \/ HasRead) => IInv'
<1> SUFFICES ASSUME IInv, StartsReading \/ HasRead PROVE IInv'
  OBVIOUS
<1>0. /\ TypeOK /\ DiskIsApart /\ InitFits /\ ListIsBehind /\ ListIsOrdered
      /\ NothingIsSkipped /\ NothingIsForgotten
  BY DEF IInv
<1>1. CASE StartsReading
  <2>1. /\ sd' = "reading" /\ names' = disk /\ list = <<>> /\ ~init /\ adding = {}
        /\ UNCHANGED <<disk, list, init, cutoff, adding, now, faults>>
    BY <1>0, <1>1 DEF StartsReading, InitFits
  <2>2. Len(list) = 0
    BY <2>1
  <2>3. TypeOK' /\ DiskIsApart' /\ InitFits'
    BY <1>0, <2>1 DEF TypeOK, DiskIsApart, InitFits
  <2>4. ListIsBehind' /\ ListIsOrdered' /\ NothingIsSkipped' /\ NothingIsForgotten'
    BY <1>0, <2>1, <2>2, FileListAssumption
    DEF ListIsBehind, ListIsOrdered, NothingIsSkipped, NothingIsForgotten
  <2> QED BY <2>3, <2>4 DEF IInv
<1>2. CASE HasRead
  <2>1. /\ sd = "reading" /\ names = {} /\ init' = TRUE /\ sd' = "idle"
        /\ UNCHANGED <<disk, list, names, cutoff, adding, now, faults>>
    BY <1>2 DEF HasRead
  <2>2. TypeOK' /\ DiskIsApart' /\ InitFits'
    BY <1>0, <2>1 DEF TypeOK, DiskIsApart, InitFits
  <2>3. ListIsBehind' /\ ListIsOrdered' /\ NothingIsSkipped' /\ NothingIsForgotten'
    BY <1>0, <2>1
    DEF ListIsBehind, ListIsOrdered, NothingIsSkipped, NothingIsForgotten
  <2> QED BY <2>2, <2>3 DEF IInv
<1> QED BY <1>1, <1>2

(* file_manager_set_reinit, and another or a formatted card.               *)
LEMMA CardChangesKeep == IInv /\ (Forgets \/ NewCard) => IInv'
<1> SUFFICES ASSUME IInv, Forgets \/ NewCard PROVE IInv'
  OBVIOUS
<1>0. /\ TypeOK /\ DiskIsApart /\ InitFits /\ ListIsBehind /\ ListIsOrdered
      /\ NothingIsSkipped /\ NothingIsForgotten
  BY DEF IInv
<1>1. <<>> \in Seq(Entry) /\ Len(<<>>) = 0
  OBVIOUS
<1>2. CASE Forgets
  <2>1. /\ sd = "idle" /\ adding = {} /\ names = {}
        /\ init' = FALSE /\ list' = <<>> /\ sd' = "unread"
        /\ UNCHANGED <<disk, names, cutoff, adding, now, faults>>
    BY <1>0, <1>2 DEF Forgets, InitFits
  <2>2. TypeOK'
    <3>1. list' \in Seq(Entry) /\ Len(list') <= MaxFiles
      BY <1>1, <2>1, FileListAssumption
    <3> QED BY <3>1, <1>0, <2>1 DEF TypeOK
  <2>3. DiskIsApart' /\ InitFits' /\ NothingIsSkipped' /\ NothingIsForgotten'
    BY <1>0, <2>1 DEF DiskIsApart, InitFits, NothingIsSkipped, NothingIsForgotten
  <2>4. ListIsBehind' /\ ListIsOrdered'
    BY <1>1, <2>1 DEF ListIsBehind, ListIsOrdered
  <2> QED BY <2>2, <2>3, <2>4 DEF IInv
<1>3. CASE NewCard
  <2>1. /\ sd = "unread" /\ disk' \in Cards(Today) /\ names = {} /\ adding = {}
        /\ list = <<>> /\ UNCHANGED <<list, init, sd, names, cutoff, adding, now, faults>>
    BY <1>0, <1>3 DEF NewCard, InitFits
  <2>2. TypeOK'
    BY <1>0, <2>1, CardsHoldRecordings DEF TypeOK
  <2>3. DiskIsApart'
    <3>1. \A f \in disk' : f.stop \in Int /\ f.stop <= Today
      BY <2>1, CardsHoldRecordings, EntriesAreTimes
    <3> QED BY <3>1, <1>0, <2>1, CardsHoldRecordings, FileListAssumption
            DEF DiskIsApart, TypeOK, Time
  <2>4. InitFits' /\ NothingIsSkipped' /\ NothingIsForgotten'
    BY <1>0, <2>1 DEF InitFits, NothingIsSkipped, NothingIsForgotten
  <2>5. ListIsBehind' /\ ListIsOrdered'
    BY <1>1, <2>1 DEF ListIsBehind, ListIsOrdered
  <2> QED BY <2>2, <2>3, <2>4, <2>5 DEF IInv
<1> QED BY <1>2, <1>3

(* file_manager_clean_disk removes files, and never an entry.              *)
LEMMA CleaningKeeps == IInv /\ (StartsCleaning \/ Cleans \/ LeavesLocked) => IInv'
<1> SUFFICES ASSUME IInv, StartsCleaning \/ Cleans \/ LeavesLocked PROVE IInv'
  OBVIOUS
<1> USE FileListAssumption
<1>0. /\ TypeOK /\ DiskIsApart /\ InitFits /\ ListIsBehind /\ ListIsOrdered
      /\ NothingIsSkipped /\ NothingIsForgotten
  BY DEF IInv
<1>1. /\ UNCHANGED <<list, init, names, adding, now>>
      /\ disk' \subseteq disk /\ names = {}
      /\ sd \in {"idle", "cleaning"} /\ sd' \in {"idle", "cleaning", "gone"}
      /\ cutoff' \in 0 .. MaxTime + Step /\ faults' \in 0 .. MaxFaults
  <2>1. TypeOK /\ InitFits
    BY <1>0
  <2>2. CASE StartsCleaning
    BY <2>1, <2>2 DEF StartsCleaning, TypeOK, InitFits, Time
  <2>3. CASE Cleans
    BY <2>1, <2>3 DEF Cleans, Old, TypeOK, InitFits
  <2>4. CASE LeavesLocked
    BY <2>1, <2>4 DEF LeavesLocked, TypeOK, InitFits
  <2> QED BY <2>2, <2>3, <2>4
<1>2. TypeOK'
  BY <1>0, <1>1 DEF TypeOK
<1>3. DiskIsApart' /\ InitFits' /\ NothingIsSkipped' /\ NothingIsForgotten'
  BY <1>0, <1>1 DEF DiskIsApart, InitFits, NothingIsSkipped, NothingIsForgotten
<1>4. ListIsBehind' /\ ListIsOrdered'
  BY <1>0, <1>1 DEF ListIsBehind, ListIsOrdered
<1> QED BY <1>2, <1>3, <1>4 DEF IInv

(* A step of something else.                                               *)
LEMMA StutteringKeeps == IInv /\ UNCHANGED vars => IInv'
BY DEF IInv, vars, TypeOK, DiskIsApart, InitFits, ListIsBehind, ListIsOrdered,
       NothingIsSkipped, NothingIsForgotten

(* The inductive invariant of the list: IInv holds in every state of Spec. *)
THEOREM Inductive == Spec => []IInv
<1>1. IInv /\ [Next]_vars => IInv'
  <2> SUFFICES ASSUME IInv, [Next]_vars PROVE IInv'
    OBVIOUS
  <2>1. CASE SdStep
    BY <2>1, ReadsNextKeeps, ReadingKeeps, CardChangesKeep, CleaningKeeps DEF SdStep
  <2>2. CASE \E s \in now .. MaxTime : \E e \in s + 1 .. MaxTime : Closes(s, e)
    BY <2>2, ClosesKeeps
  <2>3. CASE Adds
    BY <2>3, AddsKeeps
  <2>4. CASE UNCHANGED vars
    BY <2>4, StutteringKeeps
  <2> QED BY <2>1, <2>2, <2>3, <2>4 DEF Next
<1> QED BY <1>1, InitIsFine, PTL DEF Spec

-----------------------------------------------------------------------------
(* Induction over the naturals. The library's theorems take the predicate  *)
(* as an operator, which the provers cannot instantiate; a set does.       *)

(* Every set of naturals that is not empty has a least element: the number of *)
(* naturals below all of it.                                               *)
LEMMA LeastNatural ==
  ASSUME NEW T, T \subseteq Nat, T # {}
  PROVE  \E x \in T : \A y \in T : x <= y
<1>1. PICK n \in T : n \in Nat
  OBVIOUS
<1> DEFINE U == {x \in 0 .. n : \A y \in T : x < y}
<1> DEFINE m == Cardinality(U)
<1>2. IsFiniteSet(0 .. n)
  BY <1>1, FS_Interval
<1>3. U \in SUBSET (0 .. n)
  OBVIOUS
<1>4. IsFiniteSet(U) /\ m \in Nat
  BY <1>2, <1>3, FS_Subset, FS_CardinalityType, Zenon
<1>5. m \notin U
  <2> SUFFICES ASSUME m \in U PROVE FALSE
    OBVIOUS
  <2>1. 0 .. m \in SUBSET U
    BY <1>1, <1>4
  <2>2. Cardinality(0 .. m) <= m
    BY <2>1, <1>4, FS_Subset, Zenon
  <2>3. Cardinality(0 .. m) = m + 1
    BY <1>4, FS_Interval
  <2> QED BY <2>2, <2>3, <1>4
<1>6. m <= n 
  <2>1. n \notin U
    BY <1>1
  <2>2. U \in SUBSET (0 .. n - 1)
    BY <1>1, <2>1
  <2>3. IsFiniteSet(0 .. n - 1) /\ Cardinality(0 .. n - 1) = n
    BY <1>1, FS_Interval
  <2>4. m <= Cardinality(0 .. n - 1)
    BY <2>2, <2>3, FS_Subset, Zenon
  <2> QED BY <2>3, <2>4
<1>7. PICK t \in T : t <= m
  BY <1>1, <1>4, <1>5, <1>6
<1>8. \A y \in T : m <= y
  <2>1. CASE m = 0
    BY <2>1
  <2>2. CASE m # 0 /\ m - 1 \in U
    BY <2>2, <1>4
  <2>3. CASE m # 0 /\ m - 1 \notin U
    <3>1. U \in SUBSET (0 .. m - 2)
      BY <2>3, <1>1, <1>4, <1>6
    <3>2. IsFiniteSet(0 .. m - 2) /\ Cardinality(0 .. m - 2) = m - 1
      <4>1. \A k \in Int : /\ IsFiniteSet(0 .. k)
                            /\ Cardinality(0 .. k) = IF 0 > k THEN 0 ELSE k + 1
        BY FS_Interval
      <4>2. m \in Nat \ {0}
        BY <2>3, <1>4
      <4> HIDE DEF m, U
      <4>3. m - 2 \in Int /\ (IF 0 > m - 2 THEN 0 ELSE m - 2 + 1) = m - 1
        BY <4>2
      <4> QED BY <4>1, <4>3
    <3>3. m <= Cardinality(0 .. m - 2)
      BY <3>1, <3>2, FS_Subset, Zenon
    <3> QED BY <3>2, <3>3, <1>4
  <2> QED BY <2>1, <2>2, <2>3
<1> QED BY <1>7, <1>8, <1>4

(* Induction, with a set in the place of the predicate.                    *)
LEMMA NaturalInduction ==
  ASSUME NEW S, 0 \in S, \A n \in Nat : n \in S => n + 1 \in S
  PROVE  Nat \subseteq S
<1> SUFFICES ASSUME Nat \ S # {} PROVE FALSE
  OBVIOUS
<1>1. PICK x \in Nat \ S : \A y \in Nat \ S : x <= y
  BY LeastNatural
<1>2. x # 0 /\ x - 1 \in Nat /\ x - 1 \in S
  BY <1>1
<1> QED BY <1>1, <1>2
-----------------------------------------------------------------------------
(* The bisection.                                                          *)

(* What a bisection returns.                                               *)
Result == [at : Int, hit : BOOLEAN]

(* One turn of the loop of Bisection, which calls g for the next.          *)
Turn(a, key, g, w) ==
  LET mid == (w.low + w.high) \div 2
  IN  IF w.low > w.high THEN [at |-> w.low, hit |-> FALSE]
      ELSE IF key < a[mid] THEN g[[w EXCEPT !.high = mid - 1]]
      ELSE IF key > a[mid] THEN g[[w EXCEPT !.low = mid + 1]]
      ELSE [at |-> mid, hit |-> TRUE]

(* Both halves of a window are windows.                                    *)
LEMMA WindowShrinks ==
  ASSUME NEW n \in Nat, NEW w \in Window(n), w.low <= w.high,
         NEW mid, mid = (w.low + w.high) \div 2
  PROVE  /\ mid \in w.low .. w.high /\ mid \in 0 .. n - 1
         /\ [w EXCEPT !.high = mid - 1] \in Window(n)
         /\ [w EXCEPT !.high = mid - 1].low = w.low
         /\ [w EXCEPT !.high = mid - 1].high = mid - 1
         /\ [w EXCEPT !.low = mid + 1] \in Window(n)
         /\ [w EXCEPT !.low = mid + 1].low = mid + 1
         /\ [w EXCEPT !.low = mid + 1].high = w.high
<1>1. w.low \in 0 .. n /\ w.high \in -1 .. n - 1
  BY DEF Window
<1>2. mid \in w.low .. w.high
  BY <1>1
<1> QED BY <1>1, <1>2 DEF Window

(* One turn of the loop looks only at smaller windows ...                  *)
LEMMA TurnIsLocal ==
  ASSUME NEW n \in Nat, NEW a, NEW key, NEW g, NEW h, NEW w \in Window(n),
         \A v \in Window(n) : v.high - v.low < w.high - w.low => g[v] = h[v]
  PROVE  Turn(a, key, g, w) = Turn(a, key, h, w)
<1> DEFINE mid == (w.low + w.high) \div 2
<1>1. CASE w.low > w.high
  BY <1>1 DEF Turn
<1>2. CASE w.low <= w.high
  <2>1. w.low \in Int /\ w.high \in Int
    BY DEF Window
  <2>2. /\ mid \in w.low .. w.high
        /\ [w EXCEPT !.high = mid - 1] \in Window(n)
         /\ [w EXCEPT !.high = mid - 1].low = w.low
         /\ [w EXCEPT !.high = mid - 1].high = mid - 1
         /\ [w EXCEPT !.low = mid + 1] \in Window(n)
         /\ [w EXCEPT !.low = mid + 1].low = mid + 1
         /\ [w EXCEPT !.low = mid + 1].high = w.high
    BY <1>2, WindowShrinks
  <2>3. /\ g[[w EXCEPT !.high = mid - 1]] = h[[w EXCEPT !.high = mid - 1]]
        /\ g[[w EXCEPT !.low = mid + 1]] = h[[w EXCEPT !.low = mid + 1]]
    <3> DEFINE lower == [w EXCEPT !.high = mid - 1]
    <3> DEFINE upper == [w EXCEPT !.low = mid + 1]
    <3>1. /\ lower \in Window(n) /\ lower.low = w.low /\ lower.high = mid - 1
          /\ upper \in Window(n) /\ upper.low = mid + 1 /\ upper.high = w.high
      BY <2>2
    <3> HIDE DEF mid, lower, upper
    <3>2. g[lower] = h[lower] /\ g[upper] = h[upper]
      BY <2>1, <2>2, <3>1
    <3> QED BY <3>2 DEF lower, upper
  <2> QED BY <2>3, Zenon DEF Turn
<1> QED BY <1>1, <1>2 DEF Window

(* ... and it gives a result.                                              *)
LEMMA TurnIsResult ==
  ASSUME NEW n \in Nat, NEW a, NEW key, NEW g \in [Window(n) -> Result], NEW w \in Window(n)
  PROVE  Turn(a, key, g, w) \in Result
<1> DEFINE mid == (w.low + w.high) \div 2
<1>0. w.low \in Int /\ w.high \in Int
  BY DEF Window
<1>1. CASE w.low > w.high
  BY <1>0, <1>1 DEF Turn, Result
<1>2. CASE w.low <= w.high
  <2>2. /\ mid \in w.low .. w.high
        /\ [w EXCEPT !.high = mid - 1] \in Window(n)
         /\ [w EXCEPT !.low = mid + 1] \in Window(n)
    BY <1>2, WindowShrinks
  <2> HIDE DEF mid
  <2>3. /\ g[[w EXCEPT !.high = mid - 1]] \in Result
        /\ g[[w EXCEPT !.low = mid + 1]] \in Result
        /\ [at |-> mid, hit |-> TRUE] \in Result
    BY <1>0, <2>2 DEF Result
  <2>4. ~(w.low > w.high)
    BY <1>0, <1>2
  <2> QED BY <2>3, <2>4, Zenon DEF Turn, mid
<1> QED BY <1>0, <1>1, <1>2

(* g is the loop for the windows smaller than k.                           *)
Settles(a, key, g, n, k) ==
  \A w \in Window(n) : w.high - w.low < k => g[w] = Turn(a, key, g, w)

(* The recursive function of Bisection exists: there is one that is right for *)
(* windows smaller than k, for every k.                                    *)
LEMMA SearchExists ==
  ASSUME NEW n \in Nat, NEW a, NEW key
  PROVE  \E g \in [Window(n) -> Result] : g = [w \in Window(n) |-> Turn(a, key, g, w)]
<1> DEFINE S == {k \in Nat : \E g \in [Window(n) -> Result] : Settles(a, key, g, n, k)}
<1>0. \A w \in Window(n) : w.low \in 0 .. n /\ w.high \in -1 .. n - 1
  BY DEF Window
<1>1. 0 \in S
  <2> DEFINE g == [w \in Window(n) |-> [at |-> w.low, hit |-> FALSE]]
  <2>1. g \in [Window(n) -> Result]
    BY <1>0 DEF Result
  <2>2. Settles(a, key, g, n, 0)
    BY <1>0 DEF Settles, Turn
  <2> QED BY <2>1, <2>2
<1>2. ASSUME NEW k \in Nat, k \in S PROVE k + 1 \in S
  <2>1. PICK g \in [Window(n) -> Result] : Settles(a, key, g, n, k)
    BY <1>2
  <2> DEFINE h == [w \in Window(n) |-> IF w.high - w.low < k THEN g[w] ELSE Turn(a, key, g, w)]
  <2>2. h \in [Window(n) -> Result]
    BY TurnIsResult
  <2>3. Settles(a, key, h, n, k + 1)
    <3> SUFFICES ASSUME NEW w \in Window(n), w.high - w.low < k + 1
                 PROVE  h[w] = Turn(a, key, h, w)
      BY DEF Settles
    <3>1. h[w] = Turn(a, key, g, w)
      BY <2>1 DEF Settles
    <3>2. \A v \in Window(n) : v.high - v.low < w.high - w.low => g[v] = h[v]
      BY <1>0
    <3>3. Turn(a, key, g, w) = Turn(a, key, h, w)
      BY <3>2, TurnIsLocal
    <3> QED BY <3>1, <3>3
  <2> HIDE DEF h
  <2> QED BY <2>2, <2>3
<1>3. n \in S
  <2> HIDE DEF S
  <2> QED BY <1>1, <1>2, NaturalInduction
<1>4. PICK g \in [Window(n) -> Result] : Settles(a, key, g, n, n)
  BY <1>3
<1>5. \A w \in Window(n) : g[w] = Turn(a, key, g, w)
  BY <1>0, <1>4 DEF Settles
<1>6. g = [w \in Window(n) |-> Turn(a, key, g, w)]
  BY <1>5
<1> QED BY <1>6

(* Bisection is what the loop gives that starts with the whole list.       *)
LEMMA BisectionIsALoop ==
  ASSUME NEW n \in Nat, NEW a, NEW key
  PROVE  \E g : /\ \A w \in Window(n) : g[w] = Turn(a, key, g, w)
                /\ Bisection(a, n, key) = g[[low |-> 0, high |-> n - 1]]
<1> DEFINE P(g) == g = [w \in Window(n) |-> Turn(a, key, g, w)]
<1> DEFINE f == CHOOSE g : P(g)
<1>1. \E g : P(g)
  <2>1. \E g \in [Window(n) -> Result] : g = [w \in Window(n) |-> Turn(a, key, g, w)]
    BY SearchExists, Zenon
  <2> QED BY <2>1, Zenon
<1>2. P(f)
  <2> HIDE DEF P
  <2> QED BY <1>1
<1>3. Bisection(a, n, key) = f[[low |-> 0, high |-> n - 1]]
  BY DEF Bisection, Turn
<1>4. \A w \in Window(n) : f[w] = Turn(a, key, f, w)
  <2> HIDE DEF f
  <2> QED BY <1>2
<1> HIDE DEF f
<1> QED BY <1>3, <1>4

(* Where the bisection of n ascending values ends: at the key, or at the place *)
(* where the smaller values end and the greater ones begin. This is what   *)
(* the loop at the end of both file_manager_file_bisearch_* relies on.     *)
LEMMA BisectionEnds ==
  ASSUME NEW n \in Nat, NEW key \in Int, NEW a \in [0 .. n - 1 -> Int],
         \A i, j \in 0 .. n - 1 : i < j => a[i] <= a[j],
         NEW end, end = Bisection(a, n, key)
  PROVE  \/ end.hit /\ end.at \in 0 .. n - 1 /\ a[end.at] = key
         \/ /\ ~end.hit /\ end.at \in 0 .. n
            /\ \A i \in 0 .. n - 1 : IF i < end.at THEN a[i] < key ELSE a[i] > key
<1> DEFINE Between(w) == /\ w.low <= w.high + 1
                         /\ \A i \in 0 .. n - 1 : /\ i < w.low => a[i] < key
                                                  /\ i > w.high => a[i] > key
<1> DEFINE Right(r) ==
      \/ r.hit /\ r.at \in 0 .. n - 1 /\ a[r.at] = key
      \/ /\ ~r.hit /\ r.at \in 0 .. n
         /\ \A i \in 0 .. n - 1 : IF i < r.at THEN a[i] < key ELSE a[i] > key
<1>1. PICK g : /\ \A w \in Window(n) : g[w] = Turn(a, key, g, w)
               /\ Bisection(a, n, key) = g[[low |-> 0, high |-> n - 1]]
  BY BisectionIsALoop
<1>2. \A w \in Window(n) : w.low \in 0 .. n /\ w.high \in -1 .. n - 1
  BY DEF Window
<1> DEFINE S == {k \in Nat : \A w \in Window(n) : w.high - w.low < k /\ Between(w) => Right(g[w])}
<1>3. ASSUME NEW w \in Window(n), Between(w), w.low > w.high PROVE Right(g[w])
  <2>1. g[w] = [at |-> w.low, hit |-> FALSE]
    BY <1>1, <1>3 DEF Turn
  <2>2. w.low = w.high + 1
    BY <1>2, <1>3
  <2> QED BY <1>2, <1>3, <2>1, <2>2
<1>4. 0 \in S
  <2> SUFFICES ASSUME NEW w \in Window(n), w.high - w.low < 0 /\ Between(w) PROVE Right(g[w])
    OBVIOUS
  <2>1. w.low > w.high
    BY <1>2
  <2> HIDE DEF Right, Between
  <2> QED BY <1>3, <2>1
<1>5. ASSUME NEW k \in Nat, k \in S PROVE k + 1 \in S
  <2> SUFFICES ASSUME NEW w \in Window(n), w.high - w.low < k + 1, Between(w)
               PROVE  Right(g[w])
    OBVIOUS
  <2>1. CASE w.low > w.high
    BY <1>3, <2>1
  <2>2. CASE w.low <= w.high
    <3> DEFINE mid == (w.low + w.high) \div 2
    <3> DEFINE lower == [w EXCEPT !.high = mid - 1]
    <3> DEFINE upper == [w EXCEPT !.low = mid + 1]
    <3>1. /\ mid \in w.low .. w.high /\ mid \in 0 .. n - 1
          /\ lower \in Window(n) /\ lower.low = w.low /\ lower.high = mid - 1
          /\ upper \in Window(n) /\ upper.low = mid + 1 /\ upper.high = w.high
      BY <2>2, WindowShrinks
    <3>2. ~(w.low > w.high)
      BY <1>2, <2>2
    <3>3. g[w] = IF key < a[mid] THEN g[lower]
                 ELSE IF key > a[mid] THEN g[upper]
                 ELSE [at |-> mid, hit |-> TRUE]
      BY <1>1, <3>2, Zenon DEF Turn
    <3> HIDE DEF mid, lower, upper
    <3>4. a[mid] \in Int /\ mid \in Int /\ w.low \in Int /\ w.high \in Int
          /\ w.low <= mid /\ mid <= w.high
      <4>1. w.low \in Int /\ w.high \in Int
        BY <1>2
      <4>2. a[mid] \in Int
        BY <3>1
      <4> QED BY <3>1, <4>1, <4>2
    <3>5. CASE key < a[mid]
      <4>1. lower.high - lower.low < k /\ lower.low <= lower.high + 1
        BY <3>1, <3>4
      <4>2. ASSUME NEW i \in 0 .. n - 1
            PROVE  (i < w.low => a[i] < key) /\ (i > mid - 1 => a[i] > key)
        <5>1. a[i] \in Int
          OBVIOUS
        <5>2. i = mid \/ (i < mid /\ a[i] <= a[mid]) \/ (i > mid /\ a[mid] <= a[i])
          BY <3>1
        <5> QED BY <3>1, <3>4, <3>5, <5>1, <5>2
      <4>3. Between(lower)
        BY <3>1, <4>1, <4>2
      <4>4. Right(g[lower])
        <5> HIDE DEF Right, Between
        <5> QED BY <1>5, <3>1, <4>1, <4>3
      <4>5. g[w] = g[lower]
        BY <3>3, <3>5
      <4> QED BY <4>4, <4>5
    <3>6. CASE key > a[mid]
      <4>1. upper.high - upper.low < k /\ upper.low <= upper.high + 1
        BY <3>1, <3>4
      <4>2. ASSUME NEW i \in 0 .. n - 1
            PROVE  (i < mid + 1 => a[i] < key) /\ (i > w.high => a[i] > key)
        <5>1. a[i] \in Int
          OBVIOUS
        <5>2. i = mid \/ (i < mid /\ a[i] <= a[mid]) \/ (i > mid /\ a[mid] <= a[i])
          BY <3>1
        <5> QED BY <3>1, <3>4, <3>6, <5>1, <5>2
      <4>3. Between(upper)
        BY <3>1, <4>1, <4>2
      <4>4. Right(g[upper])
        <5> HIDE DEF Right, Between
        <5> QED BY <1>5, <3>1, <4>1, <4>3
      <4>5. g[w] = g[upper]
        BY <3>3, <3>4, <3>6
      <4> QED BY <4>4, <4>5
    <3>7. CASE key = a[mid]
      <4>1. g[w] = [at |-> mid, hit |-> TRUE]
        BY <3>3, <3>4, <3>7
      <4> QED BY <3>1, <3>7, <4>1
    <3> QED BY <3>4, <3>5, <3>6, <3>7
  <2> QED BY <1>2, <2>1, <2>2
<1>6. n \in S
  <2> HIDE DEF S
  <2> QED BY <1>4, <1>5, NaturalInduction
<1>7. /\ [low |-> 0, high |-> n - 1] \in Window(n)
      /\ Between([low |-> 0, high |-> n - 1])
  BY DEF Window
<1>8. Right(g[[low |-> 0, high |-> n - 1]])
  <2> HIDE DEF Right, Between
  <2> QED BY <1>6, <1>7
<1> QED BY <1>1, <1>8

-----------------------------------------------------------------------------
(* The search.                                                             *)

(* The slots of a list that is ordered and apart.                          *)
LEMMA ListIsSearchable ==
  ASSUME TypeOK, ListIsBehind, ListIsOrdered, EntriesAreApart, list # <<>>
  PROVE  /\ Len(list) \in Nat \ {0}
         /\ \A i \in Slots : /\ i + 1 \in 1 .. Len(list) /\ i \in Int
                            /\ Start(i) = list[i + 1].start /\ Stop(i) = list[i + 1].stop
                            /\ Start(i) \in Int /\ Stop(i) \in Int /\ Start(i) < Stop(i)
         /\ \A i, j \in Slots : i < j => /\ Start(i) < Start(j) /\ Stop(i) <= Stop(j)
                                         /\ Stop(i) <= Start(j)
<1>1. Len(list) \in Nat \ {0}
  <2>1. list \in Seq(Entry)
    BY DEF TypeOK
  <2> QED BY <2>1
<1>2. ASSUME NEW i \in Slots
      PROVE  /\ i + 1 \in 1 .. Len(list) /\ i \in Int
             /\ Start(i) = list[i + 1].start /\ Stop(i) = list[i + 1].stop
             /\ Start(i) \in Int /\ Stop(i) \in Int /\ Start(i) < Stop(i)
  <2>1. i + 1 \in 1 .. Len(list) /\ i \in Int /\ i < Len(list)
    BY <1>1 DEF Slots
  <2>2. Start(i) = list[i + 1].start /\ Stop(i) = list[i + 1].stop
    BY <2>1 DEF Start, Stop
  <2>3. list[i + 1] \in Entry /\ list[i + 1].start < list[i + 1].stop
    BY <2>1, ListHoldsEntries DEF ListIsBehind
  <2>4. list[i + 1].start \in Int /\ list[i + 1].stop \in Int
    BY <2>3, EntriesAreTimes
  <2> QED BY <2>1, <2>2, <2>3, <2>4
<1>3. ASSUME NEW i \in Slots, NEW j \in Slots, i < j
      PROVE  Start(i) < Start(j) /\ Stop(i) <= Stop(j) /\ Stop(i) <= Start(j)
  <2>1. i + 1 < j + 1 /\ i + 1 \in 1 .. Len(list) /\ j + 1 \in 1 .. Len(list)
    BY <1>2, <1>3
  <2>2. /\ list[i + 1].start < list[j + 1].start /\ list[i + 1].stop <= list[j + 1].stop
        /\ list[i + 1].stop <= list[j + 1].start
    BY <2>1 DEF ListIsOrdered, EntriesAreApart
  <2> QED BY <1>2, <2>2
<1> QED BY <1>1, <1>2, <1>3

(* file_manager_file_bisearch_start: nothing before the slot it returns lasts *)
(* beyond s. Behind the last start it would return a slot without an entry. *)
LEMMA FirstSlot ==
  ASSUME TypeOK, ListIsBehind, ListIsOrdered, EntriesAreApart, list # <<>>,
         NEW s \in Int, s <= Start(Len(list) - 1)
  PROVE  /\ BisearchStart(s) \in Slots
         /\ \A i \in Slots : i < BisearchStart(s) => Stop(i) <= s
<1> DEFINE n == Len(list)
<1> DEFINE end == Bisection(Starts, n, s)
<1>1. /\ n \in Nat \ {0} /\ n - 1 \in Slots /\ 0 \in Slots /\ n - 1 \in Int /\ n \in Nat
      /\ Slots = 0 .. n - 1
  BY ListIsSearchable DEF Slots
<1>2. /\ Starts \in [0 .. n - 1 -> Int]
      /\ \A i \in 0 .. n - 1 : Starts[i] = Start(i)
      /\ \A i, j \in 0 .. n - 1 : i < j => Starts[i] <= Starts[j]
  <2>1. \A i \in Slots : Start(i) \in Int
    BY ListIsSearchable
  <2>2. \A i, j \in Slots : i < j => Start(i) < Start(j)
    BY ListIsSearchable
  <2>3. \A i \in Slots : Starts[i] = Start(i)
    BY DEF Starts
  <2>4. Starts \in [Slots -> Int]
    BY <2>1 DEF Starts
  <2>5. \A i, j \in Slots : i < j => Starts[i] <= Starts[j]
    BY <2>1, <2>2, <2>3
  <2> QED BY <1>1, <2>3, <2>4, <2>5
<1> HIDE DEF n
<1>3. \/ end.hit /\ end.at \in 0 .. n - 1 /\ Starts[end.at] = s
      \/ /\ ~end.hit /\ end.at \in 0 .. n
         /\ \A i \in 0 .. n - 1 : IF i < end.at THEN Starts[i] < s ELSE Starts[i] > s
  BY <1>1, <1>2, BisectionEnds
<1>4. BisearchStart(s) = IF Start(0) > s THEN 0
                         ELSE IF end.hit \/ s > Start(end.at) THEN end.at ELSE end.at - 1
  BY DEF BisearchStart, n
<1> HIDE DEF end
<1>5. CASE Start(0) > s
  <2>1. BisearchStart(s) = 0
    BY <1>4, <1>5
  <2> QED BY <1>1, <2>1
<1>6. CASE ~(Start(0) > s)
  <2>1. BisearchStart(s) \in Slots /\ Start(BisearchStart(s)) <= s
    <3>1. CASE end.hit
      <4>1. BisearchStart(s) = end.at /\ end.at \in Slots /\ Start(end.at) = s
        BY <1>1, <1>2, <1>3, <1>4, <1>6, <3>1
      <4> QED BY <4>1
    <3>2. CASE ~end.hit
      <4>1. /\ end.at \in 0 .. n
            /\ \A i \in Slots : IF i < end.at THEN Start(i) < s ELSE Start(i) > s
        BY <1>1, <1>2, <1>3, <3>2
      <4>2. end.at # 0
        BY <1>1, <1>6, <4>1
      <4>3. end.at # n
        <5>1. s <= Start(n - 1) /\ Start(n - 1) \in Int
          BY <1>1, ListIsSearchable DEF n
        <5>2. n - 1 < n
          BY <1>1
        <5>3. end.at = n => Start(n - 1) < s
          BY <1>1, <4>1, <5>2
        <5> QED BY <5>1, <5>3
      <4>4. end.at \in Slots /\ end.at - 1 \in Slots /\ end.at - 1 < end.at
        BY <1>1, <4>1, <4>2, <4>3
      <4>5. Start(end.at) > s /\ Start(end.at - 1) < s
        BY <4>1, <4>4
      <4>6. Start(end.at) \in Int /\ Start(end.at - 1) \in Int
        BY <4>4, ListIsSearchable
      <4>7. BisearchStart(s) = end.at - 1
        BY <1>4, <1>6, <3>2, <4>5, <4>6
      <4> QED BY <4>4, <4>5, <4>6, <4>7
    <3> QED BY <3>1, <3>2
  <2> HIDE DEF end
  <2>2. ASSUME NEW i \in Slots, i < BisearchStart(s) PROVE Stop(i) <= s
    <3> DEFINE j == BisearchStart(s)
    <3>1. j \in Slots /\ Start(j) <= s /\ i < j
      BY <2>1, <2>2
    <3> HIDE DEF j
    <3>2. Stop(i) <= Start(j) /\ Stop(i) \in Int /\ Start(j) \in Int
      BY <3>1, ListIsSearchable
    <3> QED BY <3>1, <3>2
  <2> QED BY <2>1, <2>2
<1> QED BY <1>5, <1>6

(* file_manager_file_bisearch_stop: nothing behind the slot it returns begins *)
(* before e.                                                               *)
LEMMA LastSlot ==
  ASSUME TypeOK, ListIsBehind, ListIsOrdered, EntriesAreApart, list # <<>>,
         NEW e \in Int
  PROVE  /\ BisearchStop(e) \in Slots
         /\ \A i \in Slots : i > BisearchStop(e) => Start(i) >= e
<1> DEFINE n == Len(list)
<1> DEFINE end == Bisection(Stops, n, e)
<1>1. /\ n \in Nat \ {0} /\ n - 1 \in Slots /\ n - 1 \in Int /\ n \in Nat
      /\ Slots = 0 .. n - 1
  BY ListIsSearchable DEF Slots
<1>2. /\ Stops \in [0 .. n - 1 -> Int]
      /\ \A i \in 0 .. n - 1 : Stops[i] = Stop(i)
      /\ \A i, j \in 0 .. n - 1 : i < j => Stops[i] <= Stops[j]
  <2>1. \A i \in Slots : Stop(i) \in Int
    BY ListIsSearchable
  <2>2. \A i, j \in Slots : i < j => Stop(i) <= Stop(j)
    BY ListIsSearchable
  <2>3. \A i \in Slots : Stops[i] = Stop(i)
    BY DEF Stops
  <2>4. Stops \in [Slots -> Int]
    BY <2>1 DEF Stops
  <2>5. \A i, j \in Slots : i < j => Stops[i] <= Stops[j]
    BY <2>2, <2>3
  <2> QED BY <1>1, <2>3, <2>4, <2>5
<1> HIDE DEF n
<1>3. \/ end.hit /\ end.at \in 0 .. n - 1 /\ Stops[end.at] = e
      \/ /\ ~end.hit /\ end.at \in 0 .. n
         /\ \A i \in 0 .. n - 1 : IF i < end.at THEN Stops[i] < e ELSE Stops[i] > e
  BY <1>1, <1>2, BisectionEnds
<1>4. BisearchStop(e) = IF Stop(n - 1) < e THEN n - 1
                        ELSE IF end.hit \/ e < Stop(end.at) THEN end.at ELSE end.at + 1
  BY DEF BisearchStop, n
<1> HIDE DEF end
<1>5. CASE Stop(n - 1) < e
  <2>1. BisearchStop(e) = n - 1
    BY <1>4, <1>5
  <2> QED BY <1>1, <2>1
<1>6. CASE ~(Stop(n - 1) < e)
  <2>1. BisearchStop(e) = end.at /\ end.at \in Slots /\ Stop(end.at) >= e
    <3>1. CASE end.hit
      <4>1. BisearchStop(e) = end.at /\ end.at \in Slots /\ Stop(end.at) = e
        BY <1>1, <1>2, <1>3, <1>4, <1>6, <3>1
      <4> QED BY <4>1
    <3>2. CASE ~end.hit
      <4>1. /\ end.at \in 0 .. n
            /\ \A i \in Slots : IF i < end.at THEN Stop(i) < e ELSE Stop(i) > e
        BY <1>1, <1>2, <1>3, <3>2
      <4>2. end.at # n
        BY <1>1, <1>6, <4>1
      <4>3. end.at \in Slots /\ ~(end.at < end.at)
        BY <1>1, <4>1, <4>2
      <4>4. Stop(end.at) > e /\ Stop(end.at) \in Int
        <5>1. Stop(end.at) > e
          BY <4>1, <4>3
        <5> QED BY <4>3, <5>1, ListIsSearchable
      <4> QED BY <1>4, <1>6, <4>3, <4>4
    <3> QED BY <3>1, <3>2
  <2>2. ASSUME NEW i \in Slots, i > end.at PROVE Start(i) >= e
    <3> DEFINE j == end.at
    <3>1. j \in Slots /\ Stop(j) >= e /\ i > j
      BY <2>1, <2>2
    <3> HIDE DEF j
    <3>2. j \in Int /\ i \in Int
      BY <3>1, ListIsSearchable
    <3>3. j < i
      BY <3>1, <3>2
    <3>4. Stop(j) <= Start(i) /\ Stop(j) \in Int /\ Start(i) \in Int
      BY <3>1, <3>3, ListIsSearchable
    <3> QED BY <3>1, <3>4
  <2> QED BY <2>1, <2>2
<1> QED BY <1>5, <1>6

(* file_manager_search_file_list returns exactly what overlaps the interval. *)
LEMMA SearchFindsAll ==
  ASSUME IInv, NEW s \in Time, NEW e \in s + 1 .. MaxTime,
         list # <<>>, s <= list[Len(list)].start, EntriesAreApart
  PROVE  Found(s, e) = Hits(s, e)
<1>0. TypeOK /\ ListIsBehind /\ ListIsOrdered
  BY DEF IInv
<1> DEFINE from == BisearchStart(s)
<1> DEFINE to == BisearchStop(e)
<1>1. s \in Int /\ e \in Int /\ s < e
  BY FileListAssumption DEF Time
<1>2. Len(list) - 1 \in Slots /\ Start(Len(list) - 1) = list[Len(list)].start
  <2>1. Len(list) \in Nat \ {0}
    BY <1>0, ListIsSearchable
  <2>2. Len(list) - 1 \in Slots /\ Len(list) - 1 + 1 = Len(list) /\ Len(list) - 1 < Len(list)
    BY <2>1 DEF Slots
  <2> QED BY <2>2 DEF Start
<1>3. from \in Slots /\ \A i \in Slots : i < from => Stop(i) <= s
  BY <1>0, <1>1, <1>2, FirstSlot
<1>4. to \in Slots /\ \A i \in Slots : i > to => Start(i) >= e
  BY <1>0, <1>1, LastSlot
<1>5. Found(s, e) = Hits(s, e) \cap (from .. to)
  BY <1>3, <1>4 DEF Found
<1> HIDE DEF from, to
<1>6. ASSUME NEW i \in Hits(s, e) PROVE i \in from .. to
  <2>1. /\ i \in Slots
        /\ list[i + 1].stop > s /\ list[i + 1].start < e
    BY DEF Hits, Overlaps
  <2>2. /\ i \in Int /\ Start(i) = list[i + 1].start /\ Stop(i) = list[i + 1].stop
        /\ Start(i) \in Int /\ Stop(i) \in Int /\ from \in Int /\ to \in Int
    BY <1>0, <1>3, <1>4, <2>1, ListIsSearchable
  <2>3. ~(i < from)
    BY <1>1, <1>3, <2>1, <2>2
  <2>4. ~(i > to)
    BY <1>1, <1>4, <2>1, <2>2
  <2> QED BY <2>2, <2>3, <2>4
<1> QED BY <1>5, <1>6

(* Type correctness: file_manager_read_file_list and file_manager_add_file *)
(* never put more than MAX_FILE_NUM entries into the arrays.               *)
THEOREM FileListIsTyped == Spec => []TypeOK
<1>1. IInv => TypeOK
  BY DEF IInv
<1> QED BY <1>1, Inductive, PTL

(* The list is ascending in every state, half read, or with addresses that *)
(* file_manager_add_file has taken for stops.                              *)
THEOREM ListStaysOrdered == Spec => []ListIsOrdered
<1>1. IInv => ListIsOrdered
  BY DEF IInv
<1> QED BY <1>1, Inductive, PTL

(* Whatever recorder_thread_close left on the card is in the list once it has *)
(* been read and the recorder has added the file, unless the list is full. *)
THEOREM NothingIsEverForgotten == Spec => []NothingIsForgotten
<1>1. IInv => NothingIsForgotten
  BY DEF IInv
<1> QED BY <1>1, Inductive, PTL

(* A search returns exactly the entries that overlap the interval, for every *)
(* length of the list, if it does not begin behind the last start and no two *)
(* entries overlap: the two bisections are right on every such list.       *)
THEOREM SearchesAreExact == Spec => []SearchIsExact
<1>1. IInv => SearchIsExact
  BY SearchFindsAll DEF SearchIsExact
<1> QED BY <1>1, Inductive, PTL
=============================================================================
