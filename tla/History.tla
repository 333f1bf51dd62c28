-------------------------------- MODULE History --------------------------------
(***************************************************************************)
(* The records kept on disk: the snapshots of history.go, the alerts and    *)
(* watch states of alert_storage.go, all through the one LocalFileStorage   *)
(* of storage.go, and the search index of reverse_local.go, which is in     *)
(* memory.  A process may die at any point and start again.                 *)
(***************************************************************************)
EXTENDS Naturals

CONSTANTS
  Recorded,     \* the domains that have snapshots
  Registrants,  \* what a record holds: the contact a snapshot is searched by
  Writers,      \* the goroutines that call the functions
  MaxSecond,    \* bound on the clock, whose seconds name the files
  MaxSaves,     \* bound on the records that are saved
  NoRecord, HalfWritten

ASSUME HistoryAssumption ==
  /\ MaxSecond \in Nat /\ MaxSaves \in Nat
  /\ {NoRecord, HalfWritten} \cap Registrants = {} /\ NoRecord # HalfWritten

VARIABLES
  second,  \* the clock
  saves,   \* how many records were to be saved
  files,   \* what each file holds, temporary ones included
  index,   \* LocalReverseWhoisIndex.index
  writer,  \* the call each goroutine is in
  kept,    \* history: the record that the last complete Save left under a key
  lost     \* history: entries that the index may lack since it was emptied

records == <<second, saves, files, index, writer, kept, lost>>
-----------------------------------------------------------------------------
(* The files of a snapshot: history:<domain>:<second>, of an alert:         *)
(* alert:<second>:<id>, of a watch state: watch:<domain>.                   *)
Snapshots == [kind : {"history"}, name : Recorded, at : 0 .. MaxSecond]
StateKeys == [kind : {"alert"}, name : {"id"}, at : 0 .. MaxSecond]
               \cup [kind : {"watch"}, name : Recorded, at : {0}]
Files     == [key : Snapshots \cup StateKeys, tmp : BOOLEAN]

File(k) == [key |-> k, tmp |-> FALSE]

(* keyPath + ".tmp".  Mutation: the file itself is written.                 *)
TmpSelf(k) == File(k)
Tmp(k)     == [key |-> k, tmp |-> TRUE]

(* LocalFileStorage.List does not see temporary files.                      *)
Listed(kind)   == {f \in Files : ~f.tmp /\ f.key.kind = kind /\ files[f] # NoRecord}
Entry(f)       == <<files[f], f.key.name>>

(* QueryAlerts, GetAlert and LoadWatchStates pass over what they cannot     *)
(* load; so does QuerySnapshots, here of every domain.                      *)
Loaded(kind)   == {f \in Listed(kind) : files[f] # HalfWritten}
QuerySnapshots == {Entry(f) : f \in Loaded("history")}

(* searchByField.  A value that nothing has is also looked for as a part of *)
(* others: left out.                                                        *)
SearchByField(contact) == {e[2] : e \in {f \in index : f[1] = contact}}

Idle == [pc |-> "idle"]

HistoryInit ==
  /\ second = 0 /\ saves = 0
  /\ files = [f \in Files |-> NoRecord]
  /\ index = {}
  /\ writer = [w \in Writers |-> Idle]
  /\ kept = [k \in Snapshots \cup StateKeys |-> NoRecord]
  /\ lost = {}

(* The mutex of the storage is held while a file is written.                *)
StorageFree == \A w \in Writers : writer[w].pc # "writing"
-----------------------------------------------------------------------------
(* LocalFileStorage.Save: the temporary file is opened, which empties it.   *)
BeginSave(w, key, shows) ==
  /\ writer[w] = Idle /\ StorageFree
  /\ saves < MaxSaves /\ saves' = saves + 1
  /\ files' = [files EXCEPT ![Tmp(key)] = HalfWritten]
  /\ writer' = [writer EXCEPT ![w] = [pc |-> "writing", key |-> key, shows |-> shows]]
  /\ UNCHANGED <<second, index, kept, lost>>

(* SaveHistorySnapshot, SaveAlert and SaveWatchState name the file.         *)
SaveHistorySnapshot(w) ==
  \E d \in Recorded, r \in Registrants :
    BeginSave(w, [kind |-> "history", name |-> d, at |-> second], r)
SaveAlert(w) ==
  \E r \in Registrants : BeginSave(w, [kind |-> "alert", name |-> "id", at |-> second], r)
SaveWatchState(w) ==
  \E d \in Recorded, r \in Registrants : BeginSave(w, [kind |-> "watch", name |-> d, at |-> 0], r)

(* The file is whole and renamed; a snapshot is then indexed, without the   *)
(* lock of the history.                                                     *)
Renamed(w) ==
  /\ writer[w].pc = "writing"
  /\ LET k == writer[w].key  r == writer[w].shows IN
     /\ files' = [[files EXCEPT ![Tmp(k)] = NoRecord] EXCEPT ![File(k)] = r]
     /\ kept' = [kept EXCEPT ![k] = r]
     /\ writer' = [writer EXCEPT ![w] = IF k.kind = "history" THEN [@ EXCEPT !.pc = "saved"] ELSE Idle]
  /\ UNCHANGED <<second, saves, index, lost>>

(* WriteFile or Rename fails: the temporary file stays.                     *)
SaveFails(w) ==
  /\ writer[w].pc = "writing"
  /\ writer' = [writer EXCEPT ![w] = Idle]
  /\ UNCHANGED <<second, saves, files, index, kept, lost>>

(* addToIndex.                                                              *)
Indexed(e) == index \cup {e}

(* IndexWhoisSnapshot: entries are added and never removed.                 *)
IndexSnapshot(w) ==
  /\ writer[w].pc = "saved"
  /\ index' = Indexed(<<writer[w].shows, writer[w].key.name>>)
  /\ lost' = lost \ {<<writer[w].shows, writer[w].key.name>>}
  /\ writer' = [writer EXCEPT ![w] = Idle]
  /\ UNCHANGED <<second, saves, files, kept>>

(* RebuildFromSnapshots, from a list that its caller has read before.       *)
ListSnapshots(w) ==
  /\ writer[w] = Idle /\ StorageFree
  /\ writer' = [writer EXCEPT ![w] = [pc |-> "listed", list |-> QuerySnapshots]]
  /\ UNCHANGED <<second, saves, files, index, kept, lost>>

(* The index is emptied.  What is not on the list will not be found, unless *)
(* its own save, or another rebuild, is yet to index it.                    *)
EmptyIndex(w) ==
  /\ writer[w].pc = "listed"
  /\ index' = {}
  /\ writer' = [writer EXCEPT ![w].pc = "indexing"]
  /\ lost' = QuerySnapshots \ writer[w].list
  /\ UNCHANGED <<second, saves, files, kept>>

IndexNext(w) ==
  /\ writer[w].pc = "indexing"
  /\ \/ /\ writer[w].list = {}
        /\ writer' = [writer EXCEPT ![w] = Idle]
        /\ UNCHANGED <<index, lost>>
     \/ \E e \in writer[w].list :
          /\ index' = Indexed(e) /\ lost' = lost \ {e}
          /\ writer' = [writer EXCEPT ![w].list = @ \ {e}]
  /\ UNCHANGED <<second, saves, files, kept>>

(* DeleteSnapshot and DeleteWatchState; DeleteAlert removes the first file  *)
(* it can load whose alert has the ID.  The index keeps its entries.        *)
Delete(f) ==
  /\ StorageFree
  /\ files' = [files EXCEPT ![f] = NoRecord]
  /\ kept' = [kept EXCEPT ![f.key] = NoRecord]
  /\ UNCHANGED <<second, saves, index, writer, lost>>
DeleteSnapshot   == \E f \in Listed("history") : Delete(f)
DeleteWatchState == \E f \in Listed("watch") : Delete(f)
DeleteAlert ==
  \E f \in Loaded("alert") :
    (\A g \in Loaded("alert") : f.key.at <= g.key.at) /\ Delete(f)

(* The process dies, and starts with an empty index.                        *)
Die ==
  /\ index' = {}
  /\ writer' = [w \in Writers |-> Idle]
  /\ lost' = QuerySnapshots
  /\ UNCHANGED <<second, saves, files, kept>>

Second ==
  /\ second < MaxSecond /\ second' = second + 1
  /\ UNCHANGED <<saves, files, index, writer, kept, lost>>

HistoryNext ==
  \/ \E w \in Writers :
       \/ SaveHistorySnapshot(w) \/ SaveAlert(w) \/ SaveWatchState(w)
       \/ Renamed(w) \/ SaveFails(w) \/ IndexSnapshot(w)
       \/ ListSnapshots(w) \/ EmptyIndex(w) \/ IndexNext(w)
  \/ DeleteSnapshot \/ DeleteWatchState \/ DeleteAlert
  \/ Die \/ Second

HistorySpec == HistoryInit /\ [][HistoryNext]_records
-----------------------------------------------------------------------------
Calls ==
  {Idle} \cup [pc : {"writing", "saved"}, key : Snapshots \cup StateKeys, shows : Registrants]
    \cup [pc : {"listed", "indexing"}, list : SUBSET (Registrants \X Recorded)]

HistoryTypeOK ==
  /\ second \in 0 .. MaxSecond /\ saves \in 0 .. MaxSaves
  /\ files \in [Files -> Registrants \cup {NoRecord, HalfWritten}]
  /\ index \subseteq Registrants \X Recorded
  /\ writer \in [Writers -> Calls]
  /\ kept \in [Snapshots \cup StateKeys -> Registrants \cup {NoRecord}]
  /\ lost \subseteq Registrants \X Recorded

(* A record is read back as its last complete save left it, until it is     *)
(* deleted: no save that fails or dies half-way, of this key or another,    *)
(* and no restart takes it away or damages it.                              *)
RecordsWhole == \A k \in Snapshots \cup StateKeys : files[File(k)] = kept[k]

(* A stored snapshot is found by its contact, unless its own save or a      *)
(* running rebuild is yet to index it, or the index was emptied since: by a *)
(* restart, or by a rebuild whose list was read before the snapshot came.   *)
FoundUnlessRebuilt ==
  \A e \in QuerySnapshots \ lost :
    e[2] \in SearchByField(e[1]) \/ \E w \in Writers :
      \/ writer[w].pc = "saved" /\ e = <<writer[w].shows, writer[w].key.name>>
      \/ writer[w].pc = "indexing" /\ e \in writer[w].list

(* The two together.                                                        *)
HistoryKept == RecordsWhole /\ FoundUnlessRebuilt

(* The files, temporary ones aside, are a store that a save changes at one  *)
(* moment, however many steps it has and wherever it ends.                  *)
Atomic == INSTANCE RecordStore WITH
  Keys    <- Snapshots \cup StateKeys,
  Values  <- Registrants,
  Clients <- Writers,
  Missing <- NoRecord,
  store   <- [k \in Snapshots \cup StateKeys |-> files[File(k)]],
  saving  <- [w \in Writers |-> IF writer[w].pc = "writing"
                                THEN {<<writer[w].key, writer[w].shows>>} ELSE {}]
StoresAtOnce == Atomic!Spec
=============================================================================
