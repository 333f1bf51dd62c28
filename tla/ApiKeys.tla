-------------------------------- MODULE ApiKeys --------------------------------
(***************************************************************************)
(* The API keys of pkg/security/apikey.go: a table behind a lock, and a     *)
(* file that every change rewrites after the lock is released.  Calls       *)
(* interleave between the change, the copy of the table, the opening of the *)
(* file, which empties it, and the write.  The file is only loaded when the *)
(* process starts.  The rate limit and the time of expiry are one value,    *)
(* the terms; IDs and creation times are left out.                          *)
(***************************************************************************)
EXTENDS Naturals, FiniteSets

CONSTANTS
  Keys, Admins,     \* bounds: the keys that can be made, the callers at a time
  PermissionSets,   \* the permissions a key may be given
  Terms,            \* the terms it may be given
  GivenPath,        \* the file the process is told to load
  None, Torn        \* no such key or file, and a file that cannot be parsed

ASSUME KeysAssumption ==
  /\ {} \in PermissionSets /\ {"admin"} \in PermissionSets
  /\ GivenPath \notin {"", "config/apikeys.json"} /\ Torn # None

VARIABLES
  keys,      \* the table
  path,      \* configPath, "" at first
  file,      \* what is in each file
  used,      \* the keys made so far: they are random, none is made twice
  caller,    \* how far each call is: idle, changed, copied or opened
  copied,    \* the pointers it copied: what reading each key may give
  data,      \* what it is about to write
  over,      \* whether another call wrote since it opened the file
  alone,     \* history: no other call was under way since it began
  settled,   \* history: the last change was such a call, and saved
  since,     \* history: what reading each key could give since the last such save
  written    \* history: the file at path was loaded, or opened by a save

keyFile == <<keys, path, file, used, caller, copied, data, over, alone, settled, since, written>>
-----------------------------------------------------------------------------
DefaultPath == "config/apikeys.json"
Paths == {DefaultPath, GivenPath}

APIKey == [permissions : SUBSET UNION PermissionSets, terms : Terms]
Table  == [Keys -> APIKey \cup {None}]
NoKeys == [k \in Keys |-> None]

ASSUME MarkersAssumption == None \notin Table /\ Torn \notin Table

(* What InitAPIKeys and LoadConfig make of a file they can parse.           *)
Readable(p) == file[p] \notin {None, Torn}

KeysInit ==
  /\ keys = NoKeys /\ path = "" /\ used = {}
  /\ file = [p \in Paths |-> None]
  /\ caller = [a \in Admins |-> "idle"]
  /\ copied = [a \in Admins |-> {}] /\ data = [a \in Admins |-> None]
  /\ over = [a \in Admins |-> FALSE] /\ alone = [a \in Admins |-> FALSE]
  /\ settled = FALSE /\ written = FALSE
  /\ since = [k \in Keys |-> {None}]
-----------------------------------------------------------------------------
(* A copied pointer is read without the lock, some time before the file is  *)
(* opened: it may give the key before and after a change meanwhile, and the *)
(* permissions, several words, also as a part of both.  A key that was not  *)
(* in the table has no pointer to copy.                                     *)
Reads(old, new) ==
  IF old = None \/ new = None THEN {new}
  ELSE {old, new} \cup {[new EXCEPT !.permissions = p] :
                          p \in SUBSET (old.permissions \cup new.permissions)}

SeenBy(a, k, new) ==
  IF keys[k] = None \/ new = None THEN copied[a]
  ELSE copied[a] \cup {[t EXCEPT ![k] = r] : t \in {u \in copied[a] : u[k] # None},
                                             r \in Reads(keys[k], new)}

(* The part of a call under the lock.  A key that is removed from the table *)
(* stays in the copies that have it.                                        *)
Change(a, k, new) ==
  /\ caller[a] = "idle"
  /\ keys' = [keys EXCEPT ![k] = new]
  /\ caller' = [caller EXCEPT ![a] = "changed"]
  /\ copied' = [b \in Admins |-> SeenBy(b, k, new)]
  /\ since' = [since EXCEPT ![k] = @ \cup Reads(keys[k], new)]
  /\ alone' = [b \in Admins |-> b = a /\ \A c \in Admins : caller[c] = "idle"]
  /\ settled' = FALSE
  /\ UNCHANGED <<path, file, data, over, written>>

Has(k) == keys[k] # None /\ UNCHANGED used

GenerateAPIKey(a, k) ==
  /\ k \notin used /\ used' = used \cup {k}
  /\ \E p \in PermissionSets, t \in Terms :
       Change(a, k, [permissions |-> IF p = {} THEN {"admin"} ELSE p, terms |-> t])
DeleteAPIKey(a, k)  == Has(k) /\ Change(a, k, None)
DisableAPIKey(a, k) == Has(k) /\ Change(a, k, [keys[k] EXCEPT !.permissions = {}])
EnableAPIKey(a, k)  == Has(k) /\ Change(a, k, [keys[k] EXCEPT !.permissions = {"admin"}])
UpdateKeyPermissions(a, k) ==
  Has(k) /\ \E p \in PermissionSets : Change(a, k, [keys[k] EXCEPT !.permissions = p])
UpdateKeyTerms(a, k) ==
  Has(k) /\ \E t \in Terms : Change(a, k, [keys[k] EXCEPT !.terms = t])
-----------------------------------------------------------------------------
(* SaveConfig, its three steps and their errors.                            *)

(* The table is copied, and the path chosen, under the lock.                *)
Copy(a) ==
  /\ caller[a] = "changed"
  /\ caller' = [caller EXCEPT ![a] = "copied"]
  /\ copied' = [copied EXCEPT ![a] = {keys}]
  /\ path' = IF path = "" THEN DefaultPath ELSE path
  /\ UNCHANGED <<keys, file, used, data, over, alone, settled, since, written>>

Return(a) ==
  /\ caller' = [caller EXCEPT ![a] = "idle"]
  /\ alone' = [alone EXCEPT ![a] = FALSE]

(* os.WriteFile opens the file, which empties it.  Mutation: the file is    *)
(* opened as it is, and what is longer than the new one stays.              *)
OpenKept(a) ==
  /\ caller[a] = "copied"
  /\ caller' = [caller EXCEPT ![a] = "opened"]
  /\ \E t \in copied[a] : data' = [data EXCEPT ![a] = t]
  /\ over' = [over EXCEPT ![a] = file[path] # None]
  /\ copied' = [copied EXCEPT ![a] = {}] /\ written' = TRUE
  /\ UNCHANGED <<keys, path, file, used, alone, settled, since>>
Open(a) ==
  /\ caller[a] = "copied"
  /\ caller' = [caller EXCEPT ![a] = "opened"]
  /\ \E t \in copied[a] : data' = [data EXCEPT ![a] = t]
  /\ file' = [file EXCEPT ![path] = Torn]
  /\ over' = [b \in Admins |-> FALSE]
  /\ copied' = [copied EXCEPT ![a] = {}] /\ written' = TRUE
  /\ UNCHANGED <<keys, path, used, alone, settled, since>>

CannotOpen(a) ==
  /\ caller[a] = "copied" /\ Return(a)
  /\ copied' = [copied EXCEPT ![a] = {}]
  /\ UNCHANGED <<keys, path, file, used, data, over, settled, since, written>>

(* A write over that of another call leaves the end of the longer one.      *)
Write(a) ==
  /\ caller[a] = "opened" /\ Return(a)
  /\ \E left \in {data[a]} \cup {t \in {Torn} : over[a]} :
       file' = [file EXCEPT ![path] = left]
  /\ over' = [b \in Admins |-> b # a /\ caller[b] = "opened"]
  /\ data' = [data EXCEPT ![a] = None]
  /\ settled' = alone[a]
  /\ since' = IF alone[a] THEN [k \in Keys |-> {keys[k]}] ELSE since
  /\ UNCHANGED <<keys, path, used, copied, written>>

CannotWrite(a) ==
  /\ caller[a] = "opened" /\ Return(a)
  /\ data' = [data EXCEPT ![a] = None]
  /\ over' = [over EXCEPT ![a] = FALSE]
  /\ UNCHANGED <<keys, path, file, used, copied, settled, since, written>>
-----------------------------------------------------------------------------
(* The process dies and starts again.  LoadConfig remembers the path, and   *)
(* InitAPIKeys does not: its saves go to the default path, whatever file it *)
(* read.  Both leave the table empty on an error.                           *)
Start(p, loaded) ==
  /\ keys' = IF Readable(p) THEN file[p] ELSE NoKeys
  /\ path' = IF loaded /\ Readable(p) THEN p ELSE ""
  /\ settled' = (loaded /\ Readable(p)) /\ written' = settled'
  /\ since' = [k \in Keys |-> {keys'[k]}]
  /\ caller' = [a \in Admins |-> "idle"]
  /\ copied' = [a \in Admins |-> {}] /\ data' = [a \in Admins |-> None]
  /\ over' = [a \in Admins |-> FALSE] /\ alone' = [a \in Admins |-> FALSE]
  /\ UNCHANGED <<file, used>>

LoadConfig(p)  == Start(p, TRUE)
InitAPIKeys(p) == Start(p, FALSE)

Call(a, k) ==
  \/ GenerateAPIKey(a, k) \/ DeleteAPIKey(a, k)
  \/ DisableAPIKey(a, k) \/ EnableAPIKey(a, k)
  \/ UpdateKeyPermissions(a, k) \/ UpdateKeyTerms(a, k)

KeysNext ==
  \/ \E a \in Admins : \/ \E k \in Keys : Call(a, k)
                       \/ Copy(a) \/ Open(a) \/ CannotOpen(a) \/ Write(a) \/ CannotWrite(a)
  \/ \E p \in Paths : LoadConfig(p) \/ InitAPIKeys(p)

KeysSpec == KeysInit /\ [][KeysNext]_keyFile
-----------------------------------------------------------------------------
KeysTypeOK ==
  /\ keys \in Table /\ path \in Paths \cup {""} /\ used \subseteq Keys
  /\ file \in [Paths -> Table \cup {None, Torn}]
  /\ caller \in [Admins -> {"idle", "changed", "copied", "opened"}]
  /\ copied \in [Admins -> SUBSET Table] /\ data \in [Admins -> Table \cup {None}]
  /\ over \in [Admins -> BOOLEAN] /\ alone \in [Admins -> BOOLEAN] /\ settled \in BOOLEAN
  /\ since \in [Keys -> SUBSET (APIKey \cup {None})] /\ written \in BOOLEAN

(* The file that the manager saves to follows its table.  A call that no    *)
(* other overlaps leaves the table itself in it, whatever failed, was torn  *)
(* or was written in the wrong order before.  Calls that overlap may lose   *)
(* each other's changes or leave a file that cannot be parsed, but they     *)
(* never fall back behind such a call: what the file gives for a key is     *)
(* something the key has been since, so that one deleted or disabled before *)
(* is not good again.  The file is the one that LoadConfig read; after      *)
(* InitAPIKeys it is config/apikeys.json, once a save has opened it, and    *)
(* the file that InitAPIKeys was given stays as it was (apikey.go:84).      *)
FileFollows ==
  /\ settled => Readable(path) /\ file[path] = keys
  /\ written /\ Readable(path) => \A k \in Keys : file[path][k] \in since[k]
=============================================================================
