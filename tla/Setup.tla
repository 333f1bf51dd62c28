--------------------------------- MODULE Setup ---------------------------------
(***************************************************************************)
(* How a configuration sets the global providers: the checks of             *)
(* ValidateWhoisLibraryConfig, the order of ApplyWhoisLibraryConfig, and    *)
(* the Init...FromConfig function of each provider.  A storage is told by   *)
(* its age only: a provider works on the one set now, or on a former one.   *)
(* The section of the BGP relations depends on no other and is left out.    *)
(***************************************************************************)
EXTENDS Naturals, Sequences

CONSTANT SectionTypes  \* the types the sections of a configuration may name

ASSUME SetupAssumption == {"off", "local"} \subseteq SectionTypes

VARIABLES
  providers,  \* the global providers
  applying    \* the configuration that is being applied, the sections of it
              \* that are left, whether there was a storage, whether one failed

setup == <<providers, applying>>
-----------------------------------------------------------------------------
Sections == <<"storage", "history", "alerts", "watches", "reverse">>
LibraryConfig == [{Sections[i] : i \in 1 .. 5} -> SectionTypes]

(* A provider is nil, or has the storage (the reverse index: the history)   *)
(* that is set now or was set before; a history may hold a nil storage.     *)
Providers ==
  [storage : {"nil", "now"}, history : {"nil", "nil storage", "now", "former"},
   alerts : {"nil", "now", "former"}, watches : {"nil", "now", "former"},
   reverse : {"nil", "now", "former"}]

AllOff   == [s \in {Sections[i] : i \in 1 .. 5} |-> "off"]
NoConfig == [cfg |-> AllOff, left |-> <<>>, stored |-> FALSE, failed |-> FALSE]

SetupInit ==
  /\ providers = [storage |-> "nil", history |-> "nil", alerts |-> "nil",
                  watches |-> "nil", reverse |-> "nil"]
  /\ applying = NoConfig
-----------------------------------------------------------------------------
Aged(handle) == IF handle = "now" THEN "former" ELSE handle

(* SetStorageProvider: who holds the former storage keeps it.               *)
WithStorage(p, s) ==
  [p EXCEPT !.storage = s, !.history = Aged(@), !.alerts = Aged(@), !.watches = Aged(@)]

(* SetHistoryProvider: so does the reverse index with the former history.   *)
WithHistory(p, h) == [p EXCEPT !.history = h, !.reverse = Aged(@)]

(* InitHistoryFromConfig: without a storage it makes one, sets it, and      *)
(* gives its own history the nil it found: the new one is of an inner scope. *)
HistorySet(p) ==
  IF p.storage = "now" THEN WithHistory(p, "now")
  ELSE WithHistory(WithStorage(p, "now"), "nil storage")

(* InitAlertStorageFromConfig and InitMonitorStateFromConfig.               *)
StateSet(p, section) ==
  [(IF p.storage = "now" THEN p ELSE WithStorage(p, "now")) EXCEPT ![section] = "now"]

(* The Init...FromConfig function of an enabled section.                    *)
Initialised(p, section) ==
  CASE section = "storage" -> WithStorage(p, "now")
    [] section = "history" -> HistorySet(p)
    [] section = "reverse" -> [p EXCEPT !.reverse = "now"]
    [] OTHER               -> StateSet(p, section)

(* Types that are known: those the validation passes, and fewer that the    *)
(* Init functions accept.                                                   *)
Validated(section) ==
  IF section \in {"history", "reverse"} THEN {"off", "local", "custom"} ELSE {"off", "local", "redis"}
Accepted(section) == IF section = "storage" THEN {"local", "redis"} ELSE {"local"}

(* An Init function fails, and leaves all as it was, on a type it does not  *)
(* accept; the index without a history; where it makes a storage, which may *)
(* fail.                                                                    *)
CanSet(p, section, type) ==
  type \in Accepted(section) /\ (section = "reverse" => p.history # "nil")
MayFail(p, section, type) ==
  \/ ~CanSet(p, section, type)
  \/ section = "storage" \/ (section # "reverse" /\ p.storage = "nil")

(* ApplyWhoisLibraryConfig: the validation, then the sections in order.     *)
(* Mutation: the history before the storage.                                *)
InOrderHistoryFirst == <<"history", "storage", "alerts", "watches", "reverse">>
InOrder == Sections

ApplyWhoisLibraryConfig(cfg) ==
  /\ applying.left = <<>>
  /\ \A i \in 1 .. 5 : cfg[Sections[i]] \in Validated(Sections[i])
  /\ applying' = [cfg |-> cfg, left |-> InOrder,
                  stored |-> providers.storage # "nil", failed |-> FALSE]
  /\ UNCHANGED providers

(* A section that is off is not looked at; the error of another is logged.  *)
SectionApplied ==
  /\ applying.left # <<>>
  /\ LET s == Head(applying.left)  type == applying.cfg[s] IN
     \/ /\ type # "off" => CanSet(providers, s, type)
        /\ providers' = IF type = "off" THEN providers ELSE Initialised(providers, s)
        /\ applying' = [applying EXCEPT !.left = Tail(@)]
     \/ /\ type # "off" /\ MayFail(providers, s, type)
        /\ applying' = [applying EXCEPT !.left = Tail(@), !.failed = TRUE]
        /\ UNCHANGED providers

(* An Init function called with a disabled section sets its provider to     *)
(* nil; no configuration that is applied does.                              *)
Disable(section) ==
  /\ applying.left = <<>>
  /\ providers' = CASE section = "storage" -> WithStorage(providers, "nil")
                    [] section = "history" -> WithHistory(providers, "nil")
                    [] OTHER               -> [providers EXCEPT ![section] = "nil"]
  /\ applying' = NoConfig

SetupNext ==
  \/ \E cfg \in LibraryConfig : ApplyWhoisLibraryConfig(cfg)
  \/ SectionApplied
  \/ \E i \in 1 .. 5 : Disable(Sections[i])

SetupSpec == SetupInit /\ [][SetupNext]_setup
-----------------------------------------------------------------------------
SetupTypeOK ==
  /\ providers \in Providers
  /\ applying.cfg \in LibraryConfig /\ applying.left \in Seq({Sections[i] : i \in 1 .. 5})
  /\ applying.stored \in BOOLEAN /\ applying.failed \in BOOLEAN

(* However the process was set up before: once a configuration has been     *)
(* applied without a warning, what it enables works on the storage, and the *)
(* index on the history, that are set now.  One section may not: a history  *)
(* enabled while there was no storage, and none in the configuration.       *)
SetupWired ==
  applying.left = <<>> /\ ~applying.failed =>
    /\ \A s \in {"storage", "alerts", "watches", "reverse"} :
         applying.cfg[s] # "off" => providers[s] = "now"
    /\ applying.cfg.history # "off" =>
         \/ providers.history = "now"
         \/ ~applying.stored /\ applying.cfg.storage = "off"
=============================================================================
