------------------------------ MODULE ServerTable ------------------------------
(***************************************************************************)
(* The server table of pkg/whois/servers.go: which server answers for a top *)
(* level domain, what the rounds of checks in the background know of each,  *)
(* and the file the table is saved to.  Answer times are left out.          *)
(***************************************************************************)
EXTENDS Naturals, FiniteSets

CONSTANTS
  Tlds, WhoisServers, IanaServer,
  DefaultServers,  \* the built-in table
  MaxFailures,
  NoServer,
  NoFile, TornFile  \* there is no file, or one that cannot be parsed

ASSUME ServerTableAssumption ==
  /\ NoServer \notin WhoisServers /\ IanaServer \in WhoisServers
  /\ DefaultServers \in [Tlds -> WhoisServers \cup {NoServer}]
  /\ MaxFailures \in Nat \ {0} /\ NoFile # TornFile

VARIABLES
  servers,        \* the table
  defaultServer,
  serverHealth,   \* FailureCount and IsHealthy of each server, once it has any
  check,          \* the check each domain has in this round, of the server it had
  serverFile,     \* what the file holds
  saving,         \* what is being written to it
  failing         \* history: the failed checks of each server since it answered

table == <<servers, defaultServer, serverHealth, check, serverFile, saving, failing>>
-----------------------------------------------------------------------------
ServerMap == [Tlds -> WhoisServers \cup {NoServer}]
Health    == [known : BOOLEAN, failures : 0 .. MaxFailures, healthy : BOOLEAN]
Check     == [step : {"none", "dialled", "found"}, server : WhoisServers \cup {NoServer}]
NoCheck   == [step |-> "none", server |-> NoServer]

(* UpdateServers adds and replaces, and never removes.                      *)
Merged(old, new) == [t \in Tlds |-> IF new[t] # NoServer THEN new[t] ELSE old[t]]

(* loadDefaultServers, on the empty table.                                  *)
BuiltInServers == Merged([t \in Tlds |-> NoServer], DefaultServers)

(* GetServerManager, and its start with an empty configPath.                *)
ServerTableInit ==
  /\ servers = BuiltInServers /\ defaultServer = IanaServer
  /\ serverHealth = [s \in WhoisServers |-> [known |-> FALSE, failures |-> 0, healthy |-> FALSE]]
  /\ check = [t \in Tlds |-> NoCheck]
  /\ serverFile = NoFile /\ saving = NoFile
  /\ failing = [s \in WhoisServers |-> 0]

(* getHealthyServer and GetWhoisServer.                                     *)
HasHealthy(t) == servers[t] # NoServer /\ serverHealth[servers[t]].healthy
Selected(t)   == IF HasHealthy(t) THEN servers[t] ELSE defaultServer
-----------------------------------------------------------------------------
(* startHealthCheck: at each tick every entry of the table is checked, and  *)
(* so a server twice that serves two domains.  The next round waits.        *)
StartRound ==
  /\ \A t \in Tlds : check[t] = NoCheck
  /\ check' = [t \in Tlds |-> IF servers[t] = NoServer THEN NoCheck
                              ELSE [step |-> "dialled", server |-> servers[t]]]
  /\ UNCHANGED <<servers, defaultServer, serverHealth, serverFile, saving, failing>>

(* getOrCreateServerHealth: a new record says that the server is healthy.   *)
FindHealth(t) ==
  LET s == check[t].server IN
  /\ check[t].step = "dialled"
  /\ check' = [check EXCEPT ![t].step = "found"]
  /\ serverHealth' = [serverHealth EXCEPT ![s] =
       IF @.known THEN @ ELSE [known |-> TRUE, failures |-> 0, healthy |-> TRUE]]
  /\ UNCHANGED <<servers, defaultServer, serverFile, saving, failing>>

(* The end of checkServerHealth.  Mutation: an answer leaves FailureCount.  *)
Counted(failures) == IF failures < MaxFailures THEN failures + 1 ELSE failures
AnsweredKept(t) ==
  LET s == check[t].server IN
  /\ check[t].step = "found"
  /\ check' = [check EXCEPT ![t] = NoCheck]
  /\ serverHealth' = [serverHealth EXCEPT ![s].healthy = TRUE]
  /\ failing' = [failing EXCEPT ![s] = 0]
  /\ UNCHANGED <<servers, defaultServer, serverFile, saving>>
Answered(t) ==
  LET s == check[t].server IN
  /\ check[t].step = "found"
  /\ check' = [check EXCEPT ![t] = NoCheck]
  /\ serverHealth' = [serverHealth EXCEPT ![s].failures = 0, ![s].healthy = TRUE]
  /\ failing' = [failing EXCEPT ![s] = 0]
  /\ UNCHANGED <<servers, defaultServer, serverFile, saving>>

Unanswered(t) ==
  LET s == check[t].server
      f == Counted(serverHealth[s].failures) IN
  /\ check[t].step = "found"
  /\ check' = [check EXCEPT ![t] = NoCheck]
  /\ serverHealth' = [serverHealth EXCEPT ![s].failures = f, ![s].healthy = f < MaxFailures]
  /\ failing' = [failing EXCEPT ![s] = Counted(@)]
  /\ UNCHANGED <<servers, defaultServer, serverFile, saving>>
-----------------------------------------------------------------------------
UpdateServer(t) ==
  /\ \E s \in WhoisServers : servers' = [servers EXCEPT ![t] = s]
  /\ UNCHANGED <<defaultServer, serverHealth, check, serverFile, saving, failing>>

(* RefreshServerList asks for a new server of each entry, and no entry goes *)
(* away meanwhile; what cannot be discovered stays as it is.                *)
Discover(t) == servers[t] # NoServer /\ UpdateServer(t)

SetDefaultServer ==
  /\ defaultServer' \in WhoisServers
  /\ UNCHANGED <<servers, serverHealth, check, serverFile, saving, failing>>

(* InitWhoisServerManager with a path, and LoadFromFile.  A missing file is *)
(* an error: the wrapped one is not recognised, and no file is made.        *)
Parses == serverFile \notin {NoFile, TornFile}
LoadFromFile ==
  /\ Parses
  /\ servers' = Merged(servers, serverFile)
  /\ UNCHANGED <<defaultServer, serverHealth, check, serverFile, saving, failing>>

(* SaveToFile reads the table under the lock and writes it without; saving  *)
(* bounds it to one save at a time.  The file is emptied, then written.     *)
ReadTable ==
  /\ saving = NoFile /\ saving' = servers
  /\ UNCHANGED <<servers, defaultServer, serverHealth, check, serverFile, failing>>
WriteTable ==
  /\ saving # NoFile /\ saving' = NoFile
  /\ serverFile' \in {saving, serverFile, TornFile}   \* or either step fails
  /\ UNCHANGED <<servers, defaultServer, serverHealth, check, failing>>

(* The process starts again with the file.                                  *)
Restart ==
  /\ servers' = IF Parses THEN Merged(BuiltInServers, serverFile) ELSE BuiltInServers
  /\ defaultServer' = IanaServer
  /\ serverHealth' = [s \in WhoisServers |-> [known |-> FALSE, failures |-> 0, healthy |-> FALSE]]
  /\ check' = [t \in Tlds |-> NoCheck]
  /\ saving' = NoFile
  /\ failing' = [s \in WhoisServers |-> 0]
  /\ serverFile' \in {serverFile} \cup {f \in {TornFile} : saving # NoFile}

ServerTableNext ==
  \/ StartRound \/ SetDefaultServer \/ LoadFromFile \/ ReadTable \/ WriteTable \/ Restart
  \/ \E t \in Tlds : FindHealth(t) \/ Answered(t) \/ Unanswered(t) \/ UpdateServer(t) \/ Discover(t)

ServerTableSpec == ServerTableInit /\ [][ServerTableNext]_table
-----------------------------------------------------------------------------
ServerTableTypeOK ==
  /\ servers \in ServerMap /\ defaultServer \in WhoisServers
  /\ serverHealth \in [WhoisServers -> Health] /\ check \in [Tlds -> Check]
  /\ serverFile \in ServerMap \cup {NoFile, TornFile} /\ saving \in ServerMap \cup {NoFile}
  /\ failing \in [WhoisServers -> 0 .. MaxFailures]

(* Once a check has found a server, its domains are sent to it until its    *)
(* last MaxFailures checks have failed in a row, of whichever domains and   *)
(* however they overlapped with updates of the table, and to the default    *)
(* from then on: a single answer brings them back.  It says nothing of a    *)
(* server that no round has reached: the code takes one without a record    *)
(* for an unhealthy one (servers.go:118-121) and sends even example.com to  *)
(* the default server, where servers.md:28 has it answered by its own.      *)
CheckedServed ==
  \A t \in Tlds : servers[t] # NoServer =>
    (serverHealth[servers[t]].known =>
       Selected(t) = IF failing[servers[t]] < MaxFailures THEN servers[t] ELSE defaultServer)
=============================================================================
