--------------------------- MODULE ProxyRegistry ---------------------------
(***************************************************************************)
(* Which proxy servers the program has: StartProxyServer (pkg/core/        *)
(* proxy.go) and everything that calls it (the loop of main, the daemon's  *)
(* merge command and the API), the proxy_configs table, the maps of        *)
(* GlobalVarStore, the shared slice sysConfig.Proxies, the export to the   *)
(* configuration file, and the deletion of a configuration.                *)
(*                                                                         *)
(* Every caller runs in a goroutine of its own. A step is a statement sent *)
(* to the database, a method of GlobalVarStore (each takes its mutex) or   *)
(* an access to sysConfig.Proxies, which no lock protects.                 *)
(***************************************************************************)
EXTENDS Naturals, Sequences

CONSTANTS
  Calls,           \* calls of StartProxyServer by any caller; a call that inserts
                   \* a row gives its name to the row's NanoID, which is unique
  OldIds,          \* ids of rows left by earlier runs
  Listens,         \* listen addresses
  Targets,         \* target URLs
  InvalidTargets,  \* those url.Parse rejects or that have no scheme
  Taken,           \* addresses another application listens on
  InitialProxies,  \* sysConfig.Proxies when main starts
  MaxExports,      \* bound on the exports
  MaxDbErrors,     \* bound on the statements that fail
  None

\* What is fingerprinted: the JSON of an entry. It includes the fields Active
\* and Error, which the merge command sets after it has started the entry.
Marks == {"plain", "active", "error"}
Entries == [listen : Listens, target : Targets, mark : Marks]
Plain(e) == [e EXCEPT !.mark = "plain"]

Ids == Calls \cup OldIds

ASSUME ProxyRegistryAssumption ==
  /\ Calls \cap OldIds = {}
  /\ InvalidTargets \subseteq Targets /\ Taken \subseteq Listens
  /\ InitialProxies \in Seq(Entries)
  /\ MaxExports \in Nat /\ MaxDbErrors \in Nat
  /\ None \notin Ids \cup Entries

VARIABLES
  configRow,          \* proxy_configs: the entry of an id, or None
  config_ids,         \* the four fields of GlobalVarStore
  id_to_config,
  id_to_proxyserver,  \* the call that made the http.Server, or None
  sysProxies,         \* sysConfig.Proxies
  call,               \* the calls: who calls, where it is, its locals, its result
  server,             \* the goroutine of lines 339-346 of each call
  booted,             \* entries main has begun to start
  export,             \* ExportCurrentProxiesToConfig: where it is, its locals
  exports,            \* exports so far
  file,               \* the proxies of the configuration file, once exported
  deleting,           \* the id handleDeleteConfig has found inactive, or None
  deleted,            \* history: ids whose row was deleted
  stopped,            \* history: the last id handleProxyServerStop answered 200 for
  dbErrors            \* statements that failed so far

store == <<config_ids, id_to_config, id_to_proxyserver>>
exporting == <<export, exports, file>>
deletion == <<deleting, deleted>>
registryVars == <<configRow, store, sysProxies, call, server, booted, exporting, deletion,
                 stopped, dbErrors>>

HasProxyServer(i) == id_to_proxyserver[i] # None

\* onStatus and the API report a proxy as active when it is in the map.
Active(i) == id_to_config[i] # None /\ HasProxyServer(i)

Idle == [kind |-> "none", at |-> "idle", entry |-> None, id |-> None,
         snapshot |-> <<>>, result |-> "none"]

NoExport == [at |-> "idle", todo |-> <<>>, list |-> <<>>, live |-> {}]

RegistryInit ==
  /\ configRow \in [Ids -> Entries \cup {None}]
  /\ \A i \in Ids : configRow[i] = None <=> i \in Calls
  /\ \A i, j \in OldIds : configRow[i].mark = "plain" /\ (configRow[i] = configRow[j] => i = j)
  /\ config_ids = <<>>
  /\ id_to_config = [i \in Ids |-> None]
  /\ id_to_proxyserver = [i \in Ids |-> None]
  /\ sysProxies = InitialProxies
  /\ call = [k \in Calls |-> Idle]
  /\ server = [k \in Calls |-> "none"]
  /\ booted = 0
  /\ export = NoExport /\ exports = 0 /\ file = <<>>
  /\ deleting = None /\ deleted = {}
  /\ stopped = None
  /\ dbErrors = 0

-----------------------------------------------------------------------------
(* The callers of StartProxyServer.                                        *)

\* The loop of main has returned from its last entry.
BootDone == /\ booted = Len(InitialProxies)
            /\ \A k \in Calls : call[k].kind = "boot" => call[k].at = "done"

\* One iteration of the loop of main; the UI server runs already.
Boot(k) ==
  /\ call[k].at = "idle"
  /\ booted < Len(InitialProxies)
  /\ \A j \in Calls : call[j].kind = "boot" => call[j].at = "done"
  /\ booted' = booted + 1
  /\ call' = [call EXCEPT ![k] = [Idle EXCEPT !.kind = "boot", !.at = "lookup",
                                              !.entry = InitialProxies[booted + 1]]]
  /\ UNCHANGED <<configRow, store, sysProxies, server, exporting, deletion, stopped, dbErrors>>

\* handleProxyServerCreate: whatever listen address and target it is given.
HandleCreate(k, l, t) ==
  /\ call[k].at = "idle"
  /\ call' = [call EXCEPT ![k] = [Idle EXCEPT !.kind = "create", !.at = "lookup",
                !.entry = [listen |-> l, target |-> t, mark |-> "plain"]]]
  /\ UNCHANGED <<configRow, store, sysProxies, server, booted, exporting, deletion,
                 stopped, dbErrors>>

\* handleProxyServerStart for id i, past its 409 and 404 answers.
HandleStart(k, i) ==
  /\ call[k].at = "idle"
  /\ ~HasProxyServer(i) /\ id_to_config[i] # None
  /\ call' = [call EXCEPT ![k] = [Idle EXCEPT !.kind = "start", !.at = "match",
                                              !.entry = id_to_config[i]]]
  /\ UNCHANGED <<configRow, store, sysProxies, server, booted, exporting, deletion,
                 stopped, dbErrors>>

\* It looks for the first entry with the same target, whatever its address.
FirstOf(n, S) == n \in S /\ \A m \in S : n <= m

StartMatch(k) ==
  /\ call[k].at = "match"
  /\ LET matches == {n \in DOMAIN sysProxies : sysProxies[n].target = call[k].entry.target}
     IN  \/ /\ matches = {}
            /\ call' = [call EXCEPT ![k].at = "done", ![k].result = "not found"]
         \/ \E n \in DOMAIN sysProxies :
              /\ FirstOf(n, matches)
              /\ call' = [call EXCEPT ![k].at = "lookup", ![k].entry = sysProxies[n]]
  /\ UNCHANGED <<configRow, store, sysProxies, server, booted, exporting, deletion,
                 stopped, dbErrors>>

\* One proxy of a merge command, each connection in a goroutine of its own. The
\* daemon listens once main has started its proxies.
HandleMerge(k, l, t) ==
  /\ BootDone
  /\ call[k].at = "idle"
  /\ call' = [call EXCEPT ![k] = [Idle EXCEPT !.kind = "merge", !.at = "merging",
                !.entry = [listen |-> l, target |-> t, mark |-> "plain"]]]
  /\ UNCHANGED <<configRow, store, sysProxies, server, booted, exporting, deletion,
                 stopped, dbErrors>>

\* The first entry with the same address decides: identical or conflict.
MergeCheck(k) ==
  /\ call[k].at = "merging"
  /\ LET same == {n \in DOMAIN sysProxies : sysProxies[n].listen = call[k].entry.listen}
     IN  \/ /\ same = {}
            /\ call' = [call EXCEPT ![k].at = "lookup"]
         \/ \E n \in DOMAIN sysProxies :
              /\ FirstOf(n, same)
              /\ call' = [call EXCEPT ![k].at = "done", ![k].result =
                   IF sysProxies[n].target = call[k].entry.target
                     THEN "ignored" ELSE "conflict"]
  /\ UNCHANGED <<configRow, store, sysProxies, server, booted, exporting, deletion,
                 stopped, dbErrors>>

\* append(sysConfig.Proxies, newProxy) reads the slice and stores the result
\* with nothing to keep another append or an export from running in between.
AppendRead(k) ==
  /\ call[k].at = "append"
  /\ call' = [call EXCEPT ![k].at = "store", ![k].snapshot = sysProxies]
  /\ UNCHANGED <<configRow, store, sysProxies, server, booted, exporting, deletion,
                 stopped, dbErrors>>

AppendStore(k) ==
  /\ call[k].at = "store"
  /\ sysProxies' = Append(call[k].snapshot, [call[k].entry EXCEPT !.mark =
                     IF call[k].result = "success" THEN "active" ELSE "error"])
  /\ call' = [call EXCEPT ![k].at = "done", ![k].snapshot = <<>>]
  /\ UNCHANGED <<configRow, store, server, booted, exporting, deletion, stopped, dbErrors>>

-----------------------------------------------------------------------------
(* StartProxyServer.                                                       *)

\* It returns: a merge goes on to append the entry, the others have answered.
Return(k, result) ==
  call' = [call EXCEPT ![k].at = IF call[k].kind = "merge" THEN "append" ELSE "done",
                       ![k].result = result]

\* The target is not a URL with a scheme.
RejectEntry(k) ==
  /\ call[k].at = "lookup"
  /\ call[k].entry.target \in InvalidTargets
  /\ Return(k, "error")
  /\ UNCHANGED <<configRow, store, sysProxies, server, booted, exporting, deletion,
                 stopped, dbErrors>>

\* GetOrCreateConfigRow, the First(): the row of that fingerprint, if any.
FindRow(k) ==
  /\ call[k].at = "lookup"
  /\ call[k].entry.target \notin InvalidTargets
  /\ \/ \E i \in Ids : /\ configRow[i] = call[k].entry
                       /\ call' = [call EXCEPT ![k].at = "configAdd", ![k].id = i]
     \/ /\ \A i \in Ids : configRow[i] # call[k].entry
        /\ call' = [call EXCEPT ![k].at = "insert"]
  /\ UNCHANGED <<configRow, store, sysProxies, server, booted, exporting, deletion,
                 stopped, dbErrors>>

\* A statement fails for a reason of its own (busy, disk).
RegisterFails(k) ==
  /\ call[k].at \in {"lookup", "insert"}
  /\ call[k].entry.target \notin InvalidTargets
  /\ dbErrors < MaxDbErrors
  /\ dbErrors' = dbErrors + 1
  /\ Return(k, "error")
  /\ UNCHANGED <<configRow, store, sysProxies, server, booted, exporting, deletion, stopped>>

\* A mutant of CreateRow: the fingerprint is not UNIQUE.
CreateRowTwice(k) ==
  /\ call[k].at = "insert"
  /\ configRow' = [configRow EXCEPT ![k] = call[k].entry]
  /\ call' = [call EXCEPT ![k].at = "configAdd", ![k].id = k]
  /\ UNCHANGED <<store, sysProxies, server, booted, exporting, deletion, stopped,
                 dbErrors>>

\* The Create(). The fingerprint is UNIQUE: when another call has inserted it
\* meanwhile, the insert fails, and the second First() looks for that
\* fingerprint with the id this call has just generated, which no row has.
CreateRow(k) ==
  /\ call[k].at = "insert"
  /\ IF \E i \in Ids : configRow[i] = call[k].entry
       THEN Return(k, "lost race") /\ UNCHANGED configRow
       ELSE /\ configRow' = [configRow EXCEPT ![k] = call[k].entry]
            /\ call' = [call EXCEPT ![k].at = "configAdd", ![k].id = k]
  /\ UNCHANGED <<store, sysProxies, server, booted, exporting, deletion, stopped,
                 dbErrors>>

\* Mutant of ConfigAdd: the list is replaced, as ConfigSet does.
ConfigSet(k) ==
  /\ call[k].at = "configAdd"
  /\ config_ids' = <<call[k].id>>
  /\ call' = [call EXCEPT ![k].at = "addConfig"]
  /\ UNCHANGED <<configRow, id_to_config, id_to_proxyserver, sysProxies, server, booted,
                 exporting, deletion, stopped, dbErrors>>

ConfigAdd(k) ==
  /\ call[k].at = "configAdd"
  /\ config_ids' = IF \E n \in DOMAIN config_ids : config_ids[n] = call[k].id
                     THEN config_ids ELSE Append(config_ids, call[k].id)
  /\ call' = [call EXCEPT ![k].at = "addConfig"]
  /\ UNCHANGED <<configRow, id_to_config, id_to_proxyserver, sysProxies, server, booted,
                 exporting, deletion, stopped, dbErrors>>

AddProxyConfig(k) ==
  /\ call[k].at = "addConfig"
  /\ id_to_config' = [id_to_config EXCEPT ![call[k].id] = call[k].entry]
  /\ call' = [call EXCEPT ![k].at = "addServer"]
  /\ UNCHANGED <<configRow, config_ids, id_to_proxyserver, sysProxies, server, booted,
                 exporting, deletion, stopped, dbErrors>>

\* A server that was there is replaced, not closed. The goroutine that listens
\* is started and nil is returned whatever becomes of it.
AddProxyServer(k) ==
  /\ call[k].at = "addServer"
  /\ id_to_proxyserver' = [id_to_proxyserver EXCEPT ![call[k].id] = k]
  /\ server' = [server EXCEPT ![k] = "starting"]
  /\ Return(k, "success")
  /\ UNCHANGED <<configRow, config_ids, id_to_config, sysProxies, booted, exporting,
                 deletion, stopped, dbErrors>>

\* ListenAndServe binds the address, or fails and the failure is logged.
Free(l) == l \notin Taken /\ \A k \in Calls :
             server[k] = "listening" => call[k].entry.listen # l

ListenAndServe(k) ==
  /\ server[k] = "starting"
  /\ server' = [server EXCEPT ![k] = IF Free(call[k].entry.listen)
                                       THEN "listening" ELSE "failed"]
  /\ UNCHANGED <<configRow, store, sysProxies, call, booted, exporting, deletion, stopped,
                 dbErrors>>

-----------------------------------------------------------------------------
(* The other operations of the API.                                        *)

\* Mutants of HandleStop: the map forgets a server that goes on listening; the
\* server is closed and the map keeps it.
StopOnlyForgets(i) ==
  /\ HasProxyServer(i)
  /\ id_to_proxyserver' = [id_to_proxyserver EXCEPT ![i] = None]
  /\ stopped' = i
  /\ UNCHANGED <<configRow, config_ids, id_to_config, sysProxies, call, server, booted,
                 exporting, deletion, dbErrors>>
StopOnlyCloses(i) ==
  /\ HasProxyServer(i)
  /\ server' = [server EXCEPT ![id_to_proxyserver[i]] = "failed"]
  /\ stopped' = i
  /\ UNCHANGED <<configRow, store, sysProxies, call, booted, exporting, deletion, dbErrors>>

\* handleProxyServerStop: 404, or 200 and nothing else.
HandleStop(i) ==
  /\ HasProxyServer(i)
  /\ stopped' = i
  /\ UNCHANGED <<configRow, store, sysProxies, call, server, booted, exporting, deletion,
                 dbErrors>>

\* ExportCurrentProxiesToConfig copies the ids, ...
ExportBegin ==
  /\ export.at = "idle" /\ exports < MaxExports
  /\ exports' = exports + 1
  /\ export' = [at |-> "collect", todo |-> config_ids, list |-> <<>>,
                live |-> {Plain(call[k].entry) :
                            k \in {j \in Calls : server[j] = "listening"}}]
  /\ UNCHANGED <<configRow, store, sysProxies, call, server, booted, file, deletion, stopped,
                 dbErrors>>

\* ... looks each of them up, ...
ExportCollect ==
  /\ export.at = "collect" /\ export.todo # <<>>
  /\ LET i == Head(export.todo)
     IN  export' = [export EXCEPT !.todo = Tail(@),
                      !.list = IF Active(i) THEN Append(@, Plain(id_to_config[i])) ELSE @]
  /\ UNCHANGED <<configRow, store, sysProxies, call, server, booted, exports, file, deletion,
                 stopped, dbErrors>>

\* ... replaces the shared slice, ...
ExportUpdate ==
  /\ export.at = "collect" /\ export.todo = <<>>
  /\ sysProxies' = export.list
  /\ export' = [export EXCEPT !.at = "write"]
  /\ UNCHANGED <<configRow, store, call, server, booted, exports, file, deletion, stopped,
                 dbErrors>>

\* ... and writes the file, or fails to.
ExportWrite ==
  /\ export.at = "write"
  /\ file' \in {file, export.list}
  /\ export' = NoExport
  /\ UNCHANGED <<configRow, store, sysProxies, call, server, booted, exports, deletion,
                 stopped, dbErrors>>

\* handleDeleteConfig answers 409 when the proxy is active ...
DeleteCheck(i) ==
  /\ deleting = None
  /\ configRow[i] # None /\ ~HasProxyServer(i)
  /\ deleting' = i
  /\ UNCHANGED <<configRow, store, sysProxies, call, server, booted, exporting, deleted,
                 stopped, dbErrors>>

\* ... and otherwise deletes in a transaction, without looking again.
DeleteConfig ==
  /\ deleting # None
  /\ configRow' = [configRow EXCEPT ![deleting] = None]
  /\ deleted' = deleted \cup {deleting}
  /\ deleting' = None
  /\ UNCHANGED <<store, sysProxies, call, server, booted, exporting, stopped, dbErrors>>

-----------------------------------------------------------------------------
CallStep(k) ==
  \/ StartMatch(k) \/ MergeCheck(k) \/ RejectEntry(k) \/ FindRow(k) \/ RegisterFails(k)
  \/ CreateRow(k) \/ ConfigAdd(k) \/ AddProxyConfig(k) \/ AddProxyServer(k)
  \/ AppendRead(k) \/ AppendStore(k)

ExportStep == ExportCollect \/ ExportUpdate \/ ExportWrite

RegistryNext ==
  \/ \E k \in Calls :
       \/ Boot(k) \/ CallStep(k) \/ ListenAndServe(k)
       \/ \E i \in Ids : HandleStart(k, i)
       \/ \E l \in Listens, t \in Targets : HandleCreate(k, l, t) \/ HandleMerge(k, l, t)
  \/ \E i \in Ids : HandleStop(i) \/ DeleteCheck(i)
  \/ ExportBegin \/ ExportStep \/ DeleteConfig

RegistrySpec == RegistryInit /\ [][RegistryNext]_registryVars

\* Goroutines that can run do run; nobody need call the API.
RegistryFairness ==
  \A k \in Calls : WF_registryVars(CallStep(k)) /\ WF_registryVars(ListenAndServe(k))

FairRegistrySpec == RegistrySpec /\ RegistryFairness

-----------------------------------------------------------------------------
(* Correctness.                                                            *)

CallStates == {"idle", "match", "merging", "lookup", "insert", "configAdd", "addConfig",
               "addServer", "append", "store", "done"}

\* Every variable has its type.
RegistryTypeOK ==
  /\ configRow \in [Ids -> Entries \cup {None}]
  /\ config_ids \in Seq(Ids)
  /\ id_to_config \in [Ids -> Entries \cup {None}]
  /\ id_to_proxyserver \in [Ids -> Calls \cup {None}]
  /\ sysProxies \in Seq(Entries)
  /\ call \in [Calls -> [kind : {"none", "boot", "create", "start", "merge"},
                         at : CallStates, entry : Entries \cup {None},
                         id : Ids \cup {None}, snapshot : Seq(Entries),
                         result : {"none", "not found", "ignored", "conflict", "error",
                                   "lost race", "success"}]]
  /\ server \in [Calls -> {"none", "starting", "listening", "failed"}]
  /\ booted \in 0..Len(InitialProxies)
  /\ export \in [at : {"idle", "collect", "write"}, todo : Seq(Ids),
                 list : Seq(Entries), live : SUBSET Entries]
  /\ exports \in 0..MaxExports
  /\ file \in Seq(Entries)
  /\ deleting \in Ids \cup {None} /\ deleted \subseteq Ids
  /\ stopped \in Ids \cup {None}
  /\ dbErrors \in 0..MaxDbErrors

\* However many callers register one entry at once, and although each looks the
\* row up and inserts it in two statements, they all get the same id, and the
\* maps hold for an id the entry its row was made for: a configuration has a
\* second id only if its first row was deleted.
OneIdPerEntry ==
  \A i, j \in Ids : id_to_config[i] # None /\ id_to_config[i] = id_to_config[j] /\ i # j
                      => i \in deleted \/ j \in deleted

\* Whatever listens is reported as active with its own address and target, even
\* when a later start of the same entry has replaced its http.Server in the map.
ListenersAreListed ==
  \A k \in Calls : server[k] = "listening" =>
    /\ Active(call[k].id)
    /\ id_to_config[call[k].id] = call[k].entry
    /\ \E n \in DOMAIN config_ids : config_ids[n] = call[k].id

\* An export that succeeds writes every proxy that was listening when it began,
\* although starts go on between the copy of the ids, the lookups and the write.
ExportKeepsListeners ==
  [][file' # file => \A e \in export.live : \E n \in DOMAIN file' : file'[n] = e]_registryVars

\* An address that is reported as active gets a listener, unless another
\* application has it: the failure of one start of an address means that
\* another start of that address succeeded.
ActiveGetsServed ==
  \A i \in Ids : \A l \in Listens \ Taken :
    Active(i) /\ id_to_config[i].listen = l
      ~> \E k \in Calls : server[k] = "listening" /\ call[k].entry.listen = l

\* "handleProxyServerStop stops a proxy server by config ID": an id that was
\* answered 200 is no longer active.
StopStops == stopped # None => ~Active(stopped)

\* If ListenAndServe fails, "Mark as inactive. Report failure to the client":
\* a proxy that is reported as active has a server that has not failed.
FailedIsInactive ==
  \A i \in Ids : Active(i) =>
    \E k \in Calls : call[k].id = i /\ server[k] \in {"starting", "listening"}

\* "if another process inserted it between our First() and Create(), just fetch
\* that one": a call that loses the race is not failed by it.
RaceIsNoError == \A k \in Calls : call[k].result # "lost race"

\* "If a proxy with the same listen port but DIFFERENT target exists, report a
\* conflict": a merge is not started on the address of an active proxy that
\* has another target.
MergeReportsConflict ==
  [][\A k \in Calls : call[k].at = "merging" /\ call'[k].at = "lookup" =>
       \A i \in Ids : Active(i) /\ id_to_config[i].listen = call[k].entry.listen
                        => id_to_config[i].target = call[k].entry.target]_registryVars
=============================================================================
