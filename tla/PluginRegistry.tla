--------------------------- MODULE PluginRegistry ---------------------------
(***************************************************************************)
(* The plugins of the organizations, the marketplace and the bucket with   *)
(* the WASM files.  An upload stores its file under a key made of the      *)
(* organization and the file's hash, so the same file uploaded twice is    *)
(* one object; an install copies the row of a marketplace entry, and with  *)
(* it the address that was published.  A GraphQL update may replace the    *)
(* address and move the plugin to another organization.                    *)
(***************************************************************************)
EXTENDS PlanLimits

CONSTANTS
    PluginId,         \* bound: the identifiers the inserts draw from
    EntryId,          \* bound: identifiers of marketplace entries
    Owner,            \* organizations
    PluginName,       \* a name and version
    Object,           \* the keys of the bucket
    Elsewhere,        \* the address of a file that is not in the bucket
    InitialPlugin,    \* the rows, entries and objects at the start
    InitialEntry,
    InitialBucket,
    PluginMix         \* the requests that are made

VARIABLES
    plugin,      \* plugin[i]: the row i
    entry,       \* entry[e]: the marketplace entry e
    bucket,      \* the objects there are
    preq,        \* preq[q]: request q
    ppeak        \* history: ppeak[o]: the most installs and creates in flight

pluginVars == <<plugin, entry, bucket, preq, ppeak>>

PluginOp == {"none", "upload", "create", "install", "publish", "patch",
             "verify", "update", "remove", "delete"}
PluginAt == {"start", "store", "check", "insert", "count", "change", "cut",
             "drop", "done"}

\* A row: its owner, name and file, whether it is enabled and verified, and, as
\* history, whether it has not come to its owner past the plan limit, as an
\* upload or a plugin that is moved does.
Plugin == [state : {"unborn", "live", "deleted"}, owner : Owner,
           name : PluginName, file : Object \cup {Elsewhere},
           enabled : BOOLEAN, verified : BOOLEAN, metered : BOOLEAN]
Entry == [state : {"unborn", "live"}, name : PluginName,
          file : Object \cup {Elsewhere}, downloads : Nat]
\* A request of organization owner.  name, file, to: what it gives the row, and
\* in a removal, file: the address it read.
PluginRequest ==
    [op : PluginOp, owner : Owner, to : Owner, id : PluginId, entry : EntryId,
     name : PluginName, file : Object \cup {Elsewhere}, at : PluginAt,
     reply : Nat]

\* A file that can be fetched at the start, as far as the bucket can tell.
Offered(file) == file \in InitialBucket \cup {Elsewhere}

ASSUME PluginAssumption ==
    /\ IsFiniteSet(PluginId)
    /\ Elsewhere \notin Object
    /\ InitialPlugin \in [PluginId -> Plugin]
    /\ InitialEntry \in [EntryId -> Entry]
    /\ InitialBucket \subseteq Object
    \* No file is missing at the start,
    /\ \A i \in PluginId : InitialPlugin[i].state = "live" => Offered(InitialPlugin[i].file)
    /\ \A e \in EntryId : InitialEntry[e].state = "live" => Offered(InitialEntry[e].file)
    /\ PluginMix \subseteq [Request -> PluginRequest]
    \* and an upload is stored under a key of the bucket.
    /\ \A mix \in PluginMix : \A q \in Request :
         /\ mix[q].at \in {"start", "done"}
         /\ mix[q].op = "upload" => mix[q].file \in Object

PluginTypeOK ==
    /\ plugin \in [PluginId -> Plugin]
    /\ entry \in [EntryId -> Entry]
    /\ bucket \subseteq Object
    /\ preq \in [Request -> PluginRequest]
    /\ ppeak \in [Owner -> Nat]

PluginStart ==
    /\ plugin = InitialPlugin
    /\ entry = InitialEntry
    /\ bucket = InitialBucket
    /\ ppeak = [o \in Owner |-> 0]

PluginInit == PluginStart /\ preq \in PluginMix

PluginsOf(o) == {i \in PluginId : plugin[i].state = "live" /\ plugin[i].owner = o}
Named(o, name) == {i \in PluginsOf(o) : plugin[i].name = name}

Metered(o) == {i \in PluginsOf(o) : plugin[i].metered}
Adding(o) == {q \in Request : /\ preq[q].at = "insert" /\ preq[q].owner = o
                              /\ preq[q].op # "upload"}

-----------------------------------------------------------------------------
Step(q, at) == preq' = [preq EXCEPT ![q].at = at]
Finish(q, status) == preq' = [preq EXCEPT ![q].at = "done", ![q].reply = status]
Begins(q, op) == preq[q].at = "start" /\ preq[q].op = op
Registered == UNCHANGED <<plugin, entry, bucket, ppeak>>

\* No credentials, the role or the plan's custom plugins are missing, no bucket
\* is configured, or the manifest is refused.
RefusePlugin(q) == preq[q].at = "start" /\ Finish(q, 403) /\ Registered

\* POST /plugins/upload stores the object first,
UploadPlugin(q) == Begins(q, "upload") /\ Step(q, "store") /\ Registered

\* Mutant: a failed PutObject goes unnoticed.
StoreUnchecked(q) ==
    /\ preq[q].at = "store"
    /\ \/ bucket' = bucket \cup {preq[q].file}
       \/ UNCHANGED bucket
    /\ Step(q, "insert")
    /\ UNCHANGED <<plugin, entry, ppeak>>

\* which may be stored though the answer says it failed.
StoreObject(q) ==
    /\ preq[q].at = "store"
    /\ \/ bucket' = bucket \cup {preq[q].file} /\ Step(q, "insert")
       \/ bucket' \in {bucket, bucket \cup {preq[q].file}} /\ Finish(q, 500)
    /\ UNCHANGED <<plugin, entry, ppeak>>

\* Mutant: a created plugin is stored like an uploaded one.
CreatePluginStores(q) == Begins(q, "create") /\ Step(q, "store") /\ Registered

\* The GraphQL mutation and the install of an entry count against the plan,
CreatePlugin(q) == Begins(q, "create") /\ Step(q, "check") /\ Registered

FindEntry(q) ==
    /\ Begins(q, "install")
    /\ LET e == entry[preq[q].entry]
       IN  \/ e.state = "unborn" /\ Finish(q, 404)
           \/ /\ e.state = "live"
              /\ preq' = [preq EXCEPT ![q].at = "check", ![q].name = e.name,
                                      ![q].file = e.file]
    /\ Registered

CheckPluginLimit(q) ==
    /\ preq[q].at = "check"
    /\ LET o == preq[q].owner
           n == Cardinality(Adding(o))
       IN  \E limit \in LimitRead :
             \/ /\ UnderLimit(limit, Cardinality(PluginsOf(o)))
                /\ Step(q, "insert")
                /\ ppeak' = [ppeak EXCEPT ![o] = IF n < @ THEN @ ELSE n + 1]
             \/ /\ ~UnderLimit(limit, Cardinality(PluginsOf(o)))
                /\ Finish(q, 403)
                /\ UNCHANGED ppeak
    /\ UNCHANGED <<plugin, entry, bucket>>

\* and all three insert, which the unique name and version may refuse.
InsertPlugin(q) ==
    /\ preq[q].at = "insert"
    /\ LET o == preq[q].owner
       IN  \/ /\ Named(o, preq[q].name) = {}
              /\ \E i \in PluginId :
                   /\ plugin[i].state = "unborn"
                   /\ plugin' = [plugin EXCEPT
                        ![i] = [state |-> "live", owner |-> o,
                                name |-> preq[q].name, file |-> preq[q].file,
                                enabled |-> TRUE, verified |-> FALSE,
                                metered |-> preq[q].op # "upload"]]
              /\ IF preq[q].op = "install" THEN Step(q, "count") ELSE Finish(q, 200)
           \/ /\ Named(o, preq[q].name) # {}
              /\ Finish(q, 500)
              /\ UNCHANGED plugin
    /\ UNCHANGED <<entry, bucket, ppeak>>

\* The install then counts the download; if that fails it answers 500, the
\* plugin installed all the same.
CountDownload(q) ==
    /\ preq[q].at = "count"
    /\ \/ /\ entry' = [entry EXCEPT ![preq[q].entry].downloads = @ + 1]
          /\ Finish(q, 200)
       \/ UNCHANGED entry /\ Finish(q, 500)
    /\ UNCHANGED <<plugin, bucket, ppeak>>

\* POST /marketplace/plugins: the publisher gives any address.
PublishPlugin(q) ==
    /\ Begins(q, "publish")
    /\ LET taken == \E e \in EntryId : /\ entry[e].state = "live"
                                      /\ entry[e].name = preq[q].name
       IN  \/ /\ ~taken
              /\ \E e \in EntryId :
                   /\ entry[e].state = "unborn"
                   /\ entry' = [entry EXCEPT ![e] = [state |-> "live",
                                                     name |-> preq[q].name,
                                                     file |-> preq[q].file,
                                                     downloads |-> 0]]
              /\ Finish(q, 200)
           \/ taken /\ Finish(q, 500) /\ UNCHANGED entry
    /\ UNCHANGED <<plugin, bucket, ppeak>>

\* PATCH, verify and DELETE ("remove") look for the organization's row, the
\* GraphQL mutations ("update", "delete") for any and ask Warden about the
\* organization it belongs to.
FindPlugin(q) ==
    /\ preq[q].at = "start"
    /\ preq[q].op \in {"patch", "verify", "update", "remove", "delete"}
    /\ LET row == plugin[preq[q].id]
           own == preq[q].id \in PluginsOf(preq[q].owner)
       IN  \/ own /\ preq[q].op \in {"patch", "verify"} /\ Step(q, "change")
           \/ /\ own /\ preq[q].op = "remove"
              /\ preq' = [preq EXCEPT ![q].at = "cut", ![q].file = row.file]
           \/ row.state = "live" /\ preq[q].op = "update" /\ Step(q, "change")
           \/ row.state = "live" /\ preq[q].op = "delete" /\ Step(q, "drop")
           \/ ~own /\ Finish(q, 404)
    /\ Registered

ChangePlugin(q) ==
    /\ preq[q].at = "change" /\ preq[q].op # "update"
    /\ LET i == preq[q].id
       IN  plugin' = IF plugin[i].state # "live" THEN plugin
                     ELSE IF preq[q].op = "verify"
                            THEN [plugin EXCEPT ![i].verified = TRUE]
                            ELSE [plugin EXCEPT ![i].enabled = ~@]
    /\ Finish(q, 200)
    /\ UNCHANGED <<entry, bucket, ppeak>>

\* A patch gives the row another name, address and organization, which has the
\* plugin then without a look at its plan;
UpdatedPlugin(q, i) ==
    [plugin[i] EXCEPT !.owner = preq[q].to, !.name = preq[q].name,
                      !.file = preq[q].file,
                      !.metered = @ /\ preq[q].to = plugin[i].owner]

\* the unique name and version may refuse it.
UpdatePlugin(q) ==
    /\ preq[q].at = "change" /\ preq[q].op = "update"
    /\ LET i == preq[q].id
           others == Named(preq[q].to, preq[q].name) \ {i}
       IN  \/ /\ plugin[i].state = "live" /\ others = {}
              /\ plugin' = [plugin EXCEPT ![i] = UpdatedPlugin(q, i)]
              /\ Finish(q, 200)
           \/ /\ plugin[i].state = "live" => others # {}
              /\ Finish(q, 500)
              /\ UNCHANGED plugin
    /\ UNCHANGED <<entry, bucket, ppeak>>

\* The REST handler removes the object behind the address it read, whoever else
\* names it, and goes on if that fails;
CutObject(q) ==
    /\ preq[q].at = "cut"
    /\ bucket' \in {bucket, bucket \ {preq[q].file}}
    /\ Step(q, "drop")
    /\ UNCHANGED <<plugin, entry, ppeak>>

\* both delete the row, which may fail when its object is already gone.
DropPlugin(q) ==
    /\ preq[q].at = "drop"
    /\ \/ /\ plugin' = [plugin EXCEPT ![preq[q].id].state = "deleted"]
          /\ Finish(q, 200)
       \/ UNCHANGED plugin /\ Finish(q, 500)
    /\ UNCHANGED <<entry, bucket, ppeak>>

-----------------------------------------------------------------------------
ServePlugin(q) ==
    \/ RefusePlugin(q)
    \/ UploadPlugin(q) \/ StoreObject(q) \/ CreatePlugin(q) \/ FindEntry(q)
    \/ CheckPluginLimit(q) \/ InsertPlugin(q) \/ CountDownload(q)
    \/ PublishPlugin(q) \/ FindPlugin(q) \/ ChangePlugin(q) \/ UpdatePlugin(q)
    \/ CutObject(q) \/ DropPlugin(q)

PluginNext == \E q \in Request : ServePlugin(q)

PluginSpec == PluginInit /\ [][PluginNext]_pluginVars

-----------------------------------------------------------------------------
(* The plugins an organization installed or created exceed its plan by no more
   than the requests that were in flight at once less one, whatever is renamed,
   moved or deleted beside them.  Uploads, whose handler checks no limit, and
   plugins moved in by an update are not in that count, though every later check
   counts them.                                                             *)
PluginLimitHeld ==
    \A m \in LimitRead : \A o \in Owner :
        Bounding(m) =>
            \/ Cardinality(Metered(o)) + 1 <= m + ppeak[o]
            \/ Cardinality(Metered(o))
                 <= Cardinality({i \in PluginId : /\ InitialPlugin[i].state = "live"
                                                  /\ InitialPlugin[i].owner = o
                                                  /\ InitialPlugin[i].metered})

\* A removal read this address, and has got past the deletion of its object.
Removed(file) ==
    \E q \in Request : /\ preq[q].op = "remove" /\ preq[q].file = file
                       /\ \/ preq[q].at = "drop"
                          \/ preq[q].at = "done" /\ preq[q].reply \in {200, 500}

\* A client writes the address himself, of a file that was not there at the start.
Claimed(file) ==
    /\ file \notin InitialBucket
    /\ \E q \in Request : /\ preq[q].op \in {"create", "update", "publish"}
                          /\ preq[q].file = file

(* A plugin's file is missing only if a plugin that had the same file was removed,
   or a client made the address up: an upload never leaves a row without its
   object, whatever is uploaded, updated, installed or deleted beside it, and an
   install copies no address that was dead before it came into an entry.    *)
FileLostByDeletion ==
    \A i \in PluginId :
        /\ plugin[i].state = "live"
        /\ plugin[i].file # Elsewhere
        /\ plugin[i].file \notin bucket
        => Removed(plugin[i].file) \/ Claimed(plugin[i].file)
=============================================================================
