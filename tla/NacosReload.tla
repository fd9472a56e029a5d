---------------------------- MODULE NacosReload ----------------------------
(***************************************************************************)
(* A remote NacosConfig (nacos/config.rs) from build_remote to shutdown or *)
(* drop: the first load, the registration of the listener, notify called   *)
(* by the SDK on its own threads, the reload worker that applies batches   *)
(* of updates, and the watch channels the application reads.               *)
(*                                                                         *)
(* A content is a revision number and how it parses: "good"; "bad", which  *)
(* config refuses; "odd", whose format cannot be inferred.  A merged       *)
(* Config is the function from data-ids to the contents it was built from. *)
(***************************************************************************)
EXTENDS Naturals, Sequences, SequencesExt

CONSTANTS MergeOrder,   \* NacosSource::data_id, in merge order
          MaxRevision   \* bound: how many revisions are ever published

(* NacosSource::validate accepts no empty list and no repeated data-id.    *)
ASSUME MergeOrderAssumption ==
  /\ MergeOrder \in Seq(STRING) /\ MergeOrder # <<>>
  /\ \A i, j \in 1..Len(MergeOrder) : MergeOrder[i] = MergeOrder[j] => i = j
  /\ MaxRevision \in Nat

VARIABLES server,      \* what Nacos has published for each data-id
          revision,    \* the number of the last revision published
          life,        \* where the application's NacosConfig stands
          rest,        \* the data-ids build_remote or shutdown still goes through
          listening,   \* data-ids the SDK has the listener for
          told,        \* the content the SDK last gave to each listener
          entries,     \* ReloadListener::entries
          pending,     \* ReloadListener::pending_updates
          calling,     \* data-ids whose notify is before its notify_one
          permit,      \* the permit of update_notify
          worker,      \* where run_reload_worker stands
          batch,       \* the updates taken from pending
          todo,        \* data-ids whose channel is still to be updated
          snapshot,    \* the value of tx
          channel,     \* the values of data_id_txs
          pushed,      \* history: the last update enqueued for each data-id
          spoiled,     \* history: updates that were rolled back
          unremoved    \* history: data-ids the SDK may keep listening for

nacosVars == <<server, revision>>
sdkVars == <<listening, told, unremoved>>
listenerVars == <<pending, calling, permit, pushed>>
workerVars == <<entries, worker, batch, todo, snapshot, channel, spoiled>>
vars == <<nacosVars, life, rest, sdkVars, listenerVars, workerVars>>

DataId == ToSet(MergeOrder)

Kind == {"good", "bad", "odd"}

Content == [rev : Nat, kind : Kind]

Nothing == [rev |-> 0, kind |-> "good"]

(* A build whose registration fails goes on by "cleanup", shutdown goes on *)
(* by "remove"; both join the worker and stop.  "failed" is a build that   *)
(* failed before it had a worker, "cancelled" one whose future was dropped.*)
Life == {"load", "register", "active", "cleanup", "remove", "join", "stopped", "failed",
         "dropped", "cancelled"}

WorkerPoint == {"off", "waiting", "taking", "applying", "publishing"}

TypeOK ==
  /\ server \in [DataId -> Content]
  /\ revision \in Nat
  /\ life \in Life
  /\ rest \in Seq(DataId)
  /\ listening \subseteq DataId /\ unremoved \subseteq DataId
  /\ told \in [DataId -> Content]
  /\ entries \in [DataId -> Content]
  /\ \E D \in SUBSET DataId : pending \in [D -> Content]
  /\ calling \subseteq DataId
  /\ permit \in BOOLEAN
  /\ pushed \in [DataId -> Content]
  /\ worker \in WorkerPoint
  /\ \E D \in SUBSET DataId : batch \in [D -> Content]
  /\ todo \subseteq DataId
  /\ snapshot \in [DataId -> Content]
  /\ channel \in [DataId -> [DataId -> Content]]
  /\ spoiled \subseteq Content

NoUpdates == [d \in {} |-> Nothing]

Blank == [d \in DataId |-> Nothing]

Init ==
  /\ server = Blank
  /\ revision = 0
  /\ life = "load"
  /\ rest = MergeOrder
  /\ listening = {} /\ unremoved = {}
  /\ told = Blank
  /\ entries = Blank
  /\ pending = NoUpdates
  /\ calling = {}
  /\ permit = FALSE
  /\ pushed = Blank
  /\ worker = "off"
  /\ batch = NoUpdates
  /\ todo = {}
  /\ snapshot = Blank
  /\ channel = [d \in DataId |-> Blank]
  /\ spoiled = {}

Parses(config) == \A d \in DOMAIN config : config[d].kind = "good"

-----------------------------------------------------------------------------
(* Nacos and the SDK, as the code uses them.                               *)

Publish(d, kind) ==
  /\ revision < MaxRevision
  /\ revision' = revision + 1
  /\ server' = [server EXCEPT ![d] = [rev |-> revision + 1, kind |-> kind]]
  /\ UNCHANGED <<life, rest, sdkVars, listenerVars, workerVars>>

(* The SDK calls notify with what is published now, of one data-id once at *)
(* a time.  An update whose format is unknown is skipped; any other one    *)
(* replaces what is pending for its data-id.                               *)
Tell(d) ==
  /\ d \in listening \ calling
  /\ told[d] # server[d]
  /\ told' = [told EXCEPT ![d] = server[d]]
  /\ UNCHANGED <<nacosVars, life, rest, listening, unremoved, permit, workerVars>>

Enqueue(d, content) ==
  /\ pending' = [e \in DOMAIN pending \cup {d} |-> IF e = d THEN content ELSE pending[e]]
  /\ calling' = calling \cup {d}
  /\ pushed' = [pushed EXCEPT ![d] = content]

(* Mutant of Notify: a pending update is kept.                             *)
NotifyKeepsFirst(d) ==
  /\ Tell(d)
  /\ IF server[d].kind = "odd"
     THEN UNCHANGED <<pending, calling, pushed>>
     ELSE /\ pending' = [e \in DOMAIN pending \cup {d} |->
                           IF e \in DOMAIN pending THEN pending[e] ELSE server[d]]
          /\ calling' = calling \cup {d}
          /\ pushed' = [pushed EXCEPT ![d] = server[d]]

Notify(d) ==
  /\ Tell(d)
  /\ IF server[d].kind = "odd"
     THEN UNCHANGED <<pending, calling, pushed>>
     ELSE Enqueue(d, server[d])

(* enqueue_update ends with notify_one.                                    *)
NotifyOne(d) ==
  /\ d \in calling
  /\ calling' = calling \ {d}
  /\ permit' = TRUE
  /\ UNCHANGED <<nacosVars, life, rest, sdkVars, pending, pushed, workerVars>>

-----------------------------------------------------------------------------
(* build_remote.                                                           *)

Here == Head(rest)

(* get_config of the next data-id; an unknown format ends the build.       *)
Load ==
  /\ life = "load"
  /\ rest # <<>>
  /\ IF server[Here].kind = "odd"
     THEN life' = "failed" /\ UNCHANGED <<entries, rest, told>>
     ELSE /\ entries' = [entries EXCEPT ![Here] = server[Here]]
          /\ told' = [told EXCEPT ![Here] = server[Here]]
          /\ rest' = Tail(rest)
          /\ UNCHANGED life
  /\ UNCHANGED <<nacosVars, listening, unremoved, listenerVars, worker, batch, todo,
                 snapshot, channel, spoiled>>

(* get_config fails or times out, or the build is dropped meanwhile.       *)
LoadFails ==
  /\ life = "load"
  /\ rest # <<>>
  /\ life' = "failed"
  /\ UNCHANGED <<nacosVars, rest, sdkVars, listenerVars, workerVars>>

(* The first merge, the channels, and the worker.                          *)
FirstMerge ==
  /\ life = "load"
  /\ rest = <<>>
  /\ IF Parses(entries)
     THEN /\ snapshot' = entries
          /\ channel' = [d \in DataId |-> entries]
          /\ worker' = "waiting"
          /\ life' = "register" /\ rest' = MergeOrder
     ELSE life' = "failed" /\ UNCHANGED <<snapshot, channel, worker, rest>>
  /\ UNCHANGED <<nacosVars, sdkVars, listenerVars, entries, batch, todo, spoiled>>

(* add_listener.  From then on the SDK compares with the content of this   *)
(* moment, so that a change made since get_config is never told, or with   *)
(* the content that was loaded.                                            *)
Register ==
  /\ life = "register"
  /\ rest # <<>>
  /\ listening' = listening \cup {Here}
  /\ told' \in {told, [told EXCEPT ![Here] = server[Here]]}
  /\ rest' = Tail(rest)
  /\ UNCHANGED <<nacosVars, life, unremoved, listenerVars, workerVars>>

(* add_listener fails, or times out with the listener perhaps registered;  *)
(* cleanup goes through those registered before.                           *)
RegisterFails ==
  /\ life = "register"
  /\ rest # <<>>
  /\ life' = "cleanup"
  /\ rest' = SubSeq(MergeOrder, 1, Len(MergeOrder) - Len(rest))
  /\ \/ UNCHANGED <<listening, unremoved>>
     \/ listening' = listening \cup {Here} /\ unremoved' = unremoved \cup {Here}
  /\ UNCHANGED <<nacosVars, told, listenerVars, workerVars>>

Built ==
  /\ life = "register"
  /\ rest = <<>>
  /\ life' = "active"
  /\ UNCHANGED <<nacosVars, rest, sdkVars, listenerVars, workerVars>>

-----------------------------------------------------------------------------
(* The end: shutdown, the cleanup of a failed build, and drop.             *)

Shutdown ==
  /\ life = "active"
  /\ life' = "remove" /\ rest' = MergeOrder
  /\ UNCHANGED <<nacosVars, sdkVars, listenerVars, workerVars>>

Removing == life \in {"cleanup", "remove"}

(* Mutant of RemoveListener: the first failure ends the removal.           *)
RemoveListenerOrReturn ==
  /\ Removing
  /\ rest # <<>>
  /\ \/ listening' = listening \ {Here} /\ rest' = Tail(rest) /\ UNCHANGED unremoved
     \/ unremoved' = unremoved \cup {Here} /\ rest' = <<>> /\ UNCHANGED listening
  /\ UNCHANGED <<nacosVars, life, told, listenerVars, workerVars>>

(* remove_listener of the next data-id; a failure is only logged.          *)
RemoveListener ==
  /\ Removing
  /\ rest # <<>>
  /\ rest' = Tail(rest)
  /\ \/ listening' = listening \ {Here} /\ UNCHANGED unremoved
     \/ unremoved' = unremoved \cup {Here} /\ UNCHANGED listening
  /\ UNCHANGED <<nacosVars, life, told, listenerVars, workerVars>>

(* abort_reload_worker: abort, and wait for the task to end.               *)
AbortWorker ==
  /\ Removing
  /\ rest = <<>>
  /\ life' = "join"
  /\ UNCHANGED <<nacosVars, rest, sdkVars, listenerVars, workerVars>>

(* Mutant of Join: the handle is not awaited.                              *)
JoinAtOnce ==
  /\ life = "join"
  /\ life' = "stopped"
  /\ UNCHANGED <<nacosVars, rest, sdkVars, listenerVars, workerVars>>

Join ==
  /\ life = "join"
  /\ worker = "off"
  /\ life' = "stopped"
  /\ UNCHANGED <<nacosVars, rest, sdkVars, listenerVars, workerVars>>

(* Drop for RemoteHandle, without shutdown or as it is cancelled: abort    *)
(* only.  The ConfigService goes, and it may take its listeners with it.   *)
DropRemote ==
  /\ life \in {"active", "remove", "join"}
  /\ life' = "dropped"
  /\ listening' \in {{}, listening}
  /\ UNCHANGED <<nacosVars, rest, told, unremoved, listenerVars, workerVars>>

(* The future of build_remote is dropped once the worker is spawned.  A    *)
(* JoinHandle that is dropped does not end its task: the worker lives on.  *)
CancelBuild ==
  /\ life \in {"register", "cleanup"}
  /\ life' = "cancelled"
  /\ listening' \in {{}, listening}
  /\ UNCHANGED <<nacosVars, rest, told, unremoved, listenerVars, workerVars>>

Aborted == life \in {"join", "dropped"}

(* Mutant of WorkerEnds: the worker looks for the end when it is notified. *)
WorkerEndsWhenNotified ==
  /\ Aborted
  /\ worker = "waiting"
  /\ permit
  /\ worker' = "off"
  /\ UNCHANGED <<nacosVars, life, rest, sdkVars, listenerVars, entries, batch, todo,
                 snapshot, channel, spoiled>>

(* The task ends where it awaits: notified(), or the lock of entries.      *)
WorkerEnds ==
  /\ Aborted
  /\ worker \in {"waiting", "applying"}
  /\ worker' = "off"
  /\ UNCHANGED <<nacosVars, life, rest, sdkVars, listenerVars, entries, batch, todo,
                 snapshot, channel, spoiled>>

-----------------------------------------------------------------------------
(* run_reload_worker and apply_batch.                                      *)

Wake ==
  /\ worker = "waiting"
  /\ permit
  /\ permit' = FALSE
  /\ worker' = "taking"
  /\ UNCHANGED <<nacosVars, life, rest, sdkVars, pending, calling, pushed, entries, batch,
                 todo, snapshot, channel, spoiled>>

(* mem::take of the pending updates, until there are none.                 *)
TakePending ==
  /\ worker = "taking"
  /\ IF DOMAIN pending = {}
     THEN worker' = "waiting" /\ UNCHANGED batch
     ELSE worker' = "applying" /\ batch' = pending
  /\ pending' = NoUpdates
  /\ UNCHANGED <<nacosVars, life, rest, sdkVars, permit, calling, pushed, entries, todo,
                 snapshot, channel, spoiled>>

(* Mutant of Updated: the batch alone is merged.                           *)
UpdatedFromNothing == [d \in DataId |-> IF d \in DOMAIN batch THEN batch[d] ELSE Nothing]

(* The entries once the batch is in.                                       *)
Updated == [d \in DataId |-> IF d \in DOMAIN batch THEN batch[d] ELSE entries[d]]

(* Mutants of Apply: a batch that fails is not rolled back, or ends the    *)
(* worker.                                                                 *)
ApplyNoRollback ==
  /\ worker = "applying"
  /\ entries' = Updated
  /\ IF Parses(Updated)
     THEN /\ snapshot' = Updated
          /\ todo' = DOMAIN batch
          /\ worker' = "publishing"
          /\ UNCHANGED spoiled
     ELSE worker' = "taking" /\ UNCHANGED <<snapshot, todo, spoiled>>
  /\ UNCHANGED <<nacosVars, life, rest, sdkVars, listenerVars, batch, channel>>

ApplyOrReturn ==
  /\ worker = "applying"
  /\ IF Parses(Updated)
     THEN /\ entries' = Updated
          /\ snapshot' = Updated
          /\ todo' = DOMAIN batch
          /\ worker' = "publishing"
     ELSE worker' = "off" /\ UNCHANGED <<entries, snapshot, todo>>
  /\ UNCHANGED <<nacosVars, life, rest, sdkVars, listenerVars, batch, channel, spoiled>>

(* The batch enters entries and all entries are merged: the new snapshot,  *)
(* or all of the batch is rolled back.                                     *)
Apply ==
  /\ worker = "applying"
  /\ IF Parses(Updated)
     THEN /\ entries' = Updated
          /\ snapshot' = Updated
          /\ todo' = DOMAIN batch
          /\ worker' = "publishing"
          /\ UNCHANGED spoiled
     ELSE /\ worker' = "taking"
          /\ spoiled' = spoiled \cup {batch[d] : d \in DOMAIN batch}
          /\ UNCHANGED <<entries, snapshot, todo>>
  /\ UNCHANGED <<nacosVars, life, rest, sdkVars, listenerVars, batch, channel>>

(* changed_data_ids is in merge order.                                      *)
First(d) ==
  \E i \in DOMAIN MergeOrder :
    MergeOrder[i] = d /\ \A j \in 1..i - 1 : MergeOrder[j] \notin todo

(* Mutant of PublishChannel: the channel of the first data-id only.        *)
PublishFirstOnly ==
  /\ worker = "publishing"
  /\ \/ todo = {} /\ worker' = "taking" /\ UNCHANGED <<todo, channel>>
     \/ \E d \in todo :
          /\ First(d)
          /\ channel' = [channel EXCEPT ![d] = snapshot]
          /\ todo' = {}
          /\ UNCHANGED worker
  /\ UNCHANGED <<nacosVars, life, rest, sdkVars, listenerVars, entries, batch, snapshot,
                 spoiled>>

(* The channel of each data-id of the batch.                               *)
PublishChannel ==
  /\ worker = "publishing"
  /\ \/ todo = {} /\ worker' = "taking" /\ UNCHANGED <<todo, channel>>
     \/ \E d \in todo :
          /\ First(d)
          /\ channel' = [channel EXCEPT ![d] = snapshot]
          /\ todo' = todo \ {d}
          /\ UNCHANGED worker
  /\ UNCHANGED <<nacosVars, life, rest, sdkVars, listenerVars, entries, batch, snapshot,
                 spoiled>>

-----------------------------------------------------------------------------
WorkerStep == Wake \/ TakePending \/ Apply \/ PublishChannel

BuildStep ==
  Load \/ LoadFails \/ FirstMerge \/ Register \/ RegisterFails \/ Built \/ CancelBuild

EndStep == RemoveListener \/ AbortWorker \/ Join \/ WorkerEnds

(* All is published and applied, or the configuration has ended.           *)
Finished ==
  /\ revision = MaxRevision
  /\ life \in {"active", "stopped", "failed", "dropped", "cancelled"}
  /\ worker \in {"off", "waiting"}
  /\ UNCHANGED vars

Next ==
  \/ \E d \in DataId, kind \in Kind : Publish(d, kind)
  \/ \E d \in DataId : Notify(d) \/ NotifyOne(d)
  \/ BuildStep \/ Shutdown \/ DropRemote \/ EndStep
  \/ WorkerStep
  \/ Finished

Spec == Init /\ [][Next]_vars

(* The runtime polls the worker and the future of shutdown or of a failed  *)
(* build, notify returns, and the SDK answers remove_listener.             *)
Fairness ==
  /\ WF_vars(WorkerStep) /\ WF_vars(EndStep)
  /\ \A d \in DataId : WF_vars(NotifyOne(d))

FairSpec == Spec /\ Fairness

-----------------------------------------------------------------------------
(* The application only ever reads configurations that parse as a whole,   *)
(* in the snapshot and in every channel, whatever is pushed and batched;   *)
(* and a failed batch leaves nothing behind in the entries that would      *)
(* fail, or leak into, a later and unrelated update.                       *)
ReadsParse == Parses(snapshot) /\ \A d \in DataId : Parses(channel[d])

EntriesAreSnapshot == life \notin {"load", "failed"} => entries = snapshot

ReadsAreWhole == ReadsParse /\ EntriesAreSnapshot

(* The channel of a data-id is behind in that data-id's own content only   *)
(* while its batch is being published, so that who subscribes to one       *)
(* data-id misses no change of it.                                         *)
ChannelHasOwnContent ==
  \A d \in DataId : d \notin todo => channel[d][d] = snapshot[d]

(* No reader sees a data-id go back to an earlier content.                 *)
NeverBack ==
  [][\A d \in DataId :
       /\ snapshot'[d].rev >= snapshot[d].rev
       /\ \A e \in DataId : channel'[e][d].rev >= channel[e][d].rev]_vars

(* While the worker sleeps with no notification to come, the last update   *)
(* of each data-id is in force or was rolled back: none is lost between    *)
(* pending_updates, the permit and the batch.                              *)
Resting == worker = "waiting" /\ ~permit /\ calling = {}

PushIsSettled ==
  Resting => \A d \in DataId :
               pushed[d] \in {Nothing, snapshot[d]} \/ pushed[d] \in spoiled

(* Once shutdown, or a build that failed, has returned the configuration   *)
(* stands still, though the SDK may still call the listener.               *)
FrozenAfterShutdown ==
  [][life = "stopped" => UNCHANGED <<entries, snapshot, channel>>]_vars

(* Then no listener is left but those whose removal failed, or whose       *)
(* registration timed out.                                                 *)
ListenersRemoved == life \in {"join", "stopped"} => listening \subseteq unremoved

(* A change that Nacos pushes is in what is read afterwards (mod.rs:74):   *)
(* no good update is rolled back.                                          *)
GoodPushIsApplied == \A content \in spoiled : content.kind # "good"

(* An update that was enqueued is taken by the worker while the            *)
(* configuration is in use.                                                *)
PendingIsTaken ==
  life = "active" /\ DOMAIN pending # {} ~> life # "active" \/ DOMAIN pending = {}

(* shutdown, and the cleanup of a failed build, return whatever the worker *)
(* is at, or their futures were dropped.                                   *)
ShutdownReturns == Removing ~> life \in {"stopped", "dropped", "cancelled"}
=============================================================================
