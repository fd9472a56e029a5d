-------------------------- MODULE NacosReloadProofs --------------------------
(***************************************************************************)
(* The safety properties of NacosReload, for any list of data-ids and any  *)
(* number of revisions.                                                    *)
(***************************************************************************)
EXTENDS NacosReload, SequenceTheorems, TLAPS

(* Where the application stands goes with where the worker stands: before  *)
(* the first merge and once stopped there is none, and no listener has     *)
(* been called before.                                                     *)
ControlInv ==
  /\ life \in {"load", "failed", "stopped"} => worker = "off"
  /\ life = "load" => listening = {} /\ pending = NoUpdates /\ pushed = Blank
  /\ life = "failed" => listening = {}
  /\ worker # "publishing" => todo = {}

(* What build_remote has left of the data-ids is the end of the list, and  *)
(* the SDK has the listeners of those before; what goes through the list   *)
(* to remove them has those before behind it.                              *)
ListenersInv ==
  /\ life \in {"load", "register"} =>
       /\ Len(rest) <= Len(MergeOrder)
       /\ \A i \in 1..Len(rest) : rest[i] = MergeOrder[Len(MergeOrder) - Len(rest) + i]
  /\ life = "register" =>
       listening \subseteq {MergeOrder[i] : i \in 1..Len(MergeOrder) - Len(rest)}
  /\ Removing =>
       listening \subseteq unremoved \cup {rest[i] : i \in 1..Len(rest)}
  /\ ListenersRemoved

(* An update is in the batch while it is being applied.                    *)
InBatch(d) == worker = "applying" /\ d \in DOMAIN batch

(* The last update of a data-id is pending; or it is in the batch; or it   *)
(* is in force or was rolled back.  What is pending has a notification to  *)
(* come.                                                                   *)
PushInv ==
  /\ \A d \in DOMAIN pending : pending[d] = pushed[d]
  /\ \A d \in DataId \ DOMAIN pending :
       IF InBatch(d) THEN batch[d] = pushed[d]
       ELSE worker = "off" \/ pushed[d] \in {Nothing, snapshot[d]} \cup spoiled
  /\ Resting => DOMAIN pending = {}

(* From the channels to the server, contents get newer.                    *)
OrderInv ==
  \A d \in DataId :
    /\ server[d].rev <= revision
    /\ \A e \in DataId : channel[e][d].rev <= snapshot[d].rev
    /\ snapshot[d].rev <= entries[d].rev
    /\ entries[d].rev <= server[d].rev
    /\ InBatch(d) => entries[d].rev <= batch[d].rev /\ batch[d].rev <= server[d].rev
    /\ d \in DOMAIN pending =>
         /\ entries[d].rev <= pending[d].rev /\ pending[d].rev <= server[d].rev
         /\ InBatch(d) => batch[d].rev <= pending[d].rev

Inv ==
  /\ TypeOK /\ ControlInv /\ ListenersInv
  /\ ReadsAreWhole /\ ChannelHasOwnContent /\ PushInv /\ OrderInv

-----------------------------------------------------------------------------
(* Types                                                                   *)

LEMMA DataIdsOfOrder ==
  /\ MergeOrder \in Seq(DataId)
  /\ DataId = {MergeOrder[i] : i \in 1..Len(MergeOrder)}
  /\ Len(MergeOrder) \in Nat
<1>1. MergeOrder \in Seq(STRING)
  BY MergeOrderAssumption
<1> QED
  BY <1>1 DEF DataId, ToSet

LEMMA NothingIsContent == Nothing \in Content /\ Blank \in [DataId -> Content]
BY DEF Nothing, Content, Kind, Blank

LEMMA InitTypeOK == Init => TypeOK
<1> SUFFICES ASSUME Init PROVE TypeOK
  OBVIOUS
<1>1. NoUpdates \in [{} -> Content]
  BY DEF NoUpdates
<1> QED
  BY <1>1, NothingIsContent, DataIdsOfOrder DEF Init, TypeOK, Life, WorkerPoint

(* The steps that only move the life of the configuration and the          *)
(* listeners of the SDK.                                                   *)
LifeStep ==
  \/ LoadFails \/ Register \/ RegisterFails \/ Built \/ CancelBuild \/ Shutdown
  \/ RemoveListener \/ AbortWorker \/ Join \/ DropRemote

LEMMA Steps ==
  ASSUME [Next]_vars
  PROVE  \/ UNCHANGED vars
         \/ \E d \in DataId, kind \in Kind : Publish(d, kind)
         \/ \E d \in DataId : Notify(d) \/ NotifyOne(d)
         \/ LifeStep \/ Load \/ FirstMerge \/ WorkerEnds
         \/ Wake \/ TakePending \/ Apply \/ PublishChannel
BY DEF Next, BuildStep, EndStep, WorkerStep, Finished, LifeStep

LEMMA LifeStepKeeps ==
  ASSUME LifeStep
  PROVE  UNCHANGED <<nacosVars, listenerVars, workerVars>>
BY DEF LifeStep, LoadFails, Register, RegisterFails, Built, CancelBuild, Shutdown,
       RemoveListener, AbortWorker, Join, DropRemote

LEMMA RestInOrder ==
  ASSUME TypeOK, rest # <<>>
  PROVE  Head(rest) \in DataId /\ Tail(rest) \in Seq(DataId)
BY DEF TypeOK

LEMMA BeforeRest ==
  ASSUME TypeOK, Len(rest) <= Len(MergeOrder)
  PROVE  SubSeq(MergeOrder, 1, Len(MergeOrder) - Len(rest)) \in Seq(DataId)
BY DataIdsOfOrder, SubSeqProperties DEF TypeOK

LEMMA LifeStepTypeOK ==
  ASSUME TypeOK, ListenersInv, LifeStep
  PROVE  TypeOK'
<1>1. UNCHANGED <<nacosVars, listenerVars, workerVars>>
  BY LifeStepKeeps
<1>2. /\ life' \in Life /\ rest' \in Seq(DataId) /\ told' \in [DataId -> Content]
      /\ listening' \subseteq DataId /\ unremoved' \subseteq DataId
  <2>1. CASE LoadFails
    BY <2>1 DEF TypeOK, LoadFails, sdkVars, Life
  <2>2. CASE Register
    BY <2>2, RestInOrder DEF TypeOK, Register, Life, Here
  <2>3. CASE RegisterFails
    BY <2>3, RestInOrder, BeforeRest DEF TypeOK, ListenersInv, RegisterFails, Life, Here
  <2>4. CASE Built \/ CancelBuild
    BY <2>4 DEF TypeOK, Built, CancelBuild, sdkVars, Life
  <2>5. CASE Shutdown
    BY <2>5, DataIdsOfOrder DEF TypeOK, Shutdown, sdkVars, Life
  <2>6. CASE RemoveListener
    BY <2>6, RestInOrder DEF TypeOK, RemoveListener, Removing, Life, Here
  <2>7. CASE AbortWorker \/ Join \/ DropRemote
    BY <2>7 DEF TypeOK, AbortWorker, Join, DropRemote, sdkVars, Life
  <2> QED
    BY <2>1, <2>2, <2>3, <2>4, <2>5, <2>6, <2>7 DEF LifeStep
<1> QED
  BY <1>1, <1>2 DEF TypeOK, nacosVars, listenerVars, workerVars

(* What Apply puts together.                                               *)
LEMMA UpdatedIsConfig == TypeOK => Updated \in [DataId -> Content]
BY DEF TypeOK, Updated

LEMMA StepTypeOK ==
  ASSUME TypeOK, ListenersInv, [Next]_vars
  PROVE  TypeOK'
<1>1. CASE UNCHANGED vars
  BY <1>1 DEF TypeOK, vars, nacosVars, sdkVars, listenerVars, workerVars
<1>2. ASSUME NEW d \in DataId, NEW kind \in Kind, Publish(d, kind)
      PROVE  TypeOK'
  <2>1. [rev |-> revision + 1, kind |-> kind] \in Content /\ revision + 1 \in Nat
    BY DEF TypeOK, Content
  <2>2. server' \in [DataId -> Content] /\ revision' \in Nat
    BY <1>2, <2>1 DEF Publish, TypeOK
  <2> QED
    BY <1>2, <2>2 DEF Publish, TypeOK, sdkVars, listenerVars, workerVars
<1>3. ASSUME NEW d \in DataId, Notify(d)
      PROVE  TypeOK'
  <2>1. /\ told' \in [DataId -> Content] /\ pushed' \in [DataId -> Content]
        /\ calling' \subseteq DataId
    BY <1>3 DEF Notify, Tell, Enqueue, TypeOK
  <2>2. \E D \in SUBSET DataId : pending' \in [D -> Content]
    <3>1. CASE UNCHANGED pending
      BY <3>1 DEF TypeOK
    <3>2. CASE Enqueue(d, server[d])
      <4>1. PICK D \in SUBSET DataId : pending \in [D -> Content]
        BY DEF TypeOK
      <4>2. server[d] \in Content
        BY DEF TypeOK
      <4>3. pending' \in [D \cup {d} -> Content]
        BY <3>2, <4>1, <4>2 DEF Enqueue
      <4> QED
        BY <4>3
    <3> QED
      BY <1>3, <3>1, <3>2 DEF Notify
  <2> QED
    BY <1>3, <2>1, <2>2 DEF Notify, Tell, TypeOK, nacosVars, workerVars
<1>4. ASSUME NEW d \in DataId, NotifyOne(d)
      PROVE  TypeOK'
  BY <1>4 DEF NotifyOne, TypeOK, nacosVars, sdkVars, workerVars
<1>5. CASE LifeStep
  BY <1>5, LifeStepTypeOK
<1>6. CASE Load
  BY <1>6, RestInOrder DEF Load, TypeOK, nacosVars, listenerVars, Life, Here
<1>7. CASE FirstMerge
  BY <1>7, DataIdsOfOrder
  DEF FirstMerge, TypeOK, nacosVars, sdkVars, listenerVars, Life, WorkerPoint
<1>8. CASE WorkerEnds \/ Wake
  BY <1>8 DEF WorkerEnds, Wake, TypeOK, nacosVars, sdkVars, listenerVars, WorkerPoint
<1>9. CASE TakePending
  <2>1. \E D \in SUBSET DataId : pending' \in [D -> Content]
    BY <1>9 DEF TakePending, NoUpdates
  <2>2. (\E D \in SUBSET DataId : batch' \in [D -> Content]) /\ worker' \in WorkerPoint
    BY <1>9 DEF TakePending, TypeOK, WorkerPoint
  <2> QED
    BY <1>9, <2>1, <2>2 DEF TakePending, TypeOK, nacosVars, sdkVars
<1>10. CASE Apply
  BY <1>10, UpdatedIsConfig
  DEF Apply, TypeOK, nacosVars, sdkVars, listenerVars, WorkerPoint
<1>11. CASE PublishChannel
  BY <1>11 DEF PublishChannel, TypeOK, nacosVars, sdkVars, listenerVars, WorkerPoint
<1> QED
  BY <1>1, <1>2, <1>3, <1>4, <1>5, <1>6, <1>7, <1>8, <1>9, <1>10, <1>11, Steps

-----------------------------------------------------------------------------
(* Listeners                                                               *)

LEMMA InitListenersInv == Init => ListenersInv
BY DataIdsOfOrder DEF Init, ListenersInv, Removing, ListenersRemoved

(* The head of the rest is the next data-id of the list; the tail is the   *)
(* rest after it.                                                          *)
LEMMA RestMovesOn ==
  ASSUME TypeOK, rest # <<>>, Len(rest) <= Len(MergeOrder),
         \A i \in 1..Len(rest) : rest[i] = MergeOrder[Len(MergeOrder) - Len(rest) + i]
  PROVE  /\ Len(rest) \in Nat \ {0} /\ Len(MergeOrder) \in Nat
         /\ Len(Tail(rest)) = Len(rest) - 1
         /\ Here = MergeOrder[Len(MergeOrder) - Len(Tail(rest))]
         /\ \A i \in 1..Len(Tail(rest)) :
              Tail(rest)[i] = MergeOrder[Len(MergeOrder) - Len(Tail(rest)) + i]
<1>1. /\ rest \in Seq(DataId) /\ Len(rest) \in Nat \ {0} /\ Len(MergeOrder) \in Nat
      /\ Here = rest[1] /\ Len(Tail(rest)) = Len(rest) - 1
      /\ \A i \in 1..Len(rest) - 1 : Tail(rest)[i] = rest[i + 1]
  BY DataIdsOfOrder DEF TypeOK, Here
<1>2. Here = MergeOrder[Len(MergeOrder) - Len(rest) + 1]
  BY <1>1
<1>3. ASSUME NEW i \in 1..Len(rest) - 1
      PROVE  Tail(rest)[i] = MergeOrder[Len(MergeOrder) - (Len(rest) - 1) + i]
  <2>1. i + 1 \in 1..Len(rest) /\ Tail(rest)[i] = rest[i + 1]
    BY <1>1
  <2>2. Len(MergeOrder) - Len(rest) + (i + 1) = Len(MergeOrder) - (Len(rest) - 1) + i
    BY <1>1
  <2> QED
    BY <2>1, <2>2
<1> QED
  BY <1>1, <1>2, <1>3

(* Those still to be removed are the next and those after it.              *)
LEMMA RestOfRemoval ==
  ASSUME TypeOK, rest # <<>>
  PROVE  {rest[i] : i \in 1..Len(rest)}
           \subseteq {Here} \cup {Tail(rest)[i] : i \in 1..Len(Tail(rest))}
<1>1. /\ Len(rest) \in Nat \ {0} /\ Here = rest[1] /\ Len(Tail(rest)) = Len(rest) - 1
      /\ \A i \in 1..Len(rest) - 1 : Tail(rest)[i] = rest[i + 1]
  BY DEF TypeOK, Here
<1>2. ASSUME NEW i \in 1..Len(rest), i # 1
      PROVE  i - 1 \in 1..Len(rest) - 1 /\ rest[i] = Tail(rest)[i - 1]
  <2>1. i - 1 \in 1..Len(rest) - 1 /\ (i - 1) + 1 = i
    BY <1>1, <1>2
  <2> QED
    BY <1>1, <2>1
<1>3. ASSUME NEW i \in 1..Len(rest)
      PROVE  rest[i] \in {Here} \cup {Tail(rest)[k] : k \in 1..Len(Tail(rest))}
  <2>1. CASE i = 1
    BY <1>1, <2>1
  <2>2. CASE i # 1
    <3>1. i - 1 \in 1..Len(Tail(rest)) /\ rest[i] = Tail(rest)[i - 1]
      BY <1>1, <1>2, <2>2
    <3> QED
      BY <3>1
  <2> QED
    BY <2>1, <2>2
<1> QED
  BY <1>3

LEMMA LifeStepListenersInv ==
  ASSUME TypeOK, ListenersInv, LifeStep
  PROVE  ListenersInv'
<1>1. CASE LoadFails \/ Built \/ CancelBuild \/ DropRemote
  BY <1>1 DEF LoadFails, Built, CancelBuild, DropRemote, ListenersInv, Removing,
              ListenersRemoved, sdkVars
<1>2. CASE Register
  <2>1. /\ rest' = Tail(rest) /\ rest # <<>> /\ Len(rest) <= Len(MergeOrder)
        /\ \A i \in 1..Len(rest) : rest[i] = MergeOrder[Len(MergeOrder) - Len(rest) + i]
    BY <1>2 DEF Register, ListenersInv
  <2>2. /\ Len(rest) \in Nat \ {0} /\ Len(MergeOrder) \in Nat
        /\ Len(rest') = Len(rest) - 1
        /\ Here = MergeOrder[Len(MergeOrder) - Len(rest')]
        /\ \A i \in 1..Len(rest') : rest'[i] = MergeOrder[Len(MergeOrder) - Len(rest') + i]
    BY <2>1, RestMovesOn
  <2>3. listening' \subseteq {MergeOrder[i] : i \in 1..Len(MergeOrder) - Len(rest')}
    BY <1>2, <2>1, <2>2 DEF Register, ListenersInv
  <2> QED
    BY <1>2, <2>1, <2>2, <2>3 DEF Register, ListenersInv, Removing, ListenersRemoved
<1>3. CASE RegisterFails
  <2> DEFINE n == Len(MergeOrder) - Len(rest)
  <2>1. n \in 0..Len(MergeOrder)
    BY <1>3, DataIdsOfOrder DEF RegisterFails, ListenersInv, TypeOK
  <2>2. Len(rest') = n /\ \A i \in 1..n : rest'[i] = MergeOrder[i]
    BY <1>3, <2>1, DataIdsOfOrder, SubSeqProperties DEF RegisterFails
  <2>3. listening \subseteq {rest'[i] : i \in 1..Len(rest')}
    BY <1>3, <2>2 DEF RegisterFails, ListenersInv
  <2>4. listening' \subseteq unremoved' \cup {rest'[i] : i \in 1..Len(rest')}
    BY <1>3, <2>3 DEF RegisterFails
  <2> QED
    BY <1>3, <2>4 DEF RegisterFails, ListenersInv, Removing, ListenersRemoved
<1>4. CASE Shutdown
  <2>1. listening' \subseteq {rest'[i] : i \in 1..Len(rest')}
    BY <1>4, DataIdsOfOrder DEF Shutdown, TypeOK, sdkVars
  <2> QED
    BY <1>4, <2>1 DEF Shutdown, ListenersInv, Removing, ListenersRemoved
<1>5. CASE RemoveListener
  <2>1. listening' \subseteq unremoved' \cup {rest'[i] : i \in 1..Len(rest')}
    <3> DEFINE after == {rest'[i] : i \in 1..Len(rest')}
    <3>1. listening \subseteq unremoved \cup {Here} \cup after
      <4>1. /\ rest # <<>> /\ rest' = Tail(rest)
            /\ listening \subseteq unremoved \cup {rest[i] : i \in 1..Len(rest)}
        BY <1>5 DEF RemoveListener, ListenersInv
      <4>2. {rest[i] : i \in 1..Len(rest)} \subseteq {Here} \cup after
        BY <4>1, RestOfRemoval
      <4> QED
        BY <4>1, <4>2
    <3>2. \/ listening' = listening \ {Here} /\ unremoved' = unremoved
          \/ unremoved' = unremoved \cup {Here} /\ listening' = listening
      BY <1>5 DEF RemoveListener
    <3> QED
      BY <3>1, <3>2
  <2> QED
    BY <1>5, <2>1 DEF RemoveListener, ListenersInv, Removing, ListenersRemoved
<1>6. CASE AbortWorker
  <2>1. {rest[i] : i \in 1..Len(rest)} = {}
    BY <1>6 DEF AbortWorker
  <2> QED
    BY <1>6, <2>1 DEF AbortWorker, ListenersInv, Removing, ListenersRemoved, sdkVars
<1>7. CASE Join
  BY <1>7 DEF Join, ListenersInv, Removing, ListenersRemoved, sdkVars
<1> QED
  BY <1>1, <1>2, <1>3, <1>4, <1>5, <1>6, <1>7 DEF LifeStep

LEMMA StepListenersInv ==
  ASSUME TypeOK, ListenersInv, ControlInv, [Next]_vars
  PROVE  ListenersInv'
<1>1. ASSUME UNCHANGED <<life, rest, listening, unremoved>>
      PROVE  ListenersInv'
  BY <1>1 DEF ListenersInv, Removing, ListenersRemoved
<1>2. CASE LifeStep
  BY <1>2, LifeStepListenersInv
<1>3. CASE Load
  <2>1. CASE UNCHANGED rest
    BY <1>3, <2>1 DEF Load, ListenersInv, ControlInv, Removing, ListenersRemoved
  <2>2. CASE rest' = Tail(rest) /\ UNCHANGED life
    <3>1. /\ Len(rest') <= Len(MergeOrder)
          /\ \A i \in 1..Len(rest') : rest'[i] = MergeOrder[Len(MergeOrder) - Len(rest') + i]
      <4>1. /\ rest # <<>> /\ Len(rest) <= Len(MergeOrder)
            /\ \A i \in 1..Len(rest) : rest[i] = MergeOrder[Len(MergeOrder) - Len(rest) + i]
        BY <1>3 DEF Load, ListenersInv
      <4>2. /\ Len(rest) \in Nat \ {0} /\ Len(MergeOrder) \in Nat
            /\ Len(rest') = Len(rest) - 1
            /\ \A i \in 1..Len(rest') :
                 rest'[i] = MergeOrder[Len(MergeOrder) - Len(rest') + i]
        BY <2>2, <4>1, RestMovesOn
      <4> QED
        BY <4>1, <4>2
    <3> QED
      BY <1>3, <2>2, <3>1 DEF Load, ListenersInv, Removing, ListenersRemoved
  <2> QED
    BY <1>3, <2>1, <2>2 DEF Load
<1>4. CASE FirstMerge
  BY <1>4, DataIdsOfOrder
  DEF FirstMerge, ListenersInv, ControlInv, Removing, ListenersRemoved, sdkVars
<1>5. CASE \/ \E d \in DataId, kind \in Kind : Publish(d, kind)
           \/ \E d \in DataId : Notify(d) \/ NotifyOne(d)
  BY <1>1, <1>5 DEF Publish, Notify, Tell, NotifyOne, sdkVars
<1>6. CASE UNCHANGED vars \/ WorkerEnds \/ Wake \/ TakePending \/ Apply \/ PublishChannel
  BY <1>1, <1>6 DEF vars, WorkerEnds, Wake, TakePending, Apply, PublishChannel, sdkVars
<1> QED
  BY <1>2, <1>3, <1>4, <1>5, <1>6, Steps

-----------------------------------------------------------------------------
(* Contents.  Each step by itself: the worker's, the SDK's, and the first  *)
(* load.                                                                   *)

Data == ControlInv /\ ReadsAreWhole /\ ChannelHasOwnContent /\ PushInv /\ OrderInv

LEMMA InitData == Init => Data
<1> SUFFICES ASSUME Init PROVE Data
  OBVIOUS
<1>1. \A d \in DataId : Blank[d] = [rev |-> 0, kind |-> "good"]
  BY DEF Blank, Nothing
<1>2. DOMAIN Blank = DataId /\ DOMAIN NoUpdates = {}
  BY DEF Blank, NoUpdates
<1>3. ControlInv /\ PushInv
  BY <1>1, <1>2 DEF Init, ControlInv, PushInv, Resting, InBatch, Nothing
<1>4. ReadsAreWhole /\ ChannelHasOwnContent
  BY <1>1, <1>2 DEF Init, ReadsAreWhole, ReadsParse, Parses, EntriesAreSnapshot, ChannelHasOwnContent
<1>5. OrderInv
  BY <1>1, <1>2 DEF Init, OrderInv, InBatch
<1> QED
  BY <1>3, <1>4, <1>5 DEF Data

(* What a step with the same contents and worker leaves alone.             *)
LEMMA SameContentsData ==
  ASSUME Data, UNCHANGED <<nacosVars, listenerVars, workerVars>>, ControlInv',
         life \in {"load", "failed"} => life' \in {"load", "failed"}
  PROVE  Data'
BY DEF Data, nacosVars, listenerVars, workerVars, ReadsAreWhole, ReadsParse, EntriesAreSnapshot,
       ChannelHasOwnContent, PushInv, Resting, InBatch, OrderInv

LEMMA LifeStepData ==
  ASSUME Data, LifeStep
  PROVE  Data'
<1>1. UNCHANGED <<nacosVars, listenerVars, workerVars>>
  BY LifeStepKeeps
<1>2. ControlInv' /\ (life \in {"load", "failed"} => life' \in {"load", "failed"})
  <2>1. CASE LoadFails
    BY <2>1, <1>1 DEF LoadFails, Data, ControlInv, sdkVars, listenerVars, workerVars
  <2>2. CASE Register \/ RegisterFails \/ Built \/ CancelBuild
    BY <2>2, <1>1 DEF Register, RegisterFails, Built, CancelBuild, Data, ControlInv,
                      listenerVars, workerVars
  <2>3. CASE Shutdown \/ RemoveListener \/ AbortWorker \/ DropRemote
    BY <2>3, <1>1 DEF Shutdown, RemoveListener, Removing, AbortWorker, DropRemote, Data,
                      ControlInv, listenerVars, workerVars
  <2>4. CASE Join
    BY <2>4, <1>1 DEF Join, Data, ControlInv, listenerVars, workerVars
  <2> QED
    BY <2>1, <2>2, <2>3, <2>4 DEF LifeStep
<1> QED
  BY <1>1, <1>2, SameContentsData

LEMMA PublishData ==
  ASSUME TypeOK, Data, NEW d \in DataId, NEW kind \in Kind, Publish(d, kind)
  PROVE  Data'
<1>1. ControlInv' /\ ReadsAreWhole' /\ ChannelHasOwnContent' /\ PushInv'
  BY DEF Publish, Data, ControlInv, ReadsAreWhole, ReadsParse, EntriesAreSnapshot,
         ChannelHasOwnContent, PushInv, Resting, InBatch, sdkVars, listenerVars, workerVars
<1>2. \A e \in DataId :
        server[e].rev <= server'[e].rev /\ server'[e].rev <= revision' /\ server'[e].rev \in Nat
  <2>1. /\ revision \in Nat /\ revision' = revision + 1
        /\ \A e \in DataId : server[e].rev \in Nat /\ server[e].rev <= revision
    BY DEF Publish, Data, OrderInv, TypeOK, Content
  <2>2. \A e \in DataId : server'[e].rev = IF e = d THEN revision + 1 ELSE server[e].rev
    BY DEF Publish, TypeOK
  <2> QED
    BY <2>1, <2>2
<1>3. \A e \in DataId :
        /\ server[e].rev \in Nat /\ entries[e].rev \in Nat
        /\ e \in DOMAIN batch => batch[e].rev \in Nat
        /\ e \in DOMAIN pending => pending[e].rev \in Nat
  BY DEF TypeOK, Content
<1>4. OrderInv'
  BY <1>2, <1>3 DEF Publish, Data, OrderInv, InBatch, listenerVars, workerVars
<1> QED
  BY <1>1, <1>4 DEF Data

(* notify puts the newest content there is into pending.                   *)
LEMMA NotifyData ==
  ASSUME TypeOK, Data, NEW d \in DataId, Notify(d)
  PROVE  Data'
<1>1. CASE UNCHANGED <<pending, calling, pushed>>
  <2>1. UNCHANGED <<nacosVars, listenerVars, workerVars>> /\ UNCHANGED <<life, listening>>
    BY <1>1 DEF Notify, Tell, listenerVars
  <2>2. ControlInv'
    BY <2>1 DEF Data, ControlInv, listenerVars, workerVars
  <2> QED
    BY <2>1, <2>2, SameContentsData
<1>2. CASE Enqueue(d, server[d])
  <2>1. /\ life \notin {"load", "failed"}
        /\ UNCHANGED <<server, revision, life, listening, permit, workerVars>>
    BY DEF Notify, Tell, Data, ControlInv, nacosVars
  <2>2. /\ DOMAIN pending' = DOMAIN pending \cup {d} /\ pending'[d] = server[d]
        /\ \A e \in DOMAIN pending : e # d => pending'[e] = pending[e]
        /\ pushed'[d] = server[d] /\ \A e \in DataId : e # d => pushed'[e] = pushed[e]
        /\ d \in calling'
    BY <1>2 DEF Enqueue, TypeOK
  <2>3. ControlInv' /\ ReadsAreWhole' /\ ChannelHasOwnContent'
    BY <2>1 DEF Data, ControlInv, ReadsAreWhole, ReadsParse, EntriesAreSnapshot,
                ChannelHasOwnContent, workerVars
  <2>4. PushInv'
    <3>1. \A e \in DOMAIN pending' : pending'[e] = pushed'[e]
      BY <2>2 DEF Data, PushInv, TypeOK
    <3>2. \A e \in DataId \ DOMAIN pending' :
            IF InBatch(e)' THEN batch'[e] = pushed'[e]
            ELSE worker' = "off" \/ pushed'[e] \in {Nothing, snapshot'[e]} \cup spoiled'
      BY <2>1, <2>2 DEF Data, PushInv, InBatch, workerVars
    <3> QED
      BY <2>2, <3>1, <3>2 DEF PushInv, Resting
  <2>5. OrderInv'
    <3>1. /\ UNCHANGED <<server, revision, entries, snapshot, channel, batch>>
          /\ \A e \in DataId : InBatch(e)' = InBatch(e)
      BY <2>1 DEF InBatch, workerVars
    <3>2. /\ server[d].rev \in Nat /\ server[d].rev <= server[d].rev
          /\ entries[d].rev <= server[d].rev
          /\ InBatch(d) => batch[d].rev <= server[d].rev
      BY DEF Data, OrderInv, TypeOK, Content
    <3>3. \A e \in DataId : e \in DOMAIN pending' =>
            \/ e = d /\ pending'[e] = server[e]
            \/ e \in DOMAIN pending /\ pending'[e] = pending[e]
      BY <2>2
    <3>4. \A e \in DataId : e \in DOMAIN pending' =>
            /\ entries[e].rev <= pending'[e].rev /\ pending'[e].rev <= server[e].rev
            /\ InBatch(e) => batch[e].rev <= pending'[e].rev
      BY <3>2, <3>3 DEF Data, OrderInv
    <3> QED
      BY <3>1, <3>4 DEF Data, OrderInv
  <2> QED
    BY <2>3, <2>4, <2>5 DEF Data
<1> QED
  BY <1>1, <1>2 DEF Notify

LEMMA NotifyOneData ==
  ASSUME TypeOK, Data, NEW d \in DataId, NotifyOne(d)
  PROVE  Data'
BY DEF NotifyOne, nacosVars, sdkVars, workerVars, Data, ControlInv, ReadsAreWhole, ReadsParse,
       EntriesAreSnapshot, ChannelHasOwnContent, PushInv, Resting, InBatch, OrderInv

LEMMA LoadData ==
  ASSUME TypeOK, Data, Load
  PROVE  Data'
<1>1. /\ life = "load" /\ life' \in {"load", "failed"}
      /\ UNCHANGED <<nacosVars, listening, listenerVars, worker, batch, todo, snapshot,
                     channel, spoiled>>
      /\ worker = "off" /\ DOMAIN pending = {}
  BY DEF Load, Data, ControlInv, NoUpdates
<1>2. \A d \in DataId : entries'[d].rev \in {entries[d].rev, server[d].rev}
  <2>1. entries' = entries \/ entries' = [entries EXCEPT ![Here] = server[Here]]
    BY DEF Load
  <2>2. entries \in [DataId -> Content]
    BY DEF TypeOK
  <2>3. \A d \in DataId : entries'[d] = entries[d] \/ entries'[d] = server[d]
    BY <2>1, <2>2
  <2> QED
    BY <2>3
<1>3. ControlInv' /\ ReadsAreWhole' /\ ChannelHasOwnContent' /\ PushInv'
  BY <1>1 DEF Data, ControlInv, ReadsAreWhole, ReadsParse, EntriesAreSnapshot,
              ChannelHasOwnContent, PushInv, Resting, InBatch, nacosVars, listenerVars
<1>4. OrderInv'
  <2>1. \A d \in DataId :
          /\ server[d].rev \in Nat /\ server[d].rev <= server[d].rev
          /\ snapshot[d].rev <= entries[d].rev /\ entries[d].rev <= server[d].rev
          /\ snapshot[d].rev <= server[d].rev
    BY DEF Data, OrderInv, TypeOK, Content
  <2>2. \A d \in DataId :
          snapshot[d].rev <= entries'[d].rev /\ entries'[d].rev <= server[d].rev
    BY <1>2, <2>1
  <2>3. \A d \in DataId : ~InBatch(d)' /\ d \notin DOMAIN pending'
    BY <1>1 DEF InBatch, listenerVars
  <2> QED
    BY <1>1, <2>2, <2>3 DEF Data, OrderInv, nacosVars
<1> QED
  BY <1>3, <1>4 DEF Data

LEMMA FirstMergeData ==
  ASSUME TypeOK, Data, FirstMerge
  PROVE  Data'
<1>1. CASE ~Parses(entries)
  BY <1>1 DEF FirstMerge, nacosVars, sdkVars, listenerVars, Data, ControlInv, ReadsAreWhole,
              ReadsParse, EntriesAreSnapshot, ChannelHasOwnContent, PushInv, Resting, InBatch,
              OrderInv
<1>2. CASE Parses(entries)
  <2>1. /\ snapshot' = entries /\ channel' = [d \in DataId |-> entries]
        /\ worker' = "waiting" /\ life' = "register"
        /\ UNCHANGED <<nacosVars, listening, listenerVars, entries, batch, todo, spoiled>>
        /\ worker = "off" /\ DOMAIN pending = {} /\ pushed = Blank /\ todo = {}
    BY <1>2 DEF FirstMerge, Data, ControlInv, NoUpdates, sdkVars
  <2>2. ControlInv' /\ ReadsAreWhole' /\ ChannelHasOwnContent'
    BY <1>2, <2>1 DEF Data, ControlInv, ReadsAreWhole, ReadsParse, EntriesAreSnapshot,
                      ChannelHasOwnContent
  <2>3. PushInv'
    BY <2>1 DEF PushInv, InBatch, Resting, Blank, listenerVars
  <2>4. OrderInv'
    BY <2>1 DEF Data, OrderInv, InBatch, nacosVars, listenerVars, TypeOK, Content
  <2> QED
    BY <2>2, <2>3, <2>4 DEF Data
<1> QED
  BY <1>1, <1>2

LEMMA WorkerEndsData ==
  ASSUME TypeOK, Data, WorkerEnds
  PROVE  Data'
BY DEF WorkerEnds, Aborted, nacosVars, sdkVars, listenerVars, Data, ControlInv, ReadsAreWhole,
       ReadsParse, EntriesAreSnapshot, ChannelHasOwnContent, PushInv, Resting, InBatch, OrderInv

LEMMA WakeData ==
  ASSUME TypeOK, Data, Wake
  PROVE  Data'
BY DEF Wake, nacosVars, sdkVars, Data, ControlInv, ReadsAreWhole, ReadsParse,
       EntriesAreSnapshot, ChannelHasOwnContent, PushInv, Resting, InBatch, OrderInv

(* The batch is what was pending, each the last update of its data-id.     *)
LEMMA TakePendingData ==
  ASSUME TypeOK, Data, TakePending
  PROVE  Data'
<1>1. /\ worker = "taking" /\ DOMAIN pending' = {} /\ life \notin {"load", "failed", "stopped"}
      /\ UNCHANGED <<nacosVars, life, listening, permit, calling, pushed, entries, todo, snapshot,
                     channel, spoiled>>
      /\ DOMAIN pending \subseteq DataId
  BY DEF TakePending, NoUpdates, Data, ControlInv, sdkVars, TypeOK
<1>2. ControlInv' /\ ReadsAreWhole' /\ ChannelHasOwnContent'
  BY <1>1 DEF TakePending, Data, ControlInv, ReadsAreWhole, ReadsParse, EntriesAreSnapshot,
              ChannelHasOwnContent
<1>3. CASE DOMAIN pending = {} /\ worker' = "waiting"
  BY <1>1, <1>2, <1>3 DEF Data, PushInv, Resting, InBatch, OrderInv, nacosVars
<1>4. CASE worker' = "applying" /\ batch' = pending
  <2>1. PushInv'
    BY <1>1, <1>4 DEF Data, PushInv, Resting, InBatch
  <2>2. OrderInv'
    BY <1>1, <1>4 DEF Data, OrderInv, InBatch, nacosVars
  <2> QED
    BY <1>2, <2>1, <2>2 DEF Data
<1> QED
  BY <1>3, <1>4 DEF TakePending

LEMMA ApplyData ==
  ASSUME TypeOK, Data, Apply
  PROVE  Data'
<1>1. /\ worker = "applying" /\ life \notin {"load", "failed", "stopped"} /\ todo = {}
      /\ entries = snapshot
      /\ UNCHANGED <<nacosVars, life, listening, listenerVars, batch, channel>>
  BY DEF Apply, Data, ControlInv, ReadsAreWhole, EntriesAreSnapshot, sdkVars
<1>2. /\ \A d \in DOMAIN batch : Updated[d] = batch[d] /\ d \in DataId
      /\ \A d \in DataId \ DOMAIN batch : Updated[d] = entries[d]
      /\ DOMAIN Updated = DataId
  BY DEF Updated, TypeOK
<1>3. CASE Parses(Updated)
  <2>1. /\ entries' = Updated /\ snapshot' = Updated /\ todo' = DOMAIN batch
        /\ worker' = "publishing" /\ UNCHANGED spoiled
    BY <1>3 DEF Apply
  <2>2. ControlInv'
    BY <1>1, <2>1 DEF Data, ControlInv, listenerVars
  <2>3. ReadsAreWhole'
    BY <1>1, <1>3, <2>1 DEF Data, ReadsAreWhole, ReadsParse, Parses, EntriesAreSnapshot
  <2>4. ChannelHasOwnContent'
    BY <1>1, <1>2, <2>1 DEF Data, ChannelHasOwnContent
  <2>5. PushInv'
    BY <1>1, <1>2, <2>1 DEF Data, PushInv, Resting, InBatch, listenerVars
  <2>6. OrderInv'
    <3>1. \A d \in DataId :
            /\ entries[d].rev <= Updated[d].rev /\ Updated[d].rev <= server[d].rev
            /\ d \in DOMAIN pending => Updated[d].rev <= pending[d].rev
      BY <1>1, <1>2 DEF Data, OrderInv, InBatch, TypeOK, Content
    <3>2. \A d \in DataId :
            entries[d].rev \in Nat /\ Updated[d].rev \in Nat
              /\ \A e \in DataId : channel[e][d].rev \in Nat
      BY UpdatedIsConfig DEF TypeOK, Content
    <3> QED
      BY <1>1, <2>1, <3>1, <3>2
      DEF Data, OrderInv, InBatch, nacosVars, listenerVars
  <2> QED
    BY <2>2, <2>3, <2>4, <2>5, <2>6 DEF Data
<1>4. CASE ~Parses(Updated)
  <2>1. /\ worker' = "taking" /\ spoiled' = spoiled \cup {batch[d] : d \in DOMAIN batch}
        /\ UNCHANGED <<entries, snapshot, todo>>
    BY <1>4 DEF Apply
  <2>2. ControlInv' /\ ReadsAreWhole' /\ ChannelHasOwnContent'
    BY <1>1, <2>1 DEF Data, ControlInv, ReadsAreWhole, ReadsParse, EntriesAreSnapshot,
                      ChannelHasOwnContent, listenerVars
  <2>3. PushInv'
    BY <1>1, <2>1 DEF Data, PushInv, Resting, InBatch, listenerVars
  <2>4. OrderInv'
    BY <1>1, <2>1 DEF Data, OrderInv, InBatch, nacosVars, listenerVars
  <2> QED
    BY <2>2, <2>3, <2>4 DEF Data
<1> QED
  BY <1>3, <1>4

LEMMA PublishChannelData ==
  ASSUME TypeOK, Data, PublishChannel
  PROVE  Data'
<1>1. /\ worker = "publishing" /\ worker' \in {"publishing", "taking"}
      /\ worker' # "publishing" => todo' = {}
      /\ UNCHANGED <<nacosVars, life, listening, listenerVars, entries, batch, snapshot, spoiled>>
  BY DEF PublishChannel, sdkVars
<1>2. \A d \in DataId : channel'[d] \in {channel[d], snapshot}
  BY DEF PublishChannel, TypeOK
<1>3. ControlInv' /\ PushInv'
  BY <1>1 DEF Data, ControlInv, PushInv, Resting, InBatch, listenerVars
<1>4. ReadsAreWhole'
  <2>1. Parses(snapshot) /\ \A d \in DataId : Parses(channel[d])
    BY DEF Data, ReadsAreWhole, ReadsParse
  <2>2. \A d \in DataId : channel'[d] = channel[d] \/ channel'[d] = snapshot
    BY <1>2
  <2>3. ReadsParse'
    BY <1>1, <2>1, <2>2 DEF ReadsParse, Parses
  <2> QED
    BY <1>1, <2>3 DEF Data, ReadsAreWhole, EntriesAreSnapshot
<1>5. ChannelHasOwnContent'
  BY <1>1 DEF PublishChannel, Data, ChannelHasOwnContent, TypeOK
<1>6. OrderInv'
  <2>1. \A d, e \in DataId :
          /\ channel[e][d].rev <= snapshot[d].rev
          /\ snapshot[d].rev \in Nat /\ snapshot[d].rev <= snapshot[d].rev
    BY DEF Data, OrderInv, TypeOK, Content
  <2>2. \A d, e \in DataId : channel'[e][d].rev <= snapshot[d].rev
    BY <1>2, <2>1
  <2> QED
    BY <1>1, <2>2 DEF Data, OrderInv, InBatch, nacosVars, listenerVars
<1> QED
  BY <1>3, <1>4, <1>5, <1>6 DEF Data

LEMMA StepData ==
  ASSUME TypeOK, Data, [Next]_vars
  PROVE  Data'
<1>1. CASE UNCHANGED vars
  BY <1>1 DEF vars, nacosVars, sdkVars, listenerVars, workerVars, Data, ControlInv,
              ReadsAreWhole, ReadsParse, EntriesAreSnapshot, ChannelHasOwnContent, PushInv,
              Resting, InBatch, OrderInv
<1> QED
  BY <1>1, Steps, PublishData, NotifyData, NotifyOneData, LifeStepData, LoadData, FirstMergeData,
     WorkerEndsData, WakeData, TakePendingData, ApplyData, PublishChannelData

-----------------------------------------------------------------------------
THEOREM Invariance == Spec => []Inv
<1>1. Init => Inv
  BY InitTypeOK, InitListenersInv, InitData DEF Inv, Data
<1>2. Inv /\ [Next]_vars => Inv'
  BY StepTypeOK, StepListenersInv, StepData DEF Inv, Data
<1> QED
  BY <1>1, <1>2, PTL DEF Spec

(* The variables of a NacosConfig keep their types.                        *)
THEOREM Typed == Spec => []TypeOK
<1>1. Inv => TypeOK
  BY DEF Inv
<1> QED
  BY <1>1, Invariance, PTL

(* Whatever is pushed and batched, the application reads contents that     *)
(* parse as a whole, and a failed batch leaves nothing in the entries      *)
(* (apply_batch and its rollback).                                         *)
THEOREM OnlyWholeConfigs == Spec => []ReadsAreWhole
<1>1. Inv => ReadsAreWhole
  BY DEF Inv
<1> QED
  BY <1>1, Invariance, PTL

(* Who subscribes to one data-id misses no change of it.                   *)
THEOREM ChannelsKeepUp == Spec => []ChannelHasOwnContent
<1>1. Inv => ChannelHasOwnContent
  BY DEF Inv
<1> QED
  BY <1>1, Invariance, PTL

(* No update is lost between notify, the permit of notify_one and the      *)
(* batch that the worker takes.                                            *)
THEOREM NoPushIsLost == Spec => []PushIsSettled
<1>1. Inv => PushIsSettled
  BY DEF Inv, PushInv, PushIsSettled, Resting, InBatch
<1> QED
  BY <1>1, Invariance, PTL

(* The removal of listeners, by shutdown or by the cleanup of a failed     *)
(* build, leaves those only that could not be removed.                     *)
THEOREM NoListenerIsLeft == Spec => []ListenersRemoved
<1>1. Inv => ListenersRemoved
  BY DEF Inv, ListenersInv
<1> QED
  BY <1>1, Invariance, PTL

(* Only FirstMerge, Apply and PublishChannel change what is read, and each *)
(* replaces it by something newer.                                         *)
LEMMA StepNeverBack ==
  ASSUME Inv, [Next]_vars
  PROVE  \A d \in DataId :
           /\ snapshot'[d].rev >= snapshot[d].rev
           /\ \A e \in DataId : channel'[e][d].rev >= channel[e][d].rev
<1>1. \A d \in DataId :
        /\ snapshot[d].rev \in Nat /\ entries[d].rev \in Nat
        /\ \A e \in DataId : channel[e][d].rev \in Nat /\ channel[e][d].rev <= snapshot[d].rev
        /\ snapshot[d].rev <= entries[d].rev
  BY DEF Inv, TypeOK, OrderInv, Content
<1>2. CASE UNCHANGED <<snapshot, channel>>
  BY <1>1, <1>2
<1>3. CASE FirstMerge
  <2>1. CASE snapshot' = entries /\ channel' = [d \in DataId |-> entries]
    BY <1>1, <2>1
  <2> QED
    BY <1>2, <1>3, <2>1 DEF FirstMerge
<1>4. CASE Apply
  <2>1. CASE snapshot' = Updated /\ UNCHANGED channel
    <3>1. \A d \in DataId : Updated[d].rev \in Nat
      BY UpdatedIsConfig DEF Inv, Content
    <3>2. \A d \in DataId : d \in DOMAIN batch => entries[d].rev <= batch[d].rev
      BY <1>4 DEF Apply, Inv, OrderInv, InBatch
    <3>3. \A d \in DataId : entries[d].rev <= Updated[d].rev
      BY <1>1, <3>2 DEF Updated
    <3> QED
      BY <1>1, <2>1, <3>1, <3>3
  <2> QED
    BY <1>2, <1>4, <2>1 DEF Apply
<1>5. CASE PublishChannel
  <2>1. \A e \in DataId : channel'[e] = channel[e] \/ channel'[e] = snapshot
    BY <1>5 DEF PublishChannel, Inv, TypeOK
  <2> QED
    BY <1>1, <1>5, <2>1 DEF PublishChannel
<1>6. CASE \/ \E d \in DataId, kind \in Kind : Publish(d, kind)
           \/ \E d \in DataId : Notify(d) \/ NotifyOne(d)
           \/ UNCHANGED vars \/ Load \/ WorkerEnds \/ Wake \/ TakePending \/ LifeStep
  BY <1>2, <1>6, LifeStepKeeps
  DEF Publish, Notify, Tell, NotifyOne, vars, Load, WorkerEnds, Wake, TakePending, workerVars
<1> QED
  BY <1>3, <1>4, <1>5, <1>6, Steps

(* No reader of the snapshot or of a channel sees a data-id go back to an  *)
(* earlier content, though batches are rolled back and published one by    *)
(* one.                                                                    *)
THEOREM ReadersNeverGoBack == Spec => NeverBack
<1>1. Inv /\ [Next]_vars =>
        [\A d \in DataId :
           /\ snapshot'[d].rev >= snapshot[d].rev
           /\ \A e \in DataId : channel'[e][d].rev >= channel[e][d].rev]_vars
  BY StepNeverBack
<1> QED
  BY <1>1, Invariance, PTL DEF Spec, NeverBack

(* Once shutdown, or a build that failed, has returned, nothing that is    *)
(* read changes: it has joined the worker.                                 *)
THEOREM StandsStill == Spec => FrozenAfterShutdown
<1>1. Inv /\ [Next]_vars => [life = "stopped" => UNCHANGED <<entries, snapshot, channel>>]_vars
  <2> SUFFICES ASSUME Inv, [Next]_vars, life = "stopped"
               PROVE  UNCHANGED <<entries, snapshot, channel>>
    OBVIOUS
  <2>1. worker = "off"
    BY DEF Inv, ControlInv
  <2> QED
    BY <2>1, Steps, LifeStepKeeps
    DEF Publish, Notify, Tell, NotifyOne, vars, Load, FirstMerge, WorkerEnds, Wake, TakePending,
        Apply, PublishChannel, workerVars
<1> QED
  BY <1>1, Invariance, PTL DEF Spec, FrozenAfterShutdown
=============================================================================
