--------------------------- MODULE ServerProofs -----------------------------
(***************************************************************************)
(* First the runtime configuration alone, for any tunings, profiles and    *)
(* number of requests: its types, what leaving Safe Mode gives back within *)
(* one run of the program, and the order in which requests are carried out.*)
(* Then the server with its handlers, for any number of connections: it is *)
(* one client of the configuration, so all of that holds of the whole; no  *)
(* notice is lost, and no socket outlives StopServer.                      *)
(***************************************************************************)
EXTENDS Server, SequenceTheorems, TLAPS

\* A client about to send has room for one more request.
RoomToSend == client.pc = "submit" => sent < MaxRequests

\* A request the owner carries out has been sent.
ReallySent == owner.pc = "dispatch" => owner.request.id # 0

TInv == ConfigTypeOK /\ RoomToSend /\ ReallySent

\* The defaults are a configuration with Safe Mode off.
LEMMA DefaultIsConfig == DefaultConfig \in Config /\ DefaultConfig.safe = FALSE
  BY ConfigAssumption DEF DefaultConfig, Config

\* The overlay of a configuration is a configuration and keeps its Safe Mode flag.
LEMMA OverlayType ==
  ASSUME NEW cfg \in Config
  PROVE  Overlay(cfg) \in Config /\ Overlay(cfg).safe = cfg.safe
  BY DEF Overlay, Config

\* What a call does to the pair of configurations, whatever was stored.
LEMMA ApplyEffect ==
  ASSUME NEW c \in [user : Config, snapshot : Config], NEW cfg \in Config
  PROVE  /\ Apply(c, cfg) \in [user : Config, snapshot : Config]
         /\ Apply(c, cfg).user.safe = cfg.safe
         /\ cfg.safe /\ ~c.user.safe => Apply(c, cfg).snapshot = c.user
         /\ cfg.safe /\ c.user.safe => Apply(c, cfg).snapshot = c.snapshot
         /\ ~cfg.safe /\ c.user.safe => Apply(c, cfg).user.tuning = c.snapshot.tuning
<1>1. Overlay(cfg) \in Config /\ Overlay(cfg).safe = cfg.safe
  BY OverlayType
<1>2. c.user \in Config /\ c.snapshot \in Config
  OBVIOUS
<1>3. CASE cfg.safe /\ ~c.user.safe
  BY <1>1, <1>2, <1>3 DEF Apply, Config
<1>4. CASE ~cfg.safe /\ c.user.safe
  BY <1>1, <1>2, <1>4 DEF Apply, Config
<1>5. CASE cfg.safe = c.user.safe
  BY <1>1, <1>2, <1>5 DEF Apply, Config
<1>6. cfg.safe \in BOOLEAN /\ c.user.safe \in BOOLEAN
  BY <1>2 DEF Config
<1> QED
  BY <1>3, <1>4, <1>5, <1>6

\* What turning Safe Mode on or off stores, as the user configuration and snapshot.
LEMMA SetSafeModeEffect ==
  ASSUME NEW c \in [user : Config, snapshot : Config], NEW enabled \in BOOLEAN
  PROVE  /\ SetSafeMode(c, enabled) \in [user : Config, snapshot : Config]
         /\ SetSafeMode(c, enabled).user.safe = enabled
         /\ enabled /\ ~c.user.safe => SetSafeMode(c, enabled).snapshot = c.user
         /\ enabled /\ c.user.safe => SetSafeMode(c, enabled).snapshot = c.snapshot
         /\ ~enabled /\ c.user.safe =>
              SetSafeMode(c, enabled).user.tuning = c.snapshot.tuning
<1>2. c.user \in Config /\ c.snapshot \in Config /\ c.user.safe \in BOOLEAN
  BY DEF Config
<1>3. CASE enabled /\ ~c.user.safe
  BY <1>2, <1>3 DEF SetSafeMode, Config
<1>4. CASE ~enabled /\ c.user.safe
  BY <1>2, <1>4 DEF SetSafeMode, Config
<1>5. CASE c.user.safe = enabled
  BY <1>2, <1>5 DEF SetSafeMode, Config
<1> QED
  BY <1>2, <1>3, <1>4, <1>5

\* Revert stores the snapshot and leaves Safe Mode.
LEMMA RevertEffect ==
  ASSUME NEW c \in [user : Config, snapshot : Config]
  PROVE  /\ RevertToSnapshot(c) \in [user : Config, snapshot : Config]
         /\ ~RevertToSnapshot(c).user.safe
         /\ RevertToSnapshot(c).user.tuning = c.snapshot.tuning
  BY DEF RevertToSnapshot, Config

\* The effect common to every call that changes the stored configurations.
Keeps(c, d) ==
  /\ d \in [user : Config, snapshot : Config]
  /\ d.user.safe /\ ~c.user.safe => d.snapshot = c.user
  /\ d.user.safe /\ c.user.safe => d.snapshot = c.snapshot
  /\ ~d.user.safe /\ c.user.safe => d.user.tuning = c.snapshot.tuning

\* An edit never loses the tuning Safe Mode was entered with.
LEMMA ApplyKeeps ==
  ASSUME NEW c \in [user : Config, snapshot : Config], NEW cfg \in Config
  PROVE  Keeps(c, Apply(c, cfg))
<1> DEFINE d == Apply(c, cfg)
<1>1. /\ d \in [user : Config, snapshot : Config] /\ d.user.safe = cfg.safe
      /\ cfg.safe /\ ~c.user.safe => d.snapshot = c.user
      /\ cfg.safe /\ c.user.safe => d.snapshot = c.snapshot
      /\ ~cfg.safe /\ c.user.safe => d.user.tuning = c.snapshot.tuning
  BY ApplyEffect
<1> HIDE DEF d
<1>2. Keeps(c, d)
  BY <1>1 DEF Keeps
<1> QED
  BY <1>2 DEF d

\* None of the operations of the API or of the hotkeys loses it either.
LEMMA PerformKeeps ==
  ASSUME NEW c \in [user : Config, snapshot : Config], NEW r \in Requests
  PROVE  Keeps(c, Perform(c, r))
<1>1. r.cfg \in Config /\ r.cfg.safe \in BOOLEAN
  BY DEF Requests, Config
<1>2. CASE r.action = "apply"
  BY <1>1, <1>2, ApplyKeeps DEF Perform
<1>3. CASE r.action = "safemode"
  <2>1. Keeps(c, SetSafeMode(c, r.cfg.safe))
    BY <1>1, SetSafeModeEffect, Zenon DEF Keeps
  <2> QED
    BY <1>3, <2>1 DEF Perform
<1>4. CASE r.action = "revert"
  <2>1. Keeps(c, RevertToSnapshot(c))
    BY RevertEffect, Zenon DEF Keeps
  <2> QED
    BY <1>4, <2>1 DEF Perform
<1> QED
  BY <1>2, <1>3, <1>4 DEF Requests

-----------------------------------------------------------------------------
(* Types.                                                                  *)

\* The program starts with the types in order.
LEMMA TypesStart == Init => TInv
<1> USE DEF TInv, RoomToSend, ReallySent
<1> SUFFICES ASSUME Init PROVE TInv
  OBVIOUS
<1>1. file \in Config
  BY DefaultIsConfig DEF Init, Config, DefaultConfig
<1>2. config \in [user : Config, snapshot : Config]
  BY <1>1, DefaultIsConfig, ApplyEffect DEF Init, StartWith
<1>3. request \in Requests /\ sent \in 0..MaxRequests /\ before \in Config
      /\ restarts \in 0..MaxRestarts
  BY DefaultIsConfig, ConfigAssumption DEF Init, NoRequest, Requests
<1>4. messages \in Seq(1..MaxRequests) /\ applied \in Seq(1..MaxRequests)
  BY DEF Init
<1>5. client \in [pc : {"idle", "submit", "sent", "reread", "apply", "save"},
                  action : {"apply", "safemode", "revert"}, cfg : Config]
      /\ client.pc # "submit"
  BY DefaultIsConfig DEF Init, Idle
<1>6. owner \in [pc : {"pump", "dispatch", "apply", "save", "ended"},
                 message : 0..MaxRequests, request : Requests, cfg : Config, saves : BOOLEAN]
      /\ owner.pc = "pump"
  BY DefaultIsConfig, ConfigAssumption DEF Init, Pumping, NoRequest, Requests
<1> QED
  BY <1>1, <1>2, <1>3, <1>4, <1>5, <1>6 DEF ConfigTypeOK

\* No step disturbs the types, the room for a request or the numbering of what the
\* owner sees.
LEMMA TypesStep == TInv /\ [Next]_vars => TInv'
<1> USE DEF TInv, RoomToSend, ReallySent
<1> SUFFICES ASSUME TInv, [Next]_vars PROVE TInv'
  OBVIOUS
<1> USE DEF ConfigTypeOK
<1>0. /\ config.user \in Config /\ config.user.safe \in BOOLEAN
      /\ NoRequest \in Requests
      /\ Idle \in [pc : {"idle", "submit", "sent", "reread", "apply", "save"},
                   action : {"apply", "safemode", "revert"}, cfg : Config]
      /\ Idle.pc = "idle"
      /\ Pumping \in [pc : {"pump", "dispatch", "apply", "save", "ended"},
                      message : 0..MaxRequests, request : Requests,
                      cfg : Config, saves : BOOLEAN]
      /\ Pumping.pc = "pump"
  BY DefaultIsConfig, ConfigAssumption
  DEF Config, NoRequest, Requests, Idle, Pumping
<1>a. ASSUME NEW c, Keeps(config, c), Change(c)
      PROVE  config' \in [user : Config, snapshot : Config] /\ before' \in Config
  BY <1>0, <1>a DEF Keeps, Change
<1>b. ASSUME NEW id, NEW ok \in BOOLEAN, Answer(id, ok)
      PROVE  /\ client' \in [pc : {"idle", "submit", "sent", "reread", "apply", "save"},
                              action : {"apply", "safemode", "revert"}, cfg : Config]
             /\ request' \in Requests
             /\ client'.pc = "submit" => client.pc = "submit"
  BY <1>0, <1>b DEF Answer
<1>1. ASSUME NEW action \in {"apply", "safemode", "revert"}, NEW t \in Tunings,
             NEW safe \in BOOLEAN, ClientRequest(action, t, safe)
      PROVE  TInv'
  <2>1. client'.cfg \in Config /\ client'.pc = "submit" /\ client'.action = action
        /\ client' = [pc |-> "submit", action |-> action, cfg |-> client'.cfg]
    BY <1>0, <1>1 DEF ClientRequest, ClientReads, Config
  <2> QED
    BY <1>1, <2>1 DEF ClientRequest, ClientReads, ClientOnly
<1>2. CASE Submit
  <2>1. sent + 1 \in 1..MaxRequests
    BY <1>2, ConfigAssumption DEF Submit
  <2>2. request' \in Requests
    BY <1>2, <2>1 DEF Submit, Requests
  <2>3. messages' \in Seq(1..MaxRequests)
    BY <1>2, <2>1, AppendProperties DEF Submit
  <2> QED
    BY <1>2, <2>1, <2>2, <2>3 DEF Submit, ClientOnly
<1>3. CASE Timeout
  BY <1>0, <1>3 DEF Timeout, ClientOnly
<1>4. ASSUME NEW p \in Profiles, ClientEdit(p)
      PROVE  TInv'
  <2>1. [config.user EXCEPT !.profile = p] \in Config
    BY <1>0 DEF Config
  <2> QED
    BY <1>4, <2>1 DEF ClientEdit, ClientCopies, ClientOnly
<1>5. CASE ClientApply
  <2>1. Keeps(config, Apply(config, client.cfg))
    BY ApplyKeeps
  <2> QED
    BY <1>5, <2>1, <1>a DEF ClientApply, ClientOnly
<1>6. CASE ClientReread
  BY <1>0, <1>6 DEF ClientReread, ClientOnly
<1>7. CASE ClientSave
  BY <1>0, <1>7 DEF ClientSave, ClientOnly
<1>8. CASE DispatchBegin
  <2>1. Head(messages) \in 1..MaxRequests /\ Tail(messages) \in Seq(1..MaxRequests)
    BY <1>8, HeadTailProperties DEF DispatchBegin
  <2>2. CASE IsCurrent(Head(messages))
    <3>1. owner' = [owner EXCEPT !.pc = "dispatch", !.message = Head(messages),
                                 !.request = request]
      BY <1>8, <2>2 DEF DispatchBegin
    <3>2. request.id # 0
      BY <2>1, <2>2 DEF IsCurrent
    <3>3. /\ owner' \in [pc : {"pump", "dispatch", "apply", "save", "ended"},
                         message : 0..MaxRequests, request : Requests,
                         cfg : Config, saves : BOOLEAN]
          /\ owner'.request.id # 0
      <4> DEFINE h == Head(messages)
      <4>1. h \in 0..MaxRequests /\ owner' = [owner EXCEPT !.pc = "dispatch", !.message = h,
                                                            !.request = request]
        BY <2>1, <3>1
      <4> HIDE DEF h
      <4> QED
        BY <3>2, <4>1
    <3>4. messages' \in Seq(1..MaxRequests)
      BY <1>8, <2>1 DEF DispatchBegin
    <3> QED
      BY <1>8, <3>3, <3>4 DEF DispatchBegin
  <2>3. CASE ~IsCurrent(Head(messages))
    BY <1>8, <2>1, <2>3 DEF DispatchBegin
  <2> QED
    BY <2>2, <2>3
<1>9. CASE DispatchRefused
  BY <1>0, <1>9, <1>b DEF DispatchRefused
<1>10. CASE DispatchDone
  <2>1. Keeps(config, Perform(config, owner.request))
    BY PerformKeeps
  <2>2. config' \in [user : Config, snapshot : Config] /\ before' \in Config
    BY <1>10, <2>1, <1>a DEF DispatchDone
  <2>3. owner.request.id \in 1..MaxRequests
    BY <1>10, ConfigAssumption DEF DispatchDone, Requests
  <2>4. applied' \in Seq(1..MaxRequests)
    BY <1>10, <2>3, AppendProperties DEF DispatchDone
  <2> QED
    BY <1>0, <1>10, <1>b, <2>2, <2>4 DEF DispatchDone
<1>11. ASSUME NEW p \in Profiles, NEW saves \in BOOLEAN, Hotkey(p, saves)
       PROVE  TInv'
  <2>1. [config.user EXCEPT !.profile = p] \in Config
    BY <1>0 DEF Config
  <2> QED
    BY <1>11, <2>1 DEF Hotkey
<1>12. CASE HotkeyApply
  <2>1. Keeps(config, Apply(config, owner.cfg))
    BY ApplyKeeps
  <2> QED
    BY <1>0, <1>12, <2>1, <1>a DEF HotkeyApply
<1>13. CASE HotkeySave
  BY <1>0, <1>13 DEF HotkeySave
<1>14. CASE FinalSave
  BY <1>0, <1>14 DEF FinalSave, SaveAtTheEnd
<1>15. CASE UNCHANGED vars
  BY <1>15 DEF vars
<1> QED
  BY <1>1, <1>2, <1>3, <1>4, <1>5, <1>6, <1>7, <1>8, <1>9, <1>10, <1>11, <1>12, <1>13,
     <1>14, <1>15 DEF Next, ClientStep, OwnerStep

\* The types of the state, that a request is numbered only while there is room, and
\* that what the owner sees was sent.
THEOREM ConfigTypes == Spec => []TInv
BY TypesStart, TypesStep, PTL DEF Spec

(* ConfigTypeOK, for any tunings, profiles and number of requests.         *)
THEOREM ConfigTypeCorrect == Spec => []ConfigTypeOK
BY ConfigTypes, PTL DEF TInv

-----------------------------------------------------------------------------
(* Safe Mode.                                                              *)

\* While Safe Mode is on, the snapshot is what it was entered with.
SnapshotIsBefore == config.user.safe => config.snapshot = before

\* While Safe Mode is on the snapshot is the tuning it was entered with.
THEOREM SnapshotKept == Spec => []SnapshotIsBefore
<1>1. Init => SnapshotIsBefore
  <2> SUFFICES ASSUME Init PROVE ~config.user.safe
    BY DEF SnapshotIsBefore
  <2>1. file \in Config /\ ~file.safe
    BY DefaultIsConfig DEF Init, Config, DefaultConfig
  <2> QED
    BY <2>1, DefaultIsConfig, ApplyEffect DEF Init, StartWith
<1>2. TInv /\ SnapshotIsBefore /\ [Next]_vars => SnapshotIsBefore'
  <2> SUFFICES ASSUME TInv, SnapshotIsBefore, [Next]_vars PROVE SnapshotIsBefore'
    OBVIOUS
  <2> USE DEF TInv, SnapshotIsBefore
  <2>a. ASSUME NEW c, Keeps(config, c), Change(c)
        PROVE  SnapshotIsBefore'
    <3>1. config.user.safe \in BOOLEAN /\ c.user.safe \in BOOLEAN
      BY <2>a DEF ConfigTypeOK, Keeps, Config
    <3> QED
      BY <2>a, <3>1 DEF Keeps, Change
  <2>1. CASE ClientApply
    <3>1. Keeps(config, Apply(config, client.cfg))
      BY ApplyKeeps DEF ConfigTypeOK
    <3> QED
      BY <2>1, <2>a, <3>1 DEF ClientApply
  <2>2. CASE HotkeyApply
    <3>1. Keeps(config, Apply(config, owner.cfg))
      BY ApplyKeeps DEF ConfigTypeOK
    <3> QED
      BY <2>2, <2>a, <3>1 DEF HotkeyApply
  <2>3. CASE DispatchDone
    <3>1. Keeps(config, Perform(config, owner.request))
      BY PerformKeeps DEF ConfigTypeOK
    <3> QED
      BY <2>3, <2>a, <3>1 DEF DispatchDone
  <2>4. CASE UNCHANGED <<config, before>>
    BY <2>4
  <2> QED
    BY <2>1, <2>2, <2>3, <2>4
    DEF Next, ClientStep, OwnerStep, ClientRequest, ClientReads, Submit, Timeout,
        ClientEdit, ClientCopies, ClientReread, ClientSave, DispatchBegin, DispatchRefused,
        Hotkey, HotkeySave, FinalSave, SaveAtTheEnd, vars
<1> QED
  BY <1>1, <1>2, ConfigTypes, PTL DEF Spec

(* SafeModeRestores, within one run of the program.                        *)
THEOREM SafeModeGivesBack == Spec => SafeModeRestores
<1>1. TInv /\ SnapshotIsBefore /\ [Next]_vars
      => [config.user.safe /\ ~config'.user.safe => config'.user.tuning = before.tuning]_vars
  <2> SUFFICES ASSUME TInv, SnapshotIsBefore, [Next]_vars, config.user.safe,
                      ~config'.user.safe
               PROVE  config'.user.tuning = before.tuning
    OBVIOUS
  <2>a. ASSUME NEW c, Keeps(config, c), Change(c)
        PROVE  config'.user.tuning = before.tuning
    BY <2>a DEF Keeps, Change, SnapshotIsBefore
  <2>1. CASE ClientApply
    <3>1. Keeps(config, Apply(config, client.cfg))
      BY ApplyKeeps DEF TInv, ConfigTypeOK
    <3> QED
      BY <2>1, <2>a, <3>1 DEF ClientApply
  <2>2. CASE HotkeyApply
    <3>1. Keeps(config, Apply(config, owner.cfg))
      BY ApplyKeeps DEF TInv, ConfigTypeOK
    <3> QED
      BY <2>2, <2>a, <3>1 DEF HotkeyApply
  <2>3. CASE DispatchDone
    <3>1. Keeps(config, Perform(config, owner.request))
      BY PerformKeeps DEF TInv, ConfigTypeOK
    <3> QED
      BY <2>3, <2>a, <3>1 DEF DispatchDone
  <2> QED
    BY <2>1, <2>2, <2>3
    DEF Next, ClientStep, OwnerStep, ClientRequest, ClientReads, Submit, Timeout,
        ClientEdit, ClientCopies, ClientReread, ClientSave, DispatchBegin, DispatchRefused,
        Hotkey, HotkeySave, FinalSave, SaveAtTheEnd, vars
<1> QED
  BY <1>1, ConfigTypes, SnapshotKept, PTL DEF Spec, SafeModeRestores

-----------------------------------------------------------------------------
(* Order.                                                                  *)

(* Ids on their way rise towards "sent"; the request being carried out is  *)
(* younger than all applied ones and older than all messages.              *)
Order ==
  /\ \A i, j \in DOMAIN messages : i < j => messages[i] < messages[j]
  /\ \A i \in DOMAIN messages : messages[i] <= sent
  /\ request.id <= sent
  /\ \A i \in DOMAIN applied : applied[i] <= sent
  /\ \A i \in DOMAIN applied, j \in DOMAIN messages : applied[i] < messages[j]
  /\ owner.pc = "dispatch" =>
       /\ owner.request.id <= sent
       /\ \A i \in DOMAIN applied : applied[i] < owner.request.id
       /\ \A j \in DOMAIN messages : owner.request.id < messages[j]

OrderInv == Order /\ AppliedOnceInOrder

\* Requests are applied in the order they were sent, each at most once.
THEOREM OrderKept == Spec => []OrderInv
<1> USE DEF OrderInv, Order, AppliedOnceInOrder
<1>1. Init => OrderInv
  BY DEF Init, NoRequest, Pumping
<1>2. TInv /\ TInv' /\ OrderInv /\ [Next]_vars => OrderInv'
  <2> SUFFICES ASSUME TInv, TInv', OrderInv, [Next]_vars PROVE OrderInv'
    OBVIOUS
  <2>0. /\ sent \in Nat /\ request.id \in Nat /\ owner.request.id \in Nat
        /\ messages \in Seq(Nat) /\ applied \in Seq(Nat)
        /\ NoRequest.id = 0
        /\ Pumping.pc = "pump"
    BY ConfigAssumption DEF TInv, ConfigTypeOK, Requests, NoRequest, Pumping
  <2>a. ASSUME NEW id, NEW ok \in BOOLEAN, Answer(id, ok)
        PROVE  request'.id <= sent
    BY <2>0, <2>a DEF Answer
  <2>1. CASE Submit
    <3>1. /\ sent' = sent + 1 /\ request'.id = sent + 1
          /\ messages' = Append(messages, sent + 1)
          /\ owner' = owner /\ applied' = applied
      BY <2>1 DEF Submit, ClientOnly
    <3>2. \A j \in DOMAIN messages' :
            \/ j \in DOMAIN messages /\ messages'[j] = messages[j]
            \/ j = Len(messages) + 1 /\ messages'[j] = sent + 1
      BY <2>0, <3>1
    <3>3. DOMAIN messages = 1..Len(messages) /\ Len(messages) \in Nat
      BY <2>0
    <3>4. DOMAIN messages' = 1..(Len(messages) + 1)
      BY <2>0, <3>1
    <3>5. \A j \in DOMAIN messages : messages[j] \in Nat
      BY <2>0
    <3>6. \A i \in DOMAIN applied : applied[i] \in Nat
      BY <2>0
    <3> HIDE DEF OrderInv, Order
    <3>7. \A i, j \in DOMAIN messages' : i < j => messages'[i] < messages'[j]
      <4> SUFFICES ASSUME NEW i \in DOMAIN messages', NEW j \in DOMAIN messages', i < j
                   PROVE  messages'[i] < messages'[j]
        OBVIOUS
      <4>1. i \in DOMAIN messages /\ messages'[i] = messages[i]
        BY <3>2, <3>3, <3>4
      <4>2. messages[i] \in Nat /\ messages[i] <= sent
        BY <3>5, <4>1 DEF OrderInv, Order
      <4>3. CASE j \in DOMAIN messages /\ messages'[j] = messages[j]
        BY <4>1, <4>3 DEF OrderInv, Order
      <4>4. CASE messages'[j] = sent + 1
        BY <2>0, <4>1, <4>2, <4>4
      <4> QED
        BY <3>2, <4>3, <4>4
    <3>8. \A i \in DOMAIN messages' : messages'[i] <= sent'
      BY <2>0, <3>1, <3>2, <3>5 DEF OrderInv, Order
    <3>9. \A i \in DOMAIN applied, j \in DOMAIN messages' : applied[i] < messages'[j]
      <4> SUFFICES ASSUME NEW i \in DOMAIN applied, NEW j \in DOMAIN messages'
                   PROVE  applied[i] < messages'[j]
        OBVIOUS
      <4>1. applied[i] \in Nat /\ applied[i] <= sent
        BY <3>6 DEF OrderInv, Order
      <4>2. CASE j \in DOMAIN messages /\ messages'[j] = messages[j]
        BY <4>2 DEF OrderInv, Order
      <4>3. CASE messages'[j] = sent + 1
        BY <2>0, <4>1, <4>3
      <4> QED
        BY <3>2, <4>2, <4>3
    <3>10. owner.pc = "dispatch" =>
             \A j \in DOMAIN messages' : owner.request.id < messages'[j]
      BY <2>0, <3>2, <3>5 DEF OrderInv, Order
    <3>11. \A i \in DOMAIN applied : applied[i] <= sent + 1
      BY <2>0, <3>6 DEF OrderInv, Order
    <3>12. request'.id <= sent'
      BY <2>0, <3>1
    <3>13. /\ \A i \in DOMAIN applied' : applied'[i] <= sent'
           /\ \A i \in DOMAIN applied', j \in DOMAIN messages' : applied'[i] < messages'[j]
      BY <3>1, <3>9, <3>11
    <3>14. owner'.pc = "dispatch" =>
             /\ owner'.request.id <= sent'
             /\ \A i \in DOMAIN applied' : applied'[i] < owner'.request.id
             /\ \A j \in DOMAIN messages' : owner'.request.id < messages'[j]
      <4>1. owner.pc = "dispatch" => owner.request.id <= sent + 1
        BY <2>0 DEF OrderInv, Order
      <4> QED
        BY <3>1, <3>10, <4>1 DEF OrderInv, Order
    <3>15. Order'
      BY <3>7, <3>8, <3>12, <3>13, <3>14 DEF Order
    <3>16. AppliedOnceInOrder'
      BY <3>1 DEF OrderInv, AppliedOnceInOrder
    <3> QED
      BY <3>15, <3>16 DEF OrderInv
  <2>2. CASE DispatchBegin
    <3>1. /\ messages # <<>> /\ messages' = Tail(messages)
          /\ applied' = applied /\ sent' = sent /\ request' = request
      BY <2>2 DEF DispatchBegin
    <3>2. \A i \in DOMAIN messages' : i + 1 \in DOMAIN messages
                                       /\ messages'[i] = messages[i + 1]
      BY <2>0, <3>1
    <3>3. 1 \in DOMAIN messages /\ Head(messages) = messages[1]
      BY <2>0, <3>1
    <3>4. CASE IsCurrent(Head(messages))
      <4>1. owner'.request.id = messages[1]
        BY <2>2, <3>3, <3>4 DEF DispatchBegin, IsCurrent, TInv, ConfigTypeOK
      <4> QED
        BY <2>0, <3>1, <3>2, <3>3, <4>1
    <3>5. CASE ~IsCurrent(Head(messages))
      <4>1. owner' = owner
        BY <2>2, <3>5 DEF DispatchBegin
      <4> QED
        BY <2>0, <3>1, <3>2, <3>3, <4>1
    <3> QED
      BY <3>4, <3>5
  <2>3. CASE DispatchRefused
    <3>1. owner'.pc = "pump" /\ request'.id <= sent
          /\ UNCHANGED <<messages, sent, applied>>
      BY <2>0, <2>3, <2>a DEF DispatchRefused
    <3> QED
      BY <3>1
  <2>4. CASE DispatchDone
    <3>1. /\ owner.pc = "dispatch" /\ owner'.pc = "pump" /\ request'.id <= sent
          /\ UNCHANGED <<messages, sent>>
          /\ applied' = Append(applied, owner.request.id)
      BY <2>0, <2>4, <2>a DEF DispatchDone
    <3> DEFINE last == Len(applied) + 1
    <3>2. /\ DOMAIN applied' = 1..last /\ last \in Nat /\ DOMAIN applied = 1..(last - 1)
          /\ applied'[last] = owner.request.id
          /\ \A i \in DOMAIN applied : applied'[i] = applied[i]
          /\ \A i \in DOMAIN applied' : i \in DOMAIN applied \/ i = last
      BY <2>0, <3>1
    <3> HIDE DEF last, OrderInv, Order, AppliedOnceInOrder
    <3>3. /\ \A i \in DOMAIN applied' : applied'[i] <= sent
          /\ \A i \in DOMAIN applied', j \in DOMAIN messages : applied'[i] < messages[j]
      BY <3>1, <3>2 DEF OrderInv, Order
    <3>4. Order'
      BY <3>1, <3>3 DEF OrderInv, Order
    <3>5. \A i, j \in DOMAIN applied' : i < j => applied'[i] < applied'[j]
      <4> SUFFICES ASSUME NEW i \in DOMAIN applied', NEW j \in DOMAIN applied', i < j
                   PROVE  applied'[i] < applied'[j]
        OBVIOUS
      <4>1. i \in DOMAIN applied
        BY <3>2
      <4>2. CASE j \in DOMAIN applied
        BY <3>2, <4>1, <4>2 DEF OrderInv, AppliedOnceInOrder
      <4>3. CASE j = last
        BY <3>1, <3>2, <4>1, <4>3 DEF OrderInv, Order
      <4> QED
        BY <3>2, <4>2, <4>3
    <3>6. AppliedOnceInOrder'
      BY <3>5 DEF AppliedOnceInOrder
    <3> QED
      BY <3>4, <3>6 DEF OrderInv
  <2>5. CASE Timeout
    <3>1. request'.id = 0 /\ UNCHANGED <<owner, messages, sent, applied>>
      BY <2>0, <2>5 DEF Timeout, ClientOnly
    <3> QED
      BY <2>0, <3>1
  <2>6. CASE HotkeyApply \/ HotkeySave \/ FinalSave
    <3>1. owner'.pc # "dispatch" /\ UNCHANGED <<request, messages, sent, applied>>
      BY <2>0, <2>6 DEF HotkeyApply, HotkeySave, FinalSave, SaveAtTheEnd, TInv, ConfigTypeOK
    <3> QED
      BY <3>1
  <2>7. ASSUME NEW p \in Profiles, NEW saves \in BOOLEAN, Hotkey(p, saves)
        PROVE  OrderInv'
    <3>1. owner'.pc # "dispatch" /\ UNCHANGED <<request, messages, sent, applied>>
      BY <2>7 DEF Hotkey, TInv, ConfigTypeOK
    <3> QED
      BY <3>1
  <2>8. CASE UNCHANGED <<owner, request, messages, sent, applied>>
    BY <2>8
  <2> QED
    BY <2>1, <2>2, <2>3, <2>4, <2>5, <2>6, <2>7, <2>8
    DEF Next, ClientStep, OwnerStep, ClientRequest, ClientReads, ClientEdit, ClientCopies,
        ClientApply, ClientReread, ClientSave, ClientOnly, vars
<1> QED
  BY <1>1, <1>2, ConfigTypes, PTL DEF Spec

(* AppliedOnceInOrder, for any number of requests and time-outs.           *)
THEOREM CarriedOutOnce == Spec => []AppliedOnceInOrder
BY OrderKept, PTL DEF OrderInv

-----------------------------------------------------------------------------
(* The server.                                                             *)

\* The stages in which a handler works on the configuration.
Transacting == {"apply", "safemode", "revert", "edit"}

\* s_apiMutex: the handler that holds it is the one being served, and only it is the
\* client of the configuration.
MutexHeld ==
  /\ \A c \in Conns : stage[c] \in Serving => serving = c
  /\ client.pc # "idle" => serving \in Conns /\ stage[serving] \in Transacting

\* What has been joined has ended, and the last save comes after all of it.
StopInOrder ==
  /\ owner.pc = "ended" => stop = "done"
  /\ stop \in {"worker", "done"} => listener = "ended"
  /\ listener \in {"worker", "streams"} => HandlersEnded
  /\ listener = "ended" => \A c \in Conns : stage[c] \in {"free", "closed"}

SInv == ServerTypeOK /\ MutexHeld /\ StopInOrder /\ AnnouncementPending

-----------------------------------------------------------------------------
(* What the steps of the configuration leave alone.                        *)

\* A step of the owner begins no transaction and does not end the owner.
LEMMA OwnerLeavesClient ==
  ASSUME TInv,
         \/ DispatchBegin \/ DispatchRefused \/ DispatchDone \/ HotkeyApply \/ HotkeySave
         \/ \E p \in Profiles, saves \in BOOLEAN : Hotkey(p, saves)
  PROVE  /\ client'.pc # "idle" => client.pc # "idle"
         /\ owner.pc # "ended" /\ owner'.pc # "ended"
<1> USE DEF TInv, ConfigTypeOK
<1>1. ASSUME NEW id, NEW ok, Answer(id, ok)
      PROVE  client'.pc # "idle" => client.pc # "idle"
  BY <1>1 DEF Answer, Idle
<1>2. CASE DispatchBegin
  BY <1>2 DEF DispatchBegin
<1>3. CASE DispatchRefused
  BY <1>3, <1>1 DEF DispatchRefused, Pumping
<1>4. CASE DispatchDone
  BY <1>4, <1>1 DEF DispatchDone, Pumping
<1>5. CASE HotkeyApply
  BY <1>5 DEF HotkeyApply, Pumping
<1>6. CASE HotkeySave
  BY <1>6 DEF HotkeySave, Pumping
<1>7. CASE \E p \in Profiles, saves \in BOOLEAN : Hotkey(p, saves)
  BY <1>7 DEF Hotkey
<1> QED
  BY <1>2, <1>3, <1>4, <1>5, <1>6, <1>7

\* A step of the client leaves the owner alone; the save is its last.
LEMMA ClientLeavesOwner ==
  ASSUME TInv, Submit \/ Timeout \/ ClientApply \/ ClientReread \/ ClientSave
  PROVE  /\ owner' = owner
         /\ client.pc = "save" => client'.pc = "idle"
  BY DEF Submit, Timeout, ClientApply, ClientReread, ClientSave, ClientOnly, Idle

-----------------------------------------------------------------------------
\* The bookkeeping of the mutex, the stop and the notices holds at the start.
LEMMA ServerStart == ServerInit => SInv
<1> SUFFICES ASSUME ServerInit PROVE SInv
  OBVIOUS
<1>1. client.pc = "idle" /\ owner.pc = "pump"
  BY DEF ServerInit, Init, Idle, Pumping
<1>2. \A c \in Conns : stage[c] = "free"
  BY DEF ServerInit
<1>3. ServerTypeOK
  BY DEF ServerInit, ServerTypeOK
<1> QED
  BY <1>1, <1>2, <1>3 DEF ServerInit, SInv, MutexHeld, StopInOrder, AnnouncementPending,
                          Serving

\* Each step of the server that touches the configuration is one of its steps.
LEMMA ServerStepsConfig == TInv /\ SInv /\ [ServerNext]_allVars => [Next]_vars
<1> SUFFICES ASSUME TInv, SInv, [ServerNext]_allVars PROVE [Next]_vars
  OBVIOUS
<1>1. ASSUME NEW c \in Conns, Lock(c) PROVE [Next]_vars
  <2>1. owner.pc # "ended"
    BY <1>1 DEF Lock, SInv, StopInOrder
  <2> QED
    BY <1>1, <2>1 DEF Lock, ConfigIdle, ClientRequest, ClientEdit, Next, ClientStep
<1>2. ASSUME NEW c \in Conns, Transact(c) \/ TransactTimeout(c) PROVE [Next]_vars
  BY <1>2 DEF Transact, TransactTimeout, Next, ClientStep
<1>3. ASSUME NEW c \in Conns,
             \/ Accept(c) \/ Receive(c) \/ Transacted(c) \/ SuspendTimeout(c) \/ Announce(c)
             \/ Respond(c) \/ Upgrade(c) \/ Toggle(c)
      PROVE  UNCHANGED vars
  BY <1>3 DEF Accept, Receive, Transacted, SuspendTimeout, Announce, Respond, Upgrade,
              Toggle, ConfigIdle
<1>4. ASSUME SseWorker \/ Listener \/ OwnerNotifies \/ StopServer \/ StopJoins
      PROVE  UNCHANGED vars
  BY <1>4 DEF SseWorker, SseLoop, SseSnapshot, SseLabel, SseSend, Listener, ListenerStops,
              JoinHandlers, JoinWorker, CloseStreams, OwnerNotifies, StopServer,
              StopJoins, ConfigIdle
<1>5. ASSUME Pump PROVE Next
  BY <1>5 DEF Pump, Next, OwnerStep
<1>6. ASSUME LastSave PROVE Next
  <2>1. client.pc = "idle"
    BY <1>6 DEF LastSave, SInv, ServerTypeOK, MutexHeld, StopInOrder, Transacting
  <2> QED
    BY <1>6, <2>1 DEF LastSave, FinalSave, Next, OwnerStep
<1>7. ASSUME UNCHANGED allVars PROVE UNCHANGED vars
  BY <1>7 DEF allVars
<1> QED
  BY <1>1, <1>2, <1>3, <1>4, <1>5, <1>6, <1>7 DEF ServerNext, HandleClient

\* The bookkeeping survives every step, whatever the stop comes between.
LEMMA ServerStep == TInv /\ SInv /\ [ServerNext]_allVars => SInv'
<1> SUFFICES ASSUME TInv, SInv, [ServerNext]_allVars PROVE SInv'
  OBVIOUS
<1> USE DEF SInv, ServerTypeOK, MutexHeld, StopInOrder, AnnouncementPending,
            HandlersEnded, Serving, Transacting, NoNotice, Streams
<1>1. ASSUME NEW c \in Conns, Accept(c) PROVE SInv'
  BY <1>1 DEF Accept, Go, ConfigIdle, vars
<1>2. ASSUME NEW c \in Conns, Receive(c) PROVE SInv'
  BY <1>2 DEF Receive, Go, ConfigIdle, vars
<1>3. ASSUME NEW c \in Conns, Lock(c) PROVE SInv'
  <2>1. owner' = owner
    BY <1>3 DEF Lock, ConfigIdle, vars, ClientReads, ClientCopies, ClientOnly
  <2>2. \E to \in Serving : Go(c, to) /\ (client' # client => to \in Transacting)
    BY <1>3 DEF Lock, ConfigIdle, vars
  <2>3. client.pc = "idle"
    BY <1>3, ServerAssumption DEF Lock
  <2>4. listener \in {"accept", "handlers"}
    BY <1>3 DEF Lock
  <2>5. \A d \in Conns : stage[d] \notin Serving
    BY <1>3, ServerAssumption DEF Lock
  <2> QED
    BY <1>3, <2>1, <2>2, <2>3, <2>4, <2>5 DEF Lock, Go
<1>4. ASSUME NEW c \in Conns, Transact(c) PROVE SInv'
  <2>1. owner' = owner /\ (client.pc = "save" => client'.pc = "idle")
    BY <1>4, ClientLeavesOwner DEF Transact
  <2>2. listener \in {"accept", "handlers"}
    BY <1>4 DEF Transact
  <2>3. CASE stage[c] = "apply" /\ client.pc = "save"
    BY <1>4, <2>1, <2>2, <2>3 DEF Transact, Go
  <2>4. CASE ~(stage[c] = "apply" /\ client.pc = "save")
    BY <1>4, <2>1, <2>2, <2>4 DEF Transact
  <2> QED
    BY <2>3, <2>4
<1>5. ASSUME NEW c \in Conns, TransactTimeout(c) PROVE SInv'
  <2>1. owner' = owner /\ client.pc = "sent"
    BY <1>5, ClientLeavesOwner DEF TransactTimeout, Timeout
  <2> QED
    BY <1>5, <2>1 DEF TransactTimeout
<1>6. ASSUME NEW c \in Conns, Transacted(c) \/ SuspendTimeout(c) PROVE SInv'
  BY <1>6 DEF Transacted, SuspendTimeout, Go, ConfigIdle, vars
<1>7. ASSUME NEW c \in Conns, Announce(c) \/ Toggle(c) PROVE SInv'
  BY <1>7 DEF Announce, Toggle, NotifyStateChanged, Go, ConfigIdle, vars
<1>8. ASSUME NEW c \in Conns, Respond(c) \/ Upgrade(c) PROVE SInv'
  BY <1>8 DEF Respond, Upgrade, Go, ConfigIdle, vars
<1>9. ASSUME SseLoop \/ SseSnapshot \/ SseLabel PROVE SInv'
  BY <1>9 DEF SseLoop, SseSnapshot, SseLabel, ConfigIdle, vars
<1>10. ASSUME SseSend PROVE SInv'
  BY <1>10 DEF SseSend, FlagAfterSend, ConfigIdle, vars
<1>11. ASSUME ListenerStops \/ JoinHandlers \/ JoinWorker PROVE SInv'
  BY <1>11 DEF ListenerStops, JoinHandlers, JoinWorker, ConfigIdle, vars
<1>12. ASSUME CloseStreams PROVE SInv'
  BY <1>12 DEF CloseStreams, ConfigIdle, vars
<1>13. ASSUME Pump PROVE SInv'
  BY <1>13, OwnerLeavesClient DEF Pump
<1>14. ASSUME OwnerNotifies \/ StopServer \/ StopJoins PROVE SInv'
  BY <1>14 DEF OwnerNotifies, NotifyStateChanged, StopServer, StopJoins, ConfigIdle, vars
<1>15. ASSUME LastSave PROVE SInv'
  BY <1>15 DEF LastSave, SaveAtTheEnd, serverVars
<1>16. ASSUME UNCHANGED allVars PROVE SInv'
  BY <1>16 DEF allVars, vars, serverVars
<1> QED
  BY <1>1, <1>2, <1>3, <1>4, <1>5, <1>6, <1>7, <1>8, <1>9, <1>10, <1>11, <1>12, <1>13,
     <1>14, <1>15, <1>16 DEF ServerNext, HandleClient, SseWorker, Listener

-----------------------------------------------------------------------------
\* The types of the configuration and the bookkeeping of the server hold together.
LEMMA ServerKept == ServerSpec => [](TInv /\ SInv)
<1>1. ServerInit => TInv /\ SInv
  BY ServerStart, TypesStart DEF ServerInit
<1>2. TInv /\ SInv /\ [ServerNext]_allVars => (TInv /\ SInv)'
  BY ServerStep, ServerStepsConfig, TypesStep
<1> QED
  BY <1>1, <1>2, PTL DEF ServerSpec

(* ImplementsConfig: for any number of connections, wherever the stop      *)
(* comes, the handlers behind s_apiMutex are one client at a time, and     *)
(* none is left when the owner saves for the last time.                    *)
THEOREM ServerIsOneClient == ServerSpec => ImplementsConfig
<1>1. ServerInit => Init
  BY DEF ServerInit
<1> QED
  BY <1>1, ServerKept, ServerStepsConfig, PTL DEF ServerSpec, ImplementsConfig, Spec

(* AppliedOnceInOrder, with every handler, time-out and stop.              *)
THEOREM ServedOnceInOrder == ServerSpec => []AppliedOnceInOrder
BY ServerIsOneClient, CarriedOutOnce, PTL DEF ImplementsConfig

(* SafeModeRestores, with every handler, time-out and stop.                *)
THEOREM ServedSafeModeGivesBack == ServerSpec => SafeModeRestores
BY ServerIsOneClient, SafeModeGivesBack, PTL DEF ImplementsConfig

(* AnnouncementPending, for any number of streams.                         *)
THEOREM NoNoticeLost == ServerSpec => []AnnouncementPending
BY ServerKept, PTL DEF SInv

(* NothingLeftOpen, for any number of connections and in whatever stage    *)
(* the stop finds each of them.                                            *)
THEOREM SocketsClosed == ServerSpec => []NothingLeftOpen
<1>1. SInv => NothingLeftOpen
  BY DEF SInv, StopInOrder, NothingLeftOpen
<1> QED
  BY <1>1, ServerKept, PTL
=============================================================================
