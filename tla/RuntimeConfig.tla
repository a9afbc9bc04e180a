----------------------------- MODULE RuntimeConfig -----------------------------
(***************************************************************************)
(* The configuration the user tunes, the Safe Mode overlay, and the two    *)
(* threads that edit them (runtime_config.cpp; the configuration routes of *)
(* ipc_server.cpp; the hotkeys of main.cpp and bhop.cpp).                  *)
(*                                                                         *)
(* HTTP clients are served one at a time (s_apiMutex).  A client edits     *)
(* either through a request that the owner thread carries out and that may *)
(* time out, or by itself (profile, bhop).  The owner also edits on its    *)
(* own, for hotkeys.  What is read is a copy; another edit may come before *)
(* it is applied.                                                          *)
(*                                                                         *)
(* A configuration has a part Safe Mode clamps (tuning, which here carries *)
(* the SOCD mode too, so any change of it may be refused), one it leaves   *)
(* alone (profile), and the switch itself.  Values are within their range, *)
(* where Sanitize changes nothing else.                                    *)
(*                                                                         *)
(* Save is one step that succeeds or leaves the file alone; ConfigFile has *)
(* its steps.  That no client is served when the owner saves for the last  *)
(* time is assumed here and shown by Server.                               *)
(***************************************************************************)
EXTENDS Naturals, Sequences

CONSTANTS
  Tunings,      \* what the user may choose
  Default,      \* what RuntimeConfig{} has, one of them
  Clamp,        \* what Safe Mode enforces
  Profiles,
  DefaultProfile,
  MaxRequests,  \* bound: requests sent to the owner
  MaxRestarts   \* bound: runs of the program after the first

ASSUME ConfigAssumption ==
  /\ Default \in Tunings /\ Clamp \notin Tunings /\ DefaultProfile \in Profiles
  /\ MaxRequests \in Nat /\ MaxRestarts \in Nat

Config == [tuning : Tunings \union {Clamp}, profile : Profiles, safe : BOOLEAN]

DefaultConfig == [tuning |-> Default, profile |-> DefaultProfile, safe |-> FALSE]

VARIABLES
  config,    \* s_userConfig and s_snapshotConfig
  file,      \* marco.ini
  request,   \* s_configRequest, NoRequest when reset
  messages,  \* ids of WM_CONFIG_REQUESTs not yet delivered
  sent,      \* s_nextConfigRequestId
  client,    \* the HTTP client being served
  owner,     \* the owner thread
  restarts,  \* runs of the program after the first; ids count on over them
  applied,   \* history: ids of the requests carried out, in order
  before     \* history: the user configuration Safe Mode was entered with

vars == <<config, file, request, messages, sent, client, owner, restarts, applied, before>>

NoRequest == [id |-> 0, action |-> "apply", cfg |-> DefaultConfig]

Requests ==
  [id : 0..MaxRequests, action : {"apply", "safemode", "revert"}, cfg : Config]

ConfigTypeOK ==
  /\ config \in [user : Config, snapshot : Config]
  /\ file \in Config /\ before \in Config
  /\ request \in Requests
  /\ messages \in Seq(1..MaxRequests) /\ sent \in 0..MaxRequests
  /\ client \in [pc : {"idle", "submit", "sent", "reread", "apply", "save"},
                 action : {"apply", "safemode", "revert"}, cfg : Config]
  /\ owner \in [pc : {"pump", "dispatch", "apply", "save", "ended"},
                message : 0..MaxRequests, request : Requests, cfg : Config, saves : BOOLEAN]
  /\ restarts \in 0..MaxRestarts
  /\ applied \in Seq(1..MaxRequests)

-----------------------------------------------------------------------------
(* Calls under s_writerMutex, on both stored configurations.               *)

\* The override layer of Sanitize, and ApplySafeModeOverrides.
Overlay(cfg) == IF cfg.safe THEN [cfg EXCEPT !.tuning = Clamp] ELSE cfg

\* Fault: the snapshot follows the user configuration into Safe Mode.
ApplyAlwaysSnapshots(c, cfg) ==
  IF ~cfg.safe /\ c.user.safe
  THEN [c EXCEPT !.user = [c.snapshot EXCEPT !.safe = FALSE]]
  ELSE [user |-> Overlay(cfg), snapshot |-> Overlay(cfg)]

Apply(c, cfg) ==
  CASE cfg.safe /\ ~c.user.safe -> [user |-> Overlay(cfg), snapshot |-> c.user]
    [] ~cfg.safe /\ c.user.safe -> [c EXCEPT !.user = [c.snapshot EXCEPT !.safe = FALSE]]
    [] cfg.safe = c.user.safe   ->
         [user |-> Overlay(cfg), snapshot |-> IF cfg.safe THEN c.snapshot ELSE cfg]

SetSafeMode(c, enabled) ==
  CASE c.user.safe = enabled -> c
    [] enabled /\ ~c.user.safe ->
         [user |-> [c.user EXCEPT !.safe = TRUE], snapshot |-> c.user]
    [] ~enabled /\ c.user.safe -> [c EXCEPT !.user = [c.snapshot EXCEPT !.safe = FALSE]]

\* Init takes a snapshot, so there always is one.
RevertToSnapshot(c) == [c EXCEPT !.user = [c.snapshot EXCEPT !.safe = FALSE]]

\* What Get returns.
Published == Overlay(config.user)

Change(c) ==
  /\ config' = c
  /\ before' = IF c.user.safe /\ ~config.user.safe THEN config.user ELSE before

-----------------------------------------------------------------------------
Idle == [pc |-> "idle", action |-> "apply", cfg |-> DefaultConfig]

Pumping ==
  [pc |-> "pump", message |-> 0, request |-> NoRequest, cfg |-> DefaultConfig,
   saves |-> FALSE]

\* rcfg::Init, the load of the file, and the start of the server.
StartWith(cfg) == Apply([user |-> DefaultConfig, snapshot |-> DefaultConfig], cfg)

Init ==
  /\ \E t \in Tunings : file = [DefaultConfig EXCEPT !.tuning = t]
  /\ config = StartWith(file)
  /\ request = NoRequest /\ messages = <<>> /\ sent = 0
  /\ client = Idle /\ owner = Pumping
  /\ restarts = 0 /\ applied = <<>> /\ before = DefaultConfig

(* The client.                                                             *)

ClientOnly == UNCHANGED <<owner, restarts, applied>>

\* POST /api/config, /api/safemode, /api/revert read the user configuration.
\* "edit" is the client's own choice for the fields its route sets.
ClientReads(action, tuning, safe) ==
  /\ client.pc = "idle" /\ sent < MaxRequests
  /\ client' = [pc |-> "submit", action |-> action,
                cfg |-> CASE action = "apply"    -> [config.user EXCEPT !.tuning = tuning,
                                                                       !.safe = safe]
                          [] action = "safemode" -> [config.user EXCEPT !.safe = safe]
                          [] action = "revert"   -> config.user]
  /\ UNCHANGED <<config, file, request, messages, sent, before>> /\ ClientOnly

ClientRequest(action, tuning, safe) ==
  owner.pc # "ended" /\ ClientReads(action, tuning, safe)

Submit ==
  /\ client.pc = "submit"
  /\ sent' = sent + 1
  /\ request' = [id |-> sent + 1, action |-> client.action, cfg |-> client.cfg]
  /\ messages' = Append(messages, sent + 1)
  /\ client' = [client EXCEPT !.pc = "sent"]
  /\ UNCHANGED <<config, file, before>> /\ ClientOnly

\* SendMessageTimeout gives up after two seconds; the message may still be on its way.
Timeout ==
  /\ client.pc = "sent"
  /\ request' = NoRequest
  /\ client' = Idle
  /\ UNCHANGED <<config, file, messages, sent, before>> /\ ClientOnly

\* /api/profile and /api/bhop edit without the owner.
ClientCopies(p) ==
  /\ client.pc = "idle"
  /\ client' = [pc |-> "apply", action |-> "apply",
                cfg |-> [config.user EXCEPT !.profile = p]]
  /\ UNCHANGED <<config, file, request, messages, sent, before>> /\ ClientOnly

ClientEdit(p) == owner.pc # "ended" /\ ClientCopies(p)

ClientApply ==
  /\ client.pc = "apply"
  /\ Change(Apply(config, client.cfg))
  /\ client' = [client EXCEPT !.pc = "save"]
  /\ UNCHANGED <<file, request, messages, sent>> /\ ClientOnly

ClientReread ==
  /\ client.pc = "reread"
  /\ client' = [client EXCEPT !.pc = "save", !.cfg = config.user]
  /\ UNCHANGED <<config, file, request, messages, sent, before>> /\ ClientOnly

ClientSave ==
  /\ client.pc = "save"
  /\ file' \in {client.cfg, file}
  /\ client' = Idle
  /\ UNCHANGED <<config, request, messages, sent, before>> /\ ClientOnly

-----------------------------------------------------------------------------
(* The owner.                                                              *)

\* Fault: the message stands for whatever request is there.
IsCurrentUnchecked(id) == request # NoRequest

IsCurrent(id) == request.id = id

\* The answer to a message reaches its sender, if that still waits.
Answer(id, ok) ==
  IF client.pc = "sent" /\ sent = id
  THEN /\ client' = IF ok /\ client.action = "apply" THEN [client EXCEPT !.pc = "reread"]
                                                     ELSE Idle
       /\ request' = NoRequest
  ELSE UNCHANGED <<client, request>>

\* DispatchConfigRequest copies the request its message names, if it is still
\* the current one; if it is not, nobody waits for the answer.
DispatchBegin ==
  /\ owner.pc = "pump" /\ messages # <<>>
  /\ messages' = Tail(messages)
  /\ IF IsCurrent(Head(messages))
     THEN owner' = [owner EXCEPT !.pc = "dispatch", !.message = Head(messages),
                                 !.request = request]
     ELSE UNCHANGED owner
  /\ UNCHANGED <<config, file, request, sent, client, restarts, applied, before>>

MayChangeMode(r) ==
  r.action # "apply" \/ r.cfg.tuning # Published.tuning \/ r.cfg.safe # Published.safe

\* PrepareSocdModeChange refuses while a movement key is down.
DispatchRefused ==
  /\ owner.pc = "dispatch" /\ MayChangeMode(owner.request)
  /\ Answer(owner.message, FALSE)
  /\ owner' = Pumping
  /\ UNCHANGED <<config, file, messages, sent, restarts, applied, before>>

Perform(c, r) ==
  CASE r.action = "apply"    -> Apply(c, r.cfg)
    [] r.action = "safemode" -> SetSafeMode(c, r.cfg.safe)
    [] r.action = "revert"   -> RevertToSnapshot(c)

DispatchDone ==
  /\ owner.pc = "dispatch"
  /\ Change(Perform(config, owner.request))
  /\ applied' = Append(applied, owner.request.id)
  /\ Answer(owner.message, TRUE)
  /\ owner' = Pumping
  /\ UNCHANGED <<file, messages, sent, restarts>>

\* WM_CYCLE_PROFILE and CycleMode save, ToggleEnabled does not.
Hotkey(p, saves) ==
  /\ owner.pc = "pump"
  /\ owner' = [owner EXCEPT !.pc = "apply", !.cfg = [config.user EXCEPT !.profile = p],
                            !.saves = saves]
  /\ UNCHANGED <<config, file, request, messages, sent, client, restarts, applied, before>>

HotkeyApply ==
  /\ owner.pc = "apply"
  /\ Change(Apply(config, owner.cfg))
  /\ owner' = IF owner.saves THEN [owner EXCEPT !.pc = "save"] ELSE Pumping
  /\ UNCHANGED <<file, request, messages, sent, client, restarts, applied>>

HotkeySave ==
  /\ owner.pc = "save"
  /\ file' \in {owner.cfg, file}
  /\ owner' = Pumping
  /\ UNCHANGED <<config, request, messages, sent, client, restarts, applied, before>>

\* The last thing the clean-up does with the configuration.
SaveAtTheEnd ==
  /\ owner.pc = "pump"
  /\ file' \in {config.user, file}
  /\ owner' = [owner EXCEPT !.pc = "ended"]
  /\ UNCHANGED <<config, request, messages, sent, client, restarts, applied, before>>

FinalSave == client.pc = "idle" /\ SaveAtTheEnd

\* The program has ended, or is killed wherever it is, and is started again.
Restart ==
  /\ restarts < MaxRestarts
  /\ restarts' = restarts + 1
  /\ config' = StartWith(file)
  /\ request' = NoRequest /\ messages' = <<>>
  /\ client' = Idle /\ owner' = Pumping
  /\ UNCHANGED <<file, sent, applied, before>>

ClientStep ==
  \/ Submit \/ Timeout \/ ClientApply \/ ClientReread \/ ClientSave
  \/ \E action \in {"apply", "safemode", "revert"}, t \in Tunings, safe \in BOOLEAN :
       ClientRequest(action, t, safe)
  \/ \E p \in Profiles : ClientEdit(p)

OwnerStep ==
  \/ DispatchBegin \/ DispatchRefused \/ DispatchDone \/ HotkeyApply \/ HotkeySave
  \/ FinalSave
  \/ \E p \in Profiles, saves \in BOOLEAN : Hotkey(p, saves)

\* One run of the program.
Next == ClientStep \/ OwnerStep

Spec == Init /\ [][Next]_vars

\* The file carries the configuration from one run to the next.
RestartSpec == Init /\ [][Next \/ Restart]_vars

-----------------------------------------------------------------------------
(* Properties.                                                             *)

(* Leaving Safe Mode, by whatever call, gives back the tuning it was       *)
(* entered with: edits made inside it, by either thread and from however   *)
(* old a copy, do not reach the snapshot.                                  *)
SafeModeRestores ==
  [][config.user.safe /\ ~config'.user.safe => config'.user.tuning = before.tuning]_vars

(* A request is carried out at most once and never after a later one,      *)
(* though its client may have given up and its message come late.          *)
AppliedOnceInOrder ==
  \A i, j \in DOMAIN applied : i < j => applied[i] < applied[j]

(* runtime_config.h:145: GetUserConfig returns "the pure user              *)
(* configuration (without transient safe mode overrides)".                 *)
UserConfigIsPure == config.user.tuning # Clamp
=============================================================================
