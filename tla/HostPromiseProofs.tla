--------------------------- MODULE HostPromiseProofs ---------------------------
(***************************************************************************)
(* The control mode a command decides by is the device's, and a command    *)
(* that reports success has done what it was asked for: on every platform  *)
(* and device, whatever the driver and the calls come to.                  *)
(***************************************************************************)
EXTENDS HostProofs

(* The process is over when it has an outcome, with no operation under way.  *)
DoneInv ==
    /\ main = "done" <=> out # "none"
    /\ main = "done" => at = "idle"

(* AfterApply has read the control mode, and the command may decide by it.   *)
Settled ==
    /\ main \notin {"start", "access", "parse", "apply", "unprovision", "done"}
    /\ main = "context" => cmd = "none"

(* As long as nobody else changes the control mode, what is read of it is    *)
(* the device's, or the 0 of an error status.                                *)
MayBe(v, mode) == v \in {0, mode}
ModeReplies ==
    "changed" \notin mishaps =>
        /\ \A i \in 1..Len(wire) : wire[i].ask = "mode" => MayBe(wire[i].value, device.mode)
        /\ got.ask = "mode" => MayBe(got.value, device.mode)
        /\ ask = "mode" => MayBe(res.value, device.mode)
ModeSeen == "changed" \notin mishaps /\ main \notin {"unprovision", "done"} => MayBe(seen, device.mode)

(* Without a mishap it is the device's, and an unprovision that is answered  *)
(* is done.                                                                  *)
Sure(r, mode) ==
    /\ r.ask = "mode" => r.value = mode
    /\ r.ask = "unprovision" => mode = 0
SureReplies ==
    mishaps = {} =>
        /\ \A i \in 1..Len(wire) : Sure(wire[i], device.mode)
        /\ Sure(got, device.mode)
        /\ ask = "mode" /\ at = "back" /\ res.ok => res.value = device.mode
        /\ ask = "unprovision" /\ at = "back" /\ res.ok => device.mode = 0
SureSeen == mishaps = {} /\ Settled => seen = device.mode

(* What a command has done by the place it is at.                            *)
Stage ==
    /\ main \in {"system", "version", "sku", "kvm", "listener", "optin", "consent"} =>
         device.ider = want.ider /\ device.sol = want.sol
    /\ main \in {"listener", "optin", "consent"} /\ ~IsIsm => device.kvm = want.kvm
    /\ main \in {"optin", "consent"} => device.listener = AnyRedirection
    /\ main = "wifi" => device.sync = want.sync /\ device.uefi = SyncedUefi
StageInv == mishaps = {} => Stage

PromiseInv ==
    /\ DoneInv /\ ModeReplies /\ ModeSeen /\ SureReplies /\ SureSeen /\ StageInv
    /\ SuccessMeansSet

-----------------------------------------------------------------------------
(* The driver. *)

\* The driver works when the process waits for it.
LEMMA HostWaits ==
  ASSUME HostStep PROVE at \notin {"idle", "back"}
  BY DEF HostStep, Open, Send, Receive, AskVersionAgain, AskHash, OperationFails, OperationReturns

LEMMA DeliverReplies ==
  ASSUME HostInv, ModeReplies, SureReplies, Deliver, at = "send", UNCHANGED <<ask, part, got, res>>,
         at' # "back"
  PROVE  ModeReplies' /\ SureReplies'
  <1> PICK good \in BOOLEAN :
        /\ wire' = Append(wire, Reply(ask, part, good, IF good THEN Value ELSE 0))
        /\ mishaps' = IF good THEN mishaps ELSE mishaps \cup {"unseen"}
        /\ device' = IF good /\ ask = "unprovision" THEN [device EXCEPT !.mode = 0] ELSE device
    BY DEF Deliver
  <1> DEFINE r == Reply(ask, part, good, IF good THEN Value ELSE 0)
  <1>1. wire \in Seq(Replies) /\ got = NoReply /\ device \in Devices
    BY DEF HostInv, DriverAndDevice, DriverInv, HostTypeOK, DriverTypeOK, WireInv
  <1>2. got.ask = "initialize" BY <1>1 DEF NoReply, Reply
  <1>3. /\ r.ask = ask
        /\ ask = "mode" => r.value = IF good THEN device.mode ELSE 0
    BY DEF Reply, Value
  <1>4. wire' = Append(wire, r) OBVIOUS
  <1>5. ask # "unprovision" => device'.mode = device.mode BY <1>1
  <1>6. good /\ ask = "unprovision" => device'.mode = 0 BY <1>1 DEF Devices
  <1> HIDE DEF r
  <1>7. /\ \A i \in 1..Len(wire) : wire'[i] = wire[i] /\ wire[i].ask = ask
        /\ Len(wire') = Len(wire) + 1 /\ wire'[Len(wire) + 1] = r /\ Len(wire) \in Nat
    BY <1>1, <1>4 DEF HostInv, DriverAndDevice, DriverInv, WireInv
  <1>8. \A i \in 1..Len(wire') : wire'[i] = r \/ (i \in 1..Len(wire) /\ wire'[i] = wire[i])
    BY <1>7
  <1>9. ModeReplies'
    <2> SUFFICES ASSUME "changed" \notin mishaps'
                 PROVE  /\ \A i \in 1..Len(wire') : wire'[i].ask = "mode" => MayBe(wire'[i].value, device'.mode)
                        /\ ask = "mode" => MayBe(res.value, device'.mode)
      BY <1>2 DEF ModeReplies
    <2>1. "changed" \notin mishaps
      <3>1. mishaps' = mishaps \/ mishaps' = mishaps \cup {"unseen"} OBVIOUS
      <3> QED BY <3>1
    <2>2. ask = "mode" => MayBe(r.value, device'.mode) BY <1>3, <1>5 DEF MayBe
    <2>3. ask = "mode" => MayBe(res.value, device'.mode) BY <2>1, <1>5 DEF MayBe, ModeReplies
    <2>4. \A i \in 1..Len(wire') : wire'[i].ask = "mode" => MayBe(wire'[i].value, device'.mode)
      BY <2>1, <2>2, <1>3, <1>5, <1>7, <1>8 DEF MayBe, ModeReplies
    <2> QED BY <2>3, <2>4
  <1>10. SureReplies'
    <2> SUFFICES ASSUME mishaps' = {} PROVE \A i \in 1..Len(wire') : Sure(wire'[i], device'.mode)
      BY <1>2 DEF SureReplies, Sure
    <2>1. mishaps = {} /\ good
      <3>1. CASE good BY <3>1
      <3>2. CASE ~good BY <3>2
      <3> QED BY <3>1, <3>2
    <2>2. Sure(r, device'.mode) BY <2>1, <1>3, <1>5, <1>6 DEF Sure
    <2>3. ask = "unprovision" => device'.mode = 0 BY <2>1, <1>6
    <2>4. ASSUME NEW i \in 1..Len(wire) PROVE Sure(wire[i], device'.mode)
      BY <2>1, <2>3, <1>5, <1>7 DEF Sure, SureReplies
    <2> QED BY <2>2, <2>4, <1>8 DEF Sure
  <1> QED BY <1>9, <1>10

LEMMA DriverReplies ==
  ASSUME HostInv, ModeReplies, SureReplies, HostStep
  PROVE  ModeReplies' /\ SureReplies'
  <1>1. CASE Open /\ UNCHANGED <<ticks, res>>
    BY <1>1 DEF Open, ModeReplies, SureReplies, MayBe, Sure
  <1>2. CASE Send /\ UNCHANGED <<ticks, res>>
    <2>1. CASE Deliver
      BY <1>2, <2>1, DeliverReplies DEF Send
    <2>2. CASE Undelivered
      BY <1>2, <2>2 DEF Send, Undelivered, ModeReplies, SureReplies, MayBe, Sure
    <2> QED BY <1>2, <2>1, <2>2 DEF Send
  <1>3. CASE Receive /\ UNCHANGED <<ticks, res>>
    <2>0. /\ UNCHANGED <<device, mishaps, ask, res>> /\ wire # <<>> /\ at' \in {"answered", "failed"}
          /\ wire' \in {wire, Tail(wire)} /\ got' \in {got, Head(wire)}
      BY <1>3 DEF Receive
    <2>1. wire \in Seq(Replies) BY DEF HostInv, DriverAndDevice, DriverInv, HostTypeOK, DriverTypeOK
    <2>2. Head(wire) = wire[1] /\ 1 \in 1..Len(wire) BY <2>0, <2>1
    <2>3. \A i \in 1..Len(wire') : \E j \in 1..Len(wire) : wire'[i] = wire[j]
      <3>1. CASE wire' = wire BY <3>1
      <3>2. CASE wire' = Tail(wire)
        <4> TAKE i \in 1..Len(wire')
        <4>1. i + 1 \in 1..Len(wire) /\ wire'[i] = wire[i + 1] BY <3>2, <2>0, <2>1
        <4> QED BY <4>1
      <3> QED BY <2>0, <3>1, <3>2
    <2>4. ModeReplies' BY <2>0, <2>2, <2>3 DEF ModeReplies, MayBe
    <2>5. SureReplies' BY <2>0, <2>2, <2>3 DEF SureReplies, Sure
    <2> QED BY <2>4, <2>5
  <1>4. CASE (AskVersionAgain \/ AskHash) /\ UNCHANGED <<device, mishaps>>
    <2>0. /\ UNCHANGED <<device, mishaps, wire, res>> /\ got' = NoReply /\ at' = "send"
          /\ ask' = ask \/ ask' = "hash"
      BY <1>4 DEF AskVersionAgain, AskHash, Ask
    <2>1. NoReply.ask = "initialize" BY DEF NoReply, Reply
    <2> QED BY <2>0, <2>1 DEF ModeReplies, SureReplies, MayBe, Sure
  <1>5. CASE (OperationFails \/ OperationReturns) /\ UNCHANGED <<device, mishaps>>
    <2>0. /\ UNCHANGED <<device, mishaps, ask>> /\ got' = NoReply /\ wire' = <<>>
          /\ \/ res' = Result(FALSE, 0)
             \/ at = "answered" /\ res' = Result(ask \in Versions => got.value > 0, got.value)
      BY <1>5 DEF OperationFails, OperationReturns, Return, Close
    <2>1. NoReply.ask = "initialize" BY DEF NoReply, Reply
    <2>2. at = "answered" => ask = "initialize" \/ got.ask = ask
      BY DEF HostInv, DriverAndDevice, DriverInv, WireInv
    <2>3. \/ res'.value = 0 /\ ~res'.ok
          \/ at = "answered" /\ res'.value = got.value
      BY <2>0 DEF Result
    <2>4. ModeReplies' BY <2>0, <2>1, <2>2, <2>3 DEF ModeReplies, MayBe
    <2>5. SureReplies' BY <2>0, <2>1, <2>2, <2>3 DEF SureReplies, Sure
    <2> QED BY <2>4, <2>5
  <1> QED BY <1>1, <1>2, <1>3, <1>4, <1>5 DEF HostStep

-----------------------------------------------------------------------------
(* The process, where it calls no WSMAN. *)

(* What such a step can do to the mode that was seen, to the place and to    *)
(* the outcome.                                                              *)
SeenOf ==
    \/ seen' = seen /\ (Settled' => Settled)
    \/ main = "apply" /\ at = "back" /\ res.ok /\ seen' = res.value
DoneOf ==
    /\ main # "done" /\ (main = "unprovision" => main' = "done")
    /\ main' = "done" <=> out' # "none"
    /\ main' = "done" => at' = "idle"
StageOf ==
    main' \in {"system", "version", "sku", "kvm", "listener", "optin", "consent", "wifi"} =>
        /\ want' = want /\ main \in {"system", "version", "sku"}
        /\ main' \in {"version", "sku", "kvm"} \/ (main' = "listener" /\ IsIsm)
OutcomeOf ==
    out' = "ok" =>
        \/ cmd' \in {"version", InfoCommand}
        \/ /\ cmd' = "deactivate"
           /\ main = "unprovision" /\ at = "back" /\ res.ok
PlainOf == SeenOf /\ DoneOf /\ StageOf /\ OutcomeOf

LEMMA FrontOf ==
  ASSUME HostInv, DoneInv, FrontStep PROVE PlainOf
  <1> USE DEF Here, Answered, Move, Query, QueryTicks, Succeed, Fail, Leave, Forget, Begin, frontVars
  <1>1. CASE Start
    BY <1>1 DEF Start, PlainOf, SeenOf, DoneOf, StageOf, OutcomeOf, Settled, DoneInv
  <1>2. CASE CheckAccess
    BY <1>2 DEF CheckAccess, PlainOf, SeenOf, DoneOf, StageOf, OutcomeOf, Settled, DoneInv
  <1>3. CASE Parse
    BY <1>3 DEF Parse, PlainOf, SeenOf, DoneOf, StageOf, OutcomeOf, Settled, DoneInv
  <1>4. CASE AfterApplyMode
    BY <1>4 DEF AfterApplyMode, PlainOf, SeenOf, DoneOf, StageOf, OutcomeOf, Settled, DoneInv
  <1>5. CASE AfterApplyTls
    BY <1>5 DEF AfterApplyTls, PlainOf, SeenOf, DoneOf, StageOf, OutcomeOf, Settled, DoneInv
  <1>6. CASE MakeContext
    <2>1. cmd \in {"none", "version"}
      BY <1>6 DEF MakeContext, HostInv, ProcessInv, PlaceInv
    <2> QED BY <1>6, <2>1
        DEF MakeContext, PlainOf, SeenOf, DoneOf, StageOf, OutcomeOf, Settled, DoneInv
  <1> QED BY <1>1, <1>2, <1>3, <1>4, <1>5, <1>6 DEF FrontStep

LEMMA ConfigureOf ==
  ASSUME HostInv, DoneInv,
         \/ DispatchConfigure \/ AskPassword \/ MakeClient \/ AskSystem \/ AskSku \/ DecideKvm
         \/ DeactivateCcm \/ CheckUnprovision
  PROVE  PlainOf
  <1> USE DEF Here, Answered, Running, Move, Query, QueryTicks, Succeed, Fail, Leave, Forget, Begin,
          Same, frontVars
  <1>1. CASE DispatchConfigure
    BY <1>1 DEF DispatchConfigure, PlainOf, SeenOf, DoneOf, StageOf, OutcomeOf, Settled, DoneInv
  <1>2. CASE AskPassword \/ MakeClient
    BY <1>2 DEF AskPassword, EnsureAMTPassword, MakeClient,
       PlainOf, SeenOf, DoneOf, StageOf, OutcomeOf, Settled, DoneInv
  <1>3. CASE AskSystem
    BY <1>3 DEF AskSystem, PlainOf, SeenOf, DoneOf, StageOf, OutcomeOf, Settled, DoneInv
  <1>4. CASE AskSku
    BY <1>4 DEF AskSku, PlainOf, SeenOf, DoneOf, StageOf, OutcomeOf, Settled, DoneInv
  <1>5. CASE DecideKvm
    BY <1>5 DEF DecideKvm, PlainOf, SeenOf, DoneOf, StageOf, OutcomeOf, Settled, DoneInv
  <1>6. CASE DeactivateCcm
    BY <1>6 DEF DeactivateCcm, PlainOf, SeenOf, DoneOf, StageOf, OutcomeOf, Settled, DoneInv
  <1>7. CASE CheckUnprovision
    <2>1. main = "unprovision" => cmd = "deactivate" BY DEF HostInv, ProcessInv, PlaceInv
    <2> QED BY <1>7, <2>1
        DEF CheckUnprovision, PlainOf, SeenOf, DoneOf, StageOf, OutcomeOf, Settled, DoneInv
  <1> QED BY <1>1, <1>2, <1>3, <1>4, <1>5, <1>6, <1>7

LEMMA InfoOf ==
  ASSUME HostInv, DoneInv, InfoStep PROVE PlainOf
  <1> USE DEF Here, Answered, Move, QueryTicks, Succeed, Fail, Leave, Forget, Begin, Same, frontVars
  <1>1. CASE DispatchInfo
    BY <1>1 DEF DispatchInfo, PlainOf, SeenOf, DoneOf, StageOf, OutcomeOf, Settled, DoneInv
  <1>2. CASE InfoPassword \/ InfoClient
    BY <1>2 DEF InfoPassword, EnsureAMTPassword, InfoClient,
       PlainOf, SeenOf, DoneOf, StageOf, OutcomeOf, Settled, DoneInv
  <1>3. CASE AskSection
    BY <1>3 DEF AskSection, PlainOf, SeenOf, DoneOf, StageOf, OutcomeOf, Settled, DoneInv
  <1>4. CASE ShowSection \/ ShowCertificates
    BY <1>4 DEF ShowSection, ShowCertificates,
       PlainOf, SeenOf, DoneOf, StageOf, OutcomeOf, Settled, DoneInv
  <1>5. CASE FinishInfo
    <2>1. cmd = InfoCommand
      BY <1>5 DEF FinishInfo, HostInv, ProcessInv, PlaceInv, InfoPlaces
    <2> QED BY <1>5, <2>1
        DEF FinishInfo, PlainOf, SeenOf, DoneOf, StageOf, OutcomeOf, Settled, DoneInv
  <1> QED BY <1>1, <1>2, <1>3, <1>4, <1>5 DEF InfoStep

LEMMA ResumesReplies ==
  ASSUME HostInv, Resumes PROVE ModeReplies' /\ SureReplies'
  <1>1. /\ wire' = <<>> /\ got' = NoReply /\ at' \in {"idle", "open"}
        /\ res' = NoResult
    BY DEF HostInv, DriverAndDevice, DriverInv, WireInv, Resumes, Forget, Begin, driverVars
  <1>2. NoReply.ask = "initialize" /\ NoResult.value = 0 /\ ~NoResult.ok
    BY DEF NoReply, Reply, NoResult, Result
  <1> QED BY <1>1, <1>2 DEF ModeReplies, SureReplies, MayBe, Sure

LEMMA PlainPromise ==
  ASSUME HostInv, PromiseInv, Plain, PlainOf PROVE PromiseInv'
  <1> USE DEF PromiseInv, PlainOf
  <1>0. UNCHANGED <<machine, device, mishaps>> BY DEF Plain
  <1>1. ModeReplies' /\ SureReplies' BY ResumesReplies DEF Plain
  <1>2. DoneInv' BY DEF DoneOf, DoneInv
  <1>3. main = "apply" => ask = "mode" BY DEF HostInv, ProcessInv, AskInv
  <1>4. ModeSeen' BY <1>0, <1>3 DEF SeenOf, DoneOf, ModeSeen, ModeReplies
  <1>5. SureSeen' BY <1>0, <1>3 DEF SeenOf, SureSeen, SureReplies
  <1>6. StageInv' BY <1>0 DEF StageOf, StageInv, Stage, AnyRedirection, SyncedUefi, IsIsm
  <1>7. SuccessMeansSet'
    <2> SUFFICES ASSUME out' = "ok", mishaps = {} PROVE InEffect'
      BY <1>0 DEF SuccessMeansSet
    <2>1. CASE cmd' \in {"version", InfoCommand} BY <2>1 DEF InEffect, InfoCommand
    <2>2. CASE cmd' = "deactivate" /\ main = "unprovision" /\ at = "back" /\ res.ok
      <3>1. ask = "unprovision" BY <2>2 DEF HostInv, ProcessInv, AskInv
      <3>2. device'.mode = 0 BY <1>0, <2>2, <3>1 DEF SureReplies
      <3> QED BY <2>2, <3>2 DEF InEffect
    <2> QED BY <2>1, <2>2 DEF OutcomeOf
  <1> QED BY <1>1, <1>2, <1>4, <1>5, <1>6, <1>7

-----------------------------------------------------------------------------
(* The WSMAN calls. *)

LEMMA WsmanAt ==
  ASSUME NEW place, NEW W, Wsman(place, W)
  PROVE  /\ main \in {"run", "redirection", "kvm", "listener", "optin", "consent", "realm", "match",
                     "time", "settings", "capabilities", "sync", "wifi"}
         /\ place \notin {"context", "apply", "unprovision"}
  <1>1. CASE FeaturesCall(place, W) BY <1>1 DEF FeaturesCall
  <1>2. CASE PasswordCall(place, W) BY <1>2 DEF PasswordCall
  <1>3. CASE ProxyCall(place, W) BY <1>3 DEF ProxyCall
  <1>4. CASE SettingsCall(place, W) BY <1>4 DEF SettingsCall
  <1>5. CASE WiFiCall(place, W) BY <1>5 DEF WiFiCall
  <1> QED BY <1>1, <1>2, <1>3, <1>4, <1>5 DEF Wsman

LEMMA WsmanMode ==
  ASSUME HostInv, NEW place, NEW W, Wsman(place, W), place # "done"
  PROVE  W.mode = device.mode
  <1>0. device \in Devices BY DEF HostInv, DriverAndDevice
  <1>1. CASE FeaturesCall(place, W) BY <1>0, <1>1 DEF FeaturesCall, Devices
  <1>2. CASE PasswordCall(place, W) BY <1>0, <1>2 DEF PasswordCall, Devices
  <1>3. CASE ProxyCall(place, W) BY <1>0, <1>3 DEF ProxyCall, Devices
  <1>4. CASE SettingsCall(place, W) BY <1>0, <1>4 DEF SettingsCall, Devices
  <1>5. CASE WiFiCall(place, W) BY <1>0, <1>5 DEF WiFiCall, Devices
  <1> QED BY <1>1, <1>2, <1>3, <1>4, <1>5 DEF Wsman

LEMMA WsmanStage ==
  ASSUME HostInv, Stage, NEW place, NEW W, Wsman(place, W),
         main' = place, device' = W, UNCHANGED <<machine, want>>
  PROVE  Stage'
  <1>0. device \in Devices BY DEF HostInv, DriverAndDevice
  <1>1. CASE FeaturesCall(place, W)
    <2>1. UNCHANGED <<IsIsm, AnyRedirection>> BY DEF IsIsm, AnyRedirection
    <2> QED BY <1>0, <1>1, <2>1 DEF FeaturesCall, Devices, Stage
  <1>2. CASE PasswordCall(place, W) BY <1>2 DEF PasswordCall, Stage
  <1>3. CASE ProxyCall(place, W) BY <1>3 DEF ProxyCall, Stage
  <1>4. CASE SettingsCall(place, W) BY <1>4 DEF SettingsCall, Stage
  <1>5. CASE WiFiCall(place, W)
    <2>1. UNCHANGED SyncedUefi BY DEF SyncedUefi
    <2> QED BY <1>0, <1>5, <2>1 DEF WiFiCall, Devices, Stage
  <1> QED BY <1>1, <1>2, <1>3, <1>4, <1>5 DEF Wsman

LEMMA WsmanEffect ==
  ASSUME HostInv, Stage, SureSeen, mishaps = {}, NEW W, Wsman("done", W),
         device' = W, UNCHANGED <<machine, want, cmd>>
  PROVE  InEffect'
  <1>0. device \in Devices BY DEF HostInv, DriverAndDevice
  <1> USE DEF HostInv, ProcessInv
  <1>1. CASE FeaturesCall("done", W)
    <2>1. UNCHANGED <<IsIsm, AnyRedirection>> BY DEF IsIsm, AnyRedirection
    <2>2. cmd = "features" /\ main \in {"listener", "optin", "consent"}
      BY <1>1 DEF FeaturesCall, PlaceInv, FeaturePlaces
    <2>3. seen = device.mode BY <2>2 DEF SureSeen, Settled
    <2>4. CASE main = "listener"
      <3>1. seen # 2 /\ W = [device EXCEPT !.listener = AnyRedirection]
        BY <1>1, <2>4 DEF FeaturesCall
      <3> QED BY <1>0, <2>1, <2>2, <2>3, <2>4, <3>1 DEF Devices, Stage, InEffect
    <2>5. CASE main = "optin"
      <3>1. W = device /\ device.consent = want.consent
        BY <1>1, <2>5 DEF FeaturesCall
      <3> QED BY <2>1, <2>2, <2>5, <3>1 DEF Stage, InEffect
    <2>6. CASE main = "consent"
      <3>1. W = [device EXCEPT !.consent = want.consent]
        BY <1>1, <2>6 DEF FeaturesCall
      <3> QED BY <1>0, <2>1, <2>2, <2>6, <3>1 DEF Devices, Stage, InEffect
    <2> QED BY <2>2, <2>4, <2>5, <2>6
  <1>2. CASE PasswordCall("done", W)
    <2>1. \/ cmd = "password" /\ W = [device EXCEPT !.password = want.password]
          \/ cmd = "mebx" /\ W = [device EXCEPT !.mebx = want.password]
          \/ cmd = "deactivate" /\ W = [device EXCEPT !.mode = 0]
      BY <1>2 DEF PasswordCall, PlaceInv
    <2> QED BY <1>0, <2>1 DEF Devices, InEffect
  <1>3. CASE ProxyCall("done", W)
    <2>1. CASE main = "run" /\ cmd = "proxyList" BY <2>1 DEF InEffect
    <2>2. CASE cmd = "proxyAdd" /\ W = [device EXCEPT !.proxies = @ \cup {want.proxy}]
      BY <1>0, <2>2 DEF Devices, InEffect
    <2>3. CASE main = "match" /\ \E p \in Matching : W = [device EXCEPT !.proxies = @ \ {p}]
      <3> PICK p \in Matching : W = [device EXCEPT !.proxies = @ \ {p}] BY <2>3
      <3>1. cmd = "proxyDelete" /\ want.proxy \in Proxies BY <2>3 DEF PlaceInv
      <3>2. p \in Proxies BY <1>0 DEF Matching, Devices
      <3>3. p[1] = want.proxy[1] /\ (want.proxy[2] = 80 \/ p[2] = want.proxy[2]) BY DEF Matching
      <3>4. want.proxy[2] # 80 => p = want.proxy BY <3>1, <3>2, <3>3 DEF Proxies
      <3>5. device'.proxies = device.proxies \ {p} BY <1>0 DEF Devices
      <3> QED BY <3>1, <3>4, <3>5 DEF InEffect
    <2> QED BY <1>3, <2>1, <2>2, <2>3 DEF ProxyCall
  <1>4. CASE SettingsCall("done", W)
    <2>1. \/ cmd = "clock" /\ W = [device EXCEPT !.clock = TRUE]
          \/ cmd = "hostname" /\ W = [device EXCEPT !.name = TRUE]
      BY <1>4 DEF SettingsCall, PlaceInv
    <2> QED BY <1>0, <2>1 DEF Devices, InEffect
  <1>5. CASE WiFiCall("done", W)
    <2>1. cmd = "wifi" /\ main = "wifi" /\ W = [device EXCEPT !.wifi = TRUE]
      BY <1>5 DEF WiFiCall, PlaceInv
    <2>2. UNCHANGED SyncedUefi BY DEF SyncedUefi
    <2> QED BY <1>0, <2>1, <2>2 DEF Devices, Stage, InEffect
  <1> QED BY <1>1, <1>2, <1>3, <1>4, <1>5 DEF Wsman

LEMMA CallPromise ==
  ASSUME HostInv, PromiseInv, CallStep, UNCHANGED <<machine, infoVars>>
  PROVE  PromiseInv'
  <1> USE DEF PromiseInv
  <1>0. ModeReplies' /\ SureReplies' BY CallSteps, ResumesReplies
  <1>1. CASE GiveUp
    <2>1. /\ main' = "done" /\ out' = "error" /\ at' = "idle"
          /\ UNCHANGED <<device, mishaps, seen>>
      BY <1>1 DEF GiveUp, Fail, Leave, Forget, Same, frontVars
    <2> QED BY <1>0, <2>1
        DEF DoneInv, ModeSeen, SureSeen, Settled, StageInv, Stage, SuccessMeansSet
  <1>2. ASSUME NEW place, NEW W, Wsman(place, W), Called(place, W)
        PROVE  PromiseInv'
    <2>1. /\ at' = "idle" /\ UNCHANGED <<seen, cmd, want>> /\ device' \in {device, W}
          /\ mishaps' \in {mishaps, mishaps \cup {"unseen"}}
          /\ \/ main' = "done" /\ out' \in {"error", "panic"}
             \/ /\ main' = place /\ out' = IF place = "done" THEN "ok" ELSE out
                /\ mishaps' = {} => device' = W
      BY <1>2 DEF Called, Forget, Same, frontVars
    <2>2. /\ main \in {"run", "redirection", "kvm", "listener", "optin", "consent", "realm", "match",
                      "time", "settings", "capabilities", "sync", "wifi"}
          /\ place \notin {"context", "apply", "unprovision"}
      BY <1>2, WsmanAt
    <2>3. place # "done" => W.mode = device.mode BY <1>2, WsmanMode
    <2>4. mishaps' = {} => mishaps = {} BY <2>1
    <2>5. DoneInv' BY <2>1, <2>2 DEF DoneInv
    <2>6. ModeSeen' BY <2>1, <2>2, <2>3 DEF ModeSeen, MayBe
    <2>7. SureSeen' BY <2>1, <2>2, <2>3, <2>4 DEF SureSeen, Settled
    <2>8. StageInv'
      <3>1. CASE main' = "done" BY <3>1 DEF StageInv, Stage
      <3>2. CASE main' = place BY <1>2, <2>1, <2>4, <3>1, <3>2, WsmanStage DEF StageInv
      <3> QED BY <2>1, <3>1, <3>2
    <2>9. SuccessMeansSet'
      <3> SUFFICES ASSUME out' = "ok", mishaps' = {} PROVE InEffect' BY DEF SuccessMeansSet
      <3>1. main' = place /\ device' = W BY <2>1
      <3>2. out = "none" BY <2>2 DEF DoneInv
      <3>3. place = "done" BY <2>1, <3>1, <3>2
      <3> QED BY <1>2, <2>1, <2>4, <3>1, <3>3, WsmanEffect DEF StageInv
    <2> QED BY <1>0, <2>5, <2>6, <2>7, <2>8, <2>9
  <1> QED BY <1>1, <1>2 DEF CallStep

-----------------------------------------------------------------------------
(* The inductive invariant. *)

LEMMA HostPromise ==
  ASSUME HostInv, PromiseInv, HostOperation PROVE PromiseInv'
  <1> USE DEF PromiseInv
  <1>0. /\ HostStep /\ at \notin {"idle", "back"}
        /\ UNCHANGED <<machine, main, seen, cmd, want, out>>
    BY HostWaits DEF HostOperation, processVars
  <1>1. ModeReplies' /\ SureReplies' BY <1>0, DriverReplies
  <1>2. main # "done" /\ out = "none" BY <1>0 DEF DoneInv
  <1>3. DoneInv' BY <1>0, <1>2 DEF DoneInv
  <1>4. \/ UNCHANGED <<device, mishaps>>
        \/ /\ mishaps' \in {mishaps, mishaps \cup {"unseen"}}
           /\ device' = device \/ ask = "unprovision"
    BY <1>0 DEF HostStep, Open, Send, Receive, Deliver, Undelivered
  <1>5. ask = "unprovision" => main = "unprovision" BY DEF HostInv, ProcessInv, AskInv
  <1>6. ModeSeen' BY <1>0, <1>4, <1>5 DEF ModeSeen
  <1>7. SureSeen' BY <1>0, <1>4, <1>5 DEF SureSeen, Settled
  <1>8. StageInv'
    <2>1. CASE main = "unprovision" BY <1>0, <2>1 DEF StageInv, Stage
    <2>2. CASE main # "unprovision"
      <3>1. device' = device /\ (mishaps' = {} => mishaps = {}) BY <1>4, <1>5, <2>2
      <3> QED BY <1>0, <3>1 DEF StageInv, Stage, IsIsm, AnyRedirection, SyncedUefi
    <2> QED BY <2>1, <2>2
  <1>9. SuccessMeansSet' BY <1>0, <1>2 DEF SuccessMeansSet
  <1> QED BY <1>1, <1>3, <1>6, <1>7, <1>8, <1>9

LEMMA PromiseNext ==
  ASSUME HostInv, PromiseInv, [Next]_vars PROVE PromiseInv'
  <1>1. CASE HostOperation BY <1>1, HostPromise
  <1>2. CASE FrontStep
    BY <1>2, FrontSteps, FrontOf, PlainPromise DEF PromiseInv
  <1>3. CASE CommandStep
    <2>1. UNCHANGED machine BY <1>3, CommandCases
    <2>2. CASE CallStep /\ UNCHANGED infoVars BY <2>1, <2>2, CallPromise
    <2>3. CASE \/ DispatchConfigure \/ AskPassword \/ MakeClient \/ AskSystem \/ AskSku
               \/ DecideKvm \/ DeactivateCcm \/ CheckUnprovision
      BY <2>1, <2>3, ConfigureSteps, ConfigureOf, PlainPromise DEF PromiseInv
    <2>4. CASE InfoStep
      BY <2>1, <2>4, InfoSteps, InfoOf, PlainPromise DEF PromiseInv
    <2> QED BY <1>3, <2>2, <2>3, <2>4, CommandCases
  <1>4. CASE ModeChanges
    <2>1. /\ "changed" \in mishaps' /\ main # "done"
          /\ UNCHANGED <<main, out, at>>
      BY <1>4 DEF ModeChanges, processVars, callVars
    <2>2. mishaps' # {} BY <2>1
    <2> QED BY <2>1, <2>2
        DEF PromiseInv, DoneInv, ModeReplies, ModeSeen, SureReplies, SureSeen, StageInv, SuccessMeansSet
  <1>5. CASE UNCHANGED vars
    <2>1. UNCHANGED <<machine, device, mishaps, wire, at, ask, got, res, main, seen, cmd, want, out>>
      BY <1>5 DEF vars, driverVars, callVars, processVars
    <2>2. DoneInv' /\ ModeReplies' /\ ModeSeen' /\ SureReplies' /\ SureSeen'
      BY <2>1 DEF PromiseInv, DoneInv, ModeReplies, ModeSeen, SureReplies, SureSeen, Settled
    <2>3. StageInv'
      BY <2>1 DEF PromiseInv, StageInv, Stage, IsIsm, AnyRedirection, SyncedUefi
    <2>4. SuccessMeansSet'
      BY <2>1 DEF PromiseInv, SuccessMeansSet, InEffect, IsIsm, AnyRedirection, SyncedUefi
    <2> QED BY <2>2, <2>3, <2>4 DEF PromiseInv
  <1> QED BY <1>1, <1>2, <1>3, <1>4, <1>5 DEF Next, Terminated

LEMMA PromiseInit == Init => PromiseInv
  <1> SUFFICES ASSUME Init PROVE PromiseInv OBVIOUS
  <1>1. /\ main = "start" /\ out = "none" /\ at = "idle" /\ wire = <<>> /\ seen = 0
        /\ ask = "initialize" /\ got = NoReply
    BY DEF Init, HostInit, IdleCall
  <1>2. NoReply.ask = "initialize" BY DEF NoReply, Reply
  <1> QED BY <1>1, <1>2 DEF PromiseInv, DoneInv, ModeReplies, ModeSeen, MayBe, SureReplies, Sure,
      SureSeen, Settled, StageInv, Stage, SuccessMeansSet

THEOREM PromiseInvariant == Spec => []PromiseInv
  <1>1. HostInv /\ PromiseInv /\ [Next]_vars => PromiseInv' BY PromiseNext
  <1> QED BY PromiseInit, <1>1, HostInvariant, PTL DEF Spec

(* A command reports success only when the device holds what it was asked    *)
(* for, but for what rpc does not look at.                                   *)
THEOREM SuccessIsReal == Spec => []SuccessMeansSet
  <1>1. PromiseInv => SuccessMeansSet BY DEF PromiseInv
  <1> QED BY <1>1, PromiseInvariant, PTL

-----------------------------------------------------------------------------
(* What is written in which mode. *)

LEMMA NothingWritten == ASSUME device \in Devices, UNCHANGED device PROVE WritesInMode
  <1>1. device.sync \in BOOLEAN /\ device.uefi \in BOOLEAN /\ device.wifi \in BOOLEAN
    BY DEF Devices
  <1>2. device = [device EXCEPT !.sync = device.sync, !.uefi = device.uefi, !.wifi = device.wifi]
    BY DEF Devices
  <1> QED BY <1>1, <1>2 DEF WritesInMode

LEMMA WsmanWrites ==
  ASSUME HostInv, PromiseInv, "changed" \notin mishaps,
         NEW place, NEW W, Wsman(place, W), device' = W
  PROVE  WritesInMode
  <1> USE DEF HostInv, ProcessInv
  <1>0. /\ device \in Devices /\ seen \in {0, device.mode} /\ want \in Arguments
        /\ main \in {"redirection", "kvm", "listener", "optin", "consent", "realm", "match", "time",
                    "settings"} => seen # 0
        /\ main = "consent" => seen = 2
        /\ device.mode \in 0..2
    BY WsmanAt DEF DriverAndDevice, FrontTypeOK, PromiseInv, ModeSeen, MayBe, PlaceInv, FeaturePlaces,
       Devices
  <1>1. CASE W = device BY <1>0, <1>1, NothingWritten
  <1>2. CASE W # device /\ ~WiFiCall(place, W)
    <2>1. device.mode # 0 /\ seen = device.mode
      BY <1>0, <1>2 DEF Wsman, FeaturesCall, PasswordCall, ProxyCall, SettingsCall
    <2>2. W.mebx # device.mebx \/ W.consent # device.consent => seen = 2
      <3>1. CASE FeaturesCall(place, W) BY <1>0, <1>2, <3>1 DEF FeaturesCall, Devices
      <3>2. CASE PasswordCall(place, W) BY <1>0, <1>2, <3>2 DEF PasswordCall, Devices
      <3>3. CASE ProxyCall(place, W) BY <1>0, <1>2, <3>3 DEF ProxyCall, Devices
      <3>4. CASE SettingsCall(place, W) BY <1>0, <1>2, <3>4 DEF SettingsCall, Devices
      <3> QED BY <1>2, <3>1, <3>2, <3>3, <3>4 DEF Wsman
    <2> QED BY <2>1, <2>2 DEF WritesInMode
  <1>3. CASE W # device /\ WiFiCall(place, W)
    <2>1. PICK s \in BOOLEAN, u \in BOOLEAN, w \in BOOLEAN :
             W = [device EXCEPT !.sync = s, !.uefi = u, !.wifi = w]
      <3>1. CASE W = [device EXCEPT !.sync = want.sync, !.uefi = SyncedUefi]
        <4>1. machine.uefi \in BOOLEAN /\ want.uefi \in BOOLEAN /\ want.sync \in BOOLEAN
          BY <1>0, MachinesAssumption DEF FrontTypeOK, Arguments
        <4>2. SyncedUefi \in BOOLEAN BY <4>1, Zenon DEF SyncedUefi
        <4>3. W = [device EXCEPT !.sync = want.sync, !.uefi = SyncedUefi, !.wifi = device.wifi]
          BY <1>0, <3>1 DEF Devices
        <4>4. device.wifi \in BOOLEAN BY <1>0 DEF Devices
        <4> QED BY <4>1, <4>2, <4>3, <4>4
      <3>2. CASE W = [device EXCEPT !.wifi = TRUE]
        <4>1. W = [device EXCEPT !.sync = device.sync, !.uefi = device.uefi, !.wifi = TRUE]
          BY <1>0, <3>2 DEF Devices
        <4>2. device.sync \in BOOLEAN /\ device.uefi \in BOOLEAN BY <1>0 DEF Devices
        <4> QED BY <4>1, <4>2
      <3> QED BY <1>3, <3>1, <3>2 DEF WiFiCall
    <2>2. device'.mebx = device.mebx /\ device'.consent = device.consent
      BY <1>0, <2>1 DEF Devices
    <2> QED BY <2>1, <2>2 DEF WritesInMode
  <1> QED BY <1>1, <1>2, <1>3

LEMMA StepWrites ==
  ASSUME HostInv, PromiseInv, [Next]_vars, "changed" \notin mishaps' PROVE WritesInMode
  <1>0. device \in Devices BY DEF HostInv, DriverAndDevice
  <1>1. CASE HostOperation
    <2>1. CASE UNCHANGED device BY <1>0, <2>1, NothingWritten
    <2>2. CASE device' = [device EXCEPT !.mode = 0]
      <3>1. CASE device.mode = 0
        <4>1. device' = device BY <1>0, <2>2, <3>1 DEF Devices
        <4> QED BY <1>0, <4>1, NothingWritten
      <3>2. CASE device.mode # 0 BY <1>0, <2>2, <3>2 DEF WritesInMode, Devices
      <3> QED BY <3>1, <3>2
    <2> QED BY <1>1, <2>1, <2>2
        DEF HostOperation, HostStep, Open, Send, Receive, Deliver, Undelivered
  <1>2. CASE FrontStep
    <2>1. UNCHANGED device BY <1>2, FrontSteps DEF Plain
    <2> QED BY <1>0, <2>1, NothingWritten
  <1>3. CASE CommandStep
    <2>0. UNCHANGED machine BY <1>3, CommandCases
    <2>1. CASE CallStep
      <3>1. CASE GiveUp
        <4>1. UNCHANGED device BY <3>1 DEF GiveUp
        <4> QED BY <1>0, <4>1, NothingWritten
      <3>2. ASSUME NEW place, NEW W, Wsman(place, W), Called(place, W) PROVE WritesInMode
        <4>1. device' \in {device, W} /\ "changed" \notin mishaps BY <3>2 DEF Called
        <4> QED BY <1>0, <3>2, <4>1, NothingWritten, WsmanWrites
      <3> QED BY <2>1, <3>1, <3>2 DEF CallStep
    <2>2. CASE \/ DispatchConfigure \/ AskPassword \/ MakeClient \/ AskSystem \/ AskSku
               \/ DecideKvm \/ DeactivateCcm \/ CheckUnprovision
      <3>1. UNCHANGED device BY <2>0, <2>2, ConfigureSteps DEF Plain
      <3> QED BY <1>0, <3>1, NothingWritten
    <2>3. CASE InfoStep
      <3>1. UNCHANGED device BY <2>0, <2>3, InfoSteps DEF Plain
      <3> QED BY <1>0, <3>1, NothingWritten
    <2> QED BY <1>3, <2>1, <2>2, <2>3, CommandCases
  <1>4. CASE ModeChanges BY <1>4 DEF ModeChanges
  <1>5. CASE UNCHANGED vars
    BY <1>0, <1>5, NothingWritten DEF vars
  <1> QED BY <1>1, <1>2, <1>3, <1>4, <1>5 DEF Next, Terminated

(* The MEBx password and the user consent are written in ACM only, and in    *)
(* pre-provisioning only what Wi-Fi synchronisation is.                      *)
THEOREM WritesOnlyInItsMode == Spec => OnlyInItsMode
  <1>1. HostInv /\ PromiseInv /\ [Next]_vars => ["changed" \notin mishaps' => WritesInMode]_vars
    BY StepWrites
  <1> QED BY <1>1, HostInvariant, PromiseInvariant, PTL DEF Spec, OnlyInItsMode
=============================================================================
