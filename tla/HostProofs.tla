----------------------------- MODULE HostProofs -----------------------------
(***************************************************************************)
(* What one call of rpc promises on every platform and device, for every   *)
(* set of passwords, proxies and certificate hashes.                       *)
(***************************************************************************)
EXTENDS HostCommand, TLAPS

FeaturePlaces ==
    {"redirection", "system", "version", "sku", "kvm", "listener", "optin", "consent"}
InfoPlaces == {"infoSecret", "infoClient", "sections", "section"}
FrontPlaces == {"start", "access", "parse", "apply", "enforced", "dispatch"}

(* Which command is where, and what it has found of the control mode.        *)
PlaceInv ==
    /\ main \in FrontPlaces => cmd = "none"
    /\ main = "context" => cmd \in {"none", "version"}
    /\ main \in InfoPlaces => cmd = InfoCommand
    /\ main \in FeaturePlaces => cmd = "features"
    /\ main = "realm" => cmd = "password"
    /\ main = "match" => cmd = "proxyDelete"
    /\ main = "time" => cmd = "clock"
    /\ main = "settings" => cmd = "hostname"
    /\ main \in {"capabilities", "sync", "wifi"} => cmd = "wifi"
    /\ main = "unprovision" => cmd = "deactivate"
    /\ cmd \in {"proxyAdd", "proxyDelete"} => want.proxy \in Proxies
    /\ main \in FeaturePlaces \cup {"realm", "match", "time", "settings"} => seen # 0
    /\ main \in {"optin", "consent"} => seen = 2

(* Which request is out where.                                               *)
AskInv ==
    /\ main \in {"apply", "context"} => ask = "mode"
    /\ main = "unprovision" <=> ask = "unprovision"

(* What is on the wire are replies to the request that is out; but for a     *)
(* version, which may be asked for again, there is at most the one.          *)
WireInv ==
    /\ at \in {"idle", "open", "back"} => wire = <<>>
    /\ ask \notin Versions /\ at \in {"send", "answered"} => wire = <<>>
    /\ ask \notin Versions /\ at = "receive" => Len(wire) = 1
    /\ \A i \in 1..Len(wire) : wire[i].ask = ask /\ wire[i].part = part
    /\ at = "answered" => ask = "initialize" \/ (got.ask = ask /\ got.part = part)
    /\ at # "answered" => got = NoReply
    /\ ask # "hash" => part = 0

(* The values of the replies: of the control mode one that is or was, unless *)
(* it is the 0 of an error status.                                           *)
ReplyOK(r) ==
    /\ r.ask = "mode" => r.value \in 0..2
    /\ r.ask = "handles" => r.value \in {0, Hashes}
ReplyInv ==
    /\ \A i \in 1..Len(wire) : ReplyOK(wire[i])
    /\ ReplyOK(got)
    /\ ask = "mode" => res.value \in 0..2

(* A step of the process outside the driver: the handle is as it was, and    *)
(* either nothing is asked for or the next operation begins.                 *)
Resumes ==
    /\ at \in {"idle", "back"}
    /\ \/ Forget
       \/ \E a \in Asks, n \in Nat : Begin(a, n)
    /\ UNCHANGED driverVars

(* What every WSMAN call comes to, W being what it is to do.                 *)
Called(place, W) ==
    /\ Same /\ Forget
    /\ mishaps' = mishaps \/ mishaps' = mishaps \cup {"unseen"}
    /\ device' = device \/ device' = W
    /\ \/ main' = "done" /\ out' \in {"error", "panic"}
       \/ /\ main' = place /\ out' = IF place = "done" THEN "ok" ELSE out
          /\ mishaps' = {} => device' = W

LEMMA GetCalls == ASSUME NEW place, Get(place) PROVE Called(place, device)
  BY DEF Get, NoClient, Crash, Leave, Fail, Continue, Succeed, Move, Called
LEMMA PutCalls == ASSUME NEW place, NEW W, Put(place, W) PROVE Called(place, W)
  BY DEF Put, NoClient, Crash, Leave, Fail, Continue, Succeed, Move, Called
LEMMA InvokeCalls == ASSUME NEW place, NEW W, Invoke(place, W) PROVE Called(place, W)
  <1>1. CASE Put(place, W) BY <1>1, PutCalls
  <1>2. CASE /\ Accepted /\ Continue(place)
             /\ mishaps' = mishaps \cup {"unseen"}
             /\ UNCHANGED device /\ Same
    BY <1>2 DEF Continue, Succeed, Leave, Move, Called
  <1> QED BY <1>1, <1>2 DEF Invoke

-----------------------------------------------------------------------------
(* The driver. *)

DriverInv == HostTypeOK /\ WireInv /\ ReplyInv

LEMMA ValueType ==
  ASSUME device \in Devices, ask \in Asks
  PROVE  /\ Value \in Nat
         /\ ask = "mode" => Value \in 0..2
         /\ ask = "handles" => Value = Hashes
  BY HashesAssumption DEF Value, Devices

LEMMA DeliverWire ==
  ASSUME device \in Devices, DriverInv, Deliver, at = "send", UNCHANGED <<ask, part>>
  PROVE  /\ wire' \in Seq(Replies)
         /\ ask \notin Versions => Len(wire') = 1
         /\ \A i \in 1..Len(wire') :
              wire'[i].ask = ask /\ wire'[i].part = part /\ ReplyOK(wire'[i])
  <1> PICK good \in BOOLEAN :
         wire' = Append(wire, Reply(ask, part, good, IF good THEN Value ELSE 0))
    BY DEF Deliver
  <1> DEFINE r == Reply(ask, part, good, IF good THEN Value ELSE 0)
  <1>1. ask \in Asks /\ part \in 0..Hashes /\ wire \in Seq(Replies)
    BY DEF DriverInv, HostTypeOK, DriverTypeOK
  <1>2. r \in Replies /\ r.ask = ask /\ r.part = part /\ ReplyOK(r)
    BY <1>1, ValueType, HashesAssumption DEF Reply, Replies, ReplyOK
  <1>3. wire' = Append(wire, r) OBVIOUS
  <1> HIDE DEF r
  <1>4. wire' \in Seq(Replies) /\ Len(wire') = Len(wire) + 1 BY <1>1, <1>2, <1>3
  <1>5. ask \notin Versions => Len(wire') = 1
    BY <1>4 DEF DriverInv, WireInv
  <1>6. ASSUME NEW i \in 1..Len(wire')
        PROVE  wire'[i].ask = ask /\ wire'[i].part = part /\ ReplyOK(wire'[i])
    <2>1. CASE i = Len(wire) + 1
      <3>1. wire'[i] = r BY <2>1, <1>1, <1>3
      <3> QED BY <3>1, <1>2
    <2>2. CASE i # Len(wire) + 1
      <3>1. i \in 1..Len(wire) /\ wire'[i] = wire[i] BY <2>2, <1>1, <1>3, <1>4, <1>6
      <3> QED BY <3>1 DEF DriverInv, WireInv, ReplyInv
    <2> QED BY <2>1, <2>2
  <1> QED BY <1>4, <1>5, <1>6

DriverAndDevice == DriverInv /\ device \in Devices /\ mishaps \subseteq Mishaps

LEMMA OpenDriver ==
  ASSUME DriverAndDevice, Open, UNCHANGED <<ticks, res>>
  PROVE  DriverAndDevice'
  <1>0. UNCHANGED <<device, mishaps, wire, ask, part, got, ticks, res>> /\ at = "open"
    BY DEF Open
  <1>1. at' \in {"answered", "send", "failed"} /\ fd' \in Clients \cup {"closed"}
    BY DEF Open, ClientOf, Clients
  <1>2. at' = "answered" => ask = "initialize"
    BY DEF Open
  <1>3. HostTypeOK'
    BY <1>0, <1>1 DEF DriverAndDevice, DriverInv, HostTypeOK, DriverTypeOK
  <1>4. WireInv'
    BY <1>0, <1>1, <1>2 DEF DriverAndDevice, DriverInv, WireInv
  <1>5. ReplyInv'
    BY <1>0 DEF DriverAndDevice, DriverInv, ReplyInv, ReplyOK
  <1> QED BY <1>0, <1>3, <1>4, <1>5 DEF DriverAndDevice, DriverInv

LEMMA SendDriver ==
  ASSUME DriverAndDevice, Send, UNCHANGED <<ticks, res>>
  PROVE  DriverAndDevice'
  <1>0. UNCHANGED <<fd, ask, part, got, ticks, res>> /\ at = "send"
    BY DEF Send
  <1>1. /\ at' \in {"receive", "failed"}
        /\ at' = "receive" => Deliver
        /\ Deliver \/ Undelivered
    BY DEF Send
  <1>2. CASE Deliver
    <2>1. device' \in Devices /\ mishaps' \subseteq Mishaps
      <3> PICK good \in BOOLEAN :
            /\ mishaps' = IF good THEN mishaps ELSE mishaps \cup {"unseen"}
            /\ device' = IF good /\ ask = "unprovision" THEN [device EXCEPT !.mode = 0] ELSE device
        BY <1>2 DEF Deliver
      <3>1. [device EXCEPT !.mode = 0] \in Devices BY DEF DriverAndDevice, Devices
      <3> QED BY <3>1 DEF DriverAndDevice, Mishaps
    <2>2. /\ wire' \in Seq(Replies)
          /\ ask \notin Versions => Len(wire') = 1
          /\ \A i \in 1..Len(wire') :
               wire'[i].ask = ask /\ wire'[i].part = part /\ ReplyOK(wire'[i])
      BY <1>0, <1>2, DeliverWire DEF DriverAndDevice
    <2>3. HostTypeOK'
      BY <1>0, <1>1, <2>2 DEF DriverAndDevice, DriverInv, HostTypeOK, DriverTypeOK
    <2>4. WireInv'
      BY <1>0, <1>1, <2>2 DEF DriverAndDevice, DriverInv, WireInv
    <2>5. ReplyInv'
      BY <1>0, <2>2 DEF DriverAndDevice, DriverInv, ReplyInv, ReplyOK
    <2> QED BY <2>1, <2>3, <2>4, <2>5 DEF DriverAndDevice, DriverInv
  <1>3. CASE Undelivered /\ at' = "failed"
    <2>1. UNCHANGED <<wire, mishaps, device>> BY <1>3 DEF Undelivered
    <2>3. HostTypeOK'
      BY <1>0, <1>3, <2>1 DEF DriverAndDevice, DriverInv, HostTypeOK, DriverTypeOK
    <2>4. WireInv'
      BY <1>0, <1>3, <2>1 DEF DriverAndDevice, DriverInv, WireInv
    <2>5. ReplyInv'
      BY <1>0, <2>1 DEF DriverAndDevice, DriverInv, ReplyInv, ReplyOK
    <2> QED BY <2>1, <2>3, <2>4, <2>5 DEF DriverAndDevice, DriverInv
  <1> QED BY <1>1, <1>2, <1>3

LEMMA ReceiveDriver ==
  ASSUME DriverAndDevice, Receive, UNCHANGED <<ticks, res>>
  PROVE  DriverAndDevice'
  <1>0. UNCHANGED <<device, mishaps, fd, ask, part, ticks, res>> /\ at = "receive" /\ wire # <<>>
    BY DEF Receive
  <1>1. \/ at' = "answered" /\ got' = Head(wire) /\ wire' = Tail(wire)
        \/ at' = "failed" /\ got' = got /\ wire' \in {wire, Tail(wire)}
    BY DEF Receive
  <1>2. wire \in Seq(Replies) /\ Len(wire) \in Nat /\ Len(wire) > 0
    BY <1>0 DEF DriverAndDevice, DriverInv, HostTypeOK, DriverTypeOK
  <1>3. Head(wire) = wire[1] /\ Head(wire) \in Replies /\ 1 \in 1..Len(wire)
    BY <1>2
  <1>4. /\ Tail(wire) \in Seq(Replies) /\ Len(Tail(wire)) = Len(wire) - 1
        /\ \A i \in 1..Len(Tail(wire)) : Tail(wire)[i] = wire[i + 1] /\ i + 1 \in 1..Len(wire)
    BY <1>2
  <1>5. HostTypeOK'
    BY <1>0, <1>1, <1>3, <1>4 DEF DriverAndDevice, DriverInv, HostTypeOK, DriverTypeOK
  <1>6. \A i \in 1..Len(wire) : wire[i].ask = ask /\ wire[i].part = part /\ ReplyOK(wire[i])
    BY DEF DriverAndDevice, DriverInv, WireInv, ReplyInv
  <1>7. \A i \in 1..Len(wire') :
            wire'[i].ask = ask /\ wire'[i].part = part /\ ReplyOK(wire'[i])
    BY <1>1, <1>4, <1>6
  <1>8. ask \notin Versions => Len(wire) = 1
    BY <1>0 DEF DriverAndDevice, DriverInv, WireInv
  <1>9. WireInv'
    <2>1. CASE at' = "answered"
      <3>1. ask \notin Versions => wire' = <<>> BY <2>1, <1>1, <1>4, <1>8
      <3> QED BY <2>1, <3>1, <1>0, <1>1, <1>3, <1>6, <1>7
           DEF DriverAndDevice, DriverInv, WireInv
    <2>2. CASE at' = "failed"
      BY <2>2, <1>0, <1>1, <1>7 DEF DriverAndDevice, DriverInv, WireInv
    <2> QED BY <2>1, <2>2, <1>1
  <1>10. ReplyInv'
    BY <1>0, <1>1, <1>3, <1>6, <1>7 DEF DriverAndDevice, DriverInv, ReplyInv, ReplyOK
  <1> QED BY <1>0, <1>5, <1>9, <1>10 DEF DriverAndDevice, DriverInv

LEMMA AskAgainDriver ==
  ASSUME DriverAndDevice, AskVersionAgain \/ AskHash, UNCHANGED <<device, mishaps>>
  PROVE  DriverAndDevice'
  <1>1. CASE AskVersionAgain
    <2>0. /\ UNCHANGED <<fd, wire, ask, part, res>> /\ at' = "send" /\ got' = NoReply
          /\ ask \in Versions /\ ticks' = ticks - 1 /\ ticks > 0
      BY <1>1 DEF AskVersionAgain
    <2>1. NoReply \in Replies /\ NoReply.ask = "initialize"
      BY HashesAssumption DEF NoReply, Reply, Replies, Asks
    <2>2. HostTypeOK'
      BY <2>0, <2>1 DEF DriverAndDevice, DriverInv, HostTypeOK, DriverTypeOK
    <2>3. WireInv' BY <2>0 DEF DriverAndDevice, DriverInv, WireInv, Versions
    <2>4. ReplyInv'
      BY <2>0, <2>1 DEF DriverAndDevice, DriverInv, ReplyInv, ReplyOK
    <2> QED BY <2>2, <2>3, <2>4 DEF DriverAndDevice, DriverInv
  <1>2. CASE AskHash
    <2>0. /\ UNCHANGED <<fd, wire, ticks, res>> /\ at' = "send" /\ got' = NoReply
          /\ ask' = "hash" /\ part' = part + 1 /\ at = "answered"
          /\ (ask = "handles" /\ got.value > 0) \/ (ask = "hash" /\ part < Hashes)
      BY <1>2 DEF AskHash, Ask
    <2>1. NoReply \in Replies /\ NoReply.ask = "initialize"
      BY HashesAssumption DEF NoReply, Reply, Replies, Asks
    <2>2. part \in 0..Hashes /\ part' \in 0..Hashes
      <3>1. CASE ask = "hash" BY <3>1, <2>0, HashesAssumption
                 DEF DriverAndDevice, DriverInv, HostTypeOK, DriverTypeOK
      <3>2. CASE ask = "handles"
        <4>1. part = 0 /\ got.ask = "handles"
          BY <3>2, <2>0 DEF DriverAndDevice, DriverInv, WireInv
        <4>2. got.value \in {0, Hashes}
          BY <4>1 DEF DriverAndDevice, DriverInv, ReplyInv, ReplyOK
        <4> QED BY <3>2, <4>1, <4>2, <2>0, HashesAssumption
      <3> QED BY <3>1, <3>2, <2>0
    <2>3. wire = <<>> BY <2>0 DEF DriverAndDevice, DriverInv, WireInv, Versions
    <2>4. HostTypeOK'
      BY <2>0, <2>1, <2>2 DEF DriverAndDevice, DriverInv, HostTypeOK, DriverTypeOK, Asks
    <2>5. WireInv'
      BY <2>0, <2>3 DEF WireInv, Versions
    <2>6. ReplyInv'
      BY <2>0, <2>1, <2>3 DEF ReplyInv, ReplyOK
    <2> QED BY <2>4, <2>5, <2>6 DEF DriverAndDevice, DriverInv
  <1> QED BY <1>1, <1>2

LEMMA ReturnDriver ==
  ASSUME DriverAndDevice, OperationFails \/ OperationReturns, UNCHANGED <<device, mishaps>>
  PROVE  DriverAndDevice'
  <1>0. /\ UNCHANGED <<ask, part>> /\ at' = "back" /\ got' = NoReply /\ ticks' = 0
        /\ fd' = "closed" /\ wire' = <<>>
        /\ \/ res' = Result(FALSE, 0)
           \/ at = "answered" /\ res' = Result(ask \in Versions => got.value > 0, got.value)
    BY DEF OperationFails, OperationReturns, Return, Close
  <1>1. NoReply \in Replies /\ NoReply.ask = "initialize" /\ got \in Replies
    BY HashesAssumption DEF NoReply, Reply, Replies, Asks, DriverAndDevice, DriverInv, HostTypeOK, DriverTypeOK
  <1>2. got.value \in Nat BY <1>1 DEF Replies
  <1>3. res' \in [ok : BOOLEAN, value : Nat]
    <2>1. \A o \in BOOLEAN, v \in Nat : Result(o, v) \in [ok : BOOLEAN, value : Nat]
      BY DEF Result
    <2>2. (ask \in Versions => got.value > 0) \in BOOLEAN OBVIOUS
    <2>3. Result(ask \in Versions => got.value > 0, got.value) \in [ok : BOOLEAN, value : Nat]
      BY <1>2, <2>1, <2>2, Zenon
    <2>4. Result(FALSE, 0) \in [ok : BOOLEAN, value : Nat] BY <2>1
    <2> QED BY <2>3, <2>4, <1>0
  <1>4. HostTypeOK'
    BY <1>0, <1>1, <1>3 DEF DriverAndDevice, DriverInv, HostTypeOK, DriverTypeOK
  <1>5. WireInv' BY <1>0 DEF DriverAndDevice, DriverInv, WireInv
  <1>6. ask = "mode" => res'.value \in 0..2
    <2>1. CASE res' = Result(FALSE, 0) BY <2>1 DEF Result
    <2>2. CASE at = "answered" /\ res' = Result(ask \in Versions => got.value > 0, got.value)
      <3>1. ask = "mode" => got.value \in 0..2
        BY <2>2 DEF DriverAndDevice, DriverInv, WireInv, ReplyInv, ReplyOK
      <3>2. res'.value = got.value BY <2>2 DEF Result
      <3> QED BY <3>1, <3>2
    <2> QED BY <2>1, <2>2, <1>0
  <1>7. ReplyInv' BY <1>0, <1>1, <1>6 DEF ReplyInv, ReplyOK
  <1> QED BY <1>4, <1>5, <1>7 DEF DriverAndDevice, DriverInv

LEMMA HostDriver ==
  ASSUME DriverAndDevice, HostStep PROVE DriverAndDevice'
  BY OpenDriver, SendDriver, ReceiveDriver, AskAgainDriver, ReturnDriver DEF HostStep

(* The process leaves the driver alone, or begins its next operation.        *)
LEMMA ResumesDriver ==
  ASSUME DriverInv, Resumes PROVE DriverInv'
  <1>0. /\ UNCHANGED <<fd, wire>> /\ wire = <<>>
        /\ at' \in {"idle", "open"} /\ ask' \in Asks /\ part' = 0 /\ ticks' \in Nat
        /\ got' = NoReply /\ res' = NoResult
    BY DEF Resumes, Forget, Begin, driverVars, Asks, DriverInv, WireInv
  <1>1. NoReply \in Replies /\ NoReply.ask = "initialize" /\ NoResult \in [ok : BOOLEAN, value : Nat]
        /\ NoResult.value = 0
    BY HashesAssumption DEF NoReply, Reply, Replies, Asks, NoResult, Result
  <1>2. HostTypeOK'
    BY <1>0, <1>1, HashesAssumption DEF DriverInv, HostTypeOK, DriverTypeOK
  <1>3. WireInv' BY <1>0 DEF WireInv
  <1>4. ReplyInv' BY <1>0, <1>1 DEF ReplyInv, ReplyOK
  <1> QED BY <1>2, <1>3, <1>4 DEF DriverInv

-----------------------------------------------------------------------------
(* The WSMAN calls. *)

(* The calls of each command: where it goes on and what it does.             *)
FeaturesCall(place, W) ==
    \/ main = "run" /\ cmd = "features" /\ seen # 0 /\ place = "redirection" /\ W = device
    \/ /\ main = "redirection" /\ place = "system"
       /\ W = [device EXCEPT !.ider = want.ider, !.sol = want.sol]
    \/ main = "kvm" /\ place = "listener" /\ W = [device EXCEPT !.kvm = want.kvm]
    \/ /\ main = "listener" /\ place = IF seen = 2 THEN "optin" ELSE "done"
       /\ W = [device EXCEPT !.listener = AnyRedirection]
    \/ /\ main = "optin" /\ W = device
       /\ place = IF device.consent = want.consent THEN "done" ELSE "consent"
    \/ main = "consent" /\ place = "done" /\ W = [device EXCEPT !.consent = want.consent]

PasswordCall(place, W) ==
    \/ main = "run" /\ cmd = "password" /\ seen # 0 /\ place = "realm" /\ W = device
    \/ main = "realm" /\ place = "done" /\ W = [device EXCEPT !.password = want.password]
    \/ /\ main = "run" /\ cmd = "mebx" /\ seen = 2 /\ place = "done"
       /\ W = [device EXCEPT !.mebx = want.password]
    \/ /\ main = "run" /\ cmd = "deactivate" /\ seen # 0 /\ seen # 1 /\ place = "done"
       /\ W = [device EXCEPT !.mode = 0]

ProxyCall(place, W) ==
    \/ main = "run" /\ cmd = "proxyList" /\ place = "done" /\ W = device
    \/ /\ main = "run" /\ cmd = "proxyAdd" /\ seen # 0 /\ place = "done"
       /\ W = [device EXCEPT !.proxies = @ \cup {want.proxy}]
    \/ main = "run" /\ cmd = "proxyDelete" /\ seen # 0 /\ place = "match" /\ W = device
    \/ /\ main = "match" /\ place = "done"
       /\ \E p \in Matching : W = [device EXCEPT !.proxies = @ \ {p}]

SettingsCall(place, W) ==
    \/ main = "run" /\ cmd = "clock" /\ seen # 0 /\ place = "time" /\ W = device
    \/ main = "time" /\ place = "done" /\ W = [device EXCEPT !.clock = TRUE]
    \/ main = "run" /\ cmd = "hostname" /\ seen # 0 /\ place = "settings" /\ W = device
    \/ main = "settings" /\ place = "done" /\ W = [device EXCEPT !.name = TRUE]

WiFiCall(place, W) ==
    \/ main = "run" /\ cmd = "wifi" /\ place = "capabilities" /\ W = device
    \/ /\ main = "capabilities" /\ W = device
       /\ place = IF device.sync # want.sync \/ device.uefi # SyncedUefi THEN "sync" ELSE "wifi"
    \/ /\ main = "sync" /\ place = "wifi"
       /\ W = [device EXCEPT !.sync = want.sync, !.uefi = SyncedUefi]
    \/ main = "wifi" /\ place = "done" /\ W = [device EXCEPT !.wifi = TRUE]

Wsman(place, W) ==
    FeaturesCall(place, W) \/ PasswordCall(place, W) \/ ProxyCall(place, W)
      \/ SettingsCall(place, W) \/ WiFiCall(place, W)

CallStep ==
    /\ at = "idle"
    /\ GiveUp \/ \E place, W : Wsman(place, W) /\ Called(place, W)

LEMMA FeaturesCalls ==
  ASSUME GetRedirection \/ SetRedirection \/ SetKvm \/ PutRedirection \/ GetOptIn \/ PutOptIn
  PROVE  CallStep
  <1>1. CASE GetRedirection
    <2> DEFINE p == "redirection"
               W == device
    <2>1. at = "idle" /\ (GiveUp \/ (Called(p, W) /\ FeaturesCall(p, W)))
      BY <1>1, GetCalls DEF GetRedirection, Running, Here, Inactive, FeaturesCall
    <2> QED BY <2>1 DEF CallStep, Wsman
  <1>2. CASE SetRedirection
    <2> DEFINE p == "system"
               W == [device EXCEPT !.ider = want.ider, !.sol = want.sol]
    <2>1. at = "idle" /\ Called(p, W) /\ FeaturesCall(p, W)
      BY <1>2, InvokeCalls DEF SetRedirection, Here, FeaturesCall
    <2> QED BY <2>1 DEF CallStep, Wsman
  <1>3. CASE SetKvm
    <2> DEFINE p == "listener"
               W == [device EXCEPT !.kvm = want.kvm]
    <2>1. at = "idle" /\ Called(p, W) /\ FeaturesCall(p, W)
      BY <1>3, InvokeCalls DEF SetKvm, Here, FeaturesCall
    <2> QED BY <2>1 DEF CallStep, Wsman
  <1>4. CASE PutRedirection
    <2> DEFINE p == IF seen = 2 THEN "optin" ELSE "done"
               W == [device EXCEPT !.listener = AnyRedirection]
    <2>1. at = "idle" /\ Called(p, W) /\ FeaturesCall(p, W)
      BY <1>4, PutCalls DEF PutRedirection, Here, FeaturesCall
    <2> QED BY <2>1 DEF CallStep, Wsman
  <1>5. CASE GetOptIn
    <2> DEFINE p == IF device.consent = want.consent THEN "done" ELSE "consent"
               W == device
    <2>1. at = "idle" /\ Called(p, W) /\ FeaturesCall(p, W)
      BY <1>5, GetCalls DEF GetOptIn, Here, FeaturesCall
    <2> QED BY <2>1 DEF CallStep, Wsman
  <1>6. CASE PutOptIn
    <2> DEFINE p == "done"
               W == [device EXCEPT !.consent = want.consent]
    <2>1. at = "idle" /\ Called(p, W) /\ FeaturesCall(p, W)
      BY <1>6, PutCalls DEF PutOptIn, Here, FeaturesCall
    <2> QED BY <2>1 DEF CallStep, Wsman
  <1> QED BY <1>1, <1>2, <1>3, <1>4, <1>5, <1>6

LEMMA PasswordCalls ==
  ASSUME GetRealm \/ UpdatePassword \/ SetMebx \/ DeactivateAcm
  PROVE  CallStep
  <1>1. CASE GetRealm
    <2> DEFINE p == "realm"
               W == device
    <2>1. at = "idle" /\ (GiveUp \/ (Called(p, W) /\ PasswordCall(p, W)))
      BY <1>1, GetCalls DEF GetRealm, Running, Here, Inactive, PasswordCall
    <2> QED BY <2>1 DEF CallStep, Wsman
  <1>2. CASE UpdatePassword
    <2> DEFINE p == "done"
               W == [device EXCEPT !.password = want.password]
    <2>1. at = "idle" /\ Called(p, W) /\ PasswordCall(p, W)
      BY <1>2, InvokeCalls DEF UpdatePassword, Here, PasswordCall
    <2> QED BY <2>1 DEF CallStep, Wsman
  <1>3. CASE SetMebx
    <2> DEFINE p == "done"
               W == [device EXCEPT !.mebx = want.password]
    <2>1. at = "idle" /\ (GiveUp \/ (Called(p, W) /\ PasswordCall(p, W)))
      BY <1>3, InvokeCalls DEF SetMebx, Running, Here, PasswordCall
    <2> QED BY <2>1 DEF CallStep, Wsman
  <1>4. CASE DeactivateAcm
    <2> DEFINE p == "done"
               W == [device EXCEPT !.mode = 0]
    <2>1. at = "idle" /\ (GiveUp \/ (Called(p, W) /\ PasswordCall(p, W)))
      BY <1>4, InvokeCalls DEF DeactivateAcm, Running, Here, Inactive, PasswordCall
    <2> QED BY <2>1 DEF CallStep, Wsman
  <1> QED BY <1>1, <1>2, <1>3, <1>4

LEMMA ProxyCalls == ASSUME Proxy PROVE CallStep
  <1>1. CASE ProxyInactive
    BY <1>1 DEF ProxyInactive, Here, CallStep
  <1>2. CASE ListProxies
    <2>1. at = "idle" /\ Called("done", device) /\ ProxyCall("done", device)
      BY <1>2, GetCalls DEF ListProxies, Running, Here, ProxyCall
    <2> QED BY <2>1 DEF CallStep, Wsman
  <1>3. CASE AddProxy
    <2> DEFINE W == [device EXCEPT !.proxies = @ \cup {want.proxy}]
    <2>1. at = "idle" /\ Called("done", W) /\ ProxyCall("done", W)
      BY <1>3, InvokeCalls DEF AddProxy, Running, Here, Inactive, ProxyCall
    <2> QED BY <2>1 DEF CallStep, Wsman
  <1>4. CASE FindProxy
    <2>1. at = "idle" /\ Called("match", device) /\ ProxyCall("match", device)
      BY <1>4, GetCalls DEF FindProxy, Running, Here, Inactive, ProxyCall
    <2> QED BY <2>1 DEF CallStep, Wsman
  <1>5. CASE DeleteProxy
    <2>1. CASE GiveUp BY <2>1, <1>5 DEF DeleteProxy, Here, CallStep
    <2>2. CASE \E p \in Matching : Invoke("done", [device EXCEPT !.proxies = @ \ {p}])
      <3> PICK p \in Matching : Invoke("done", [device EXCEPT !.proxies = @ \ {p}]) BY <2>2
      <3> DEFINE W == [device EXCEPT !.proxies = @ \ {p}]
      <3>1. at = "idle" /\ Called("done", W) /\ ProxyCall("done", W)
        BY <1>5, InvokeCalls DEF DeleteProxy, Here, ProxyCall
      <3> QED BY <3>1 DEF CallStep, Wsman
    <2> QED BY <2>1, <2>2, <1>5 DEF DeleteProxy
  <1> QED BY <1>1, <1>2, <1>3, <1>4, <1>5 DEF Proxy

LEMMA SettingsCalls == ASSUME Settings PROVE CallStep
  <1>1. CASE GetLowAccuracyTime
    <2>1. at = "idle" /\ (GiveUp \/ (Called("time", device) /\ SettingsCall("time", device)))
      BY <1>1, GetCalls DEF GetLowAccuracyTime, Running, Here, Inactive, SettingsCall
    <2> QED BY <2>1 DEF CallStep, Wsman
  <1>2. CASE SetHighAccuracyTime
    <2> DEFINE W == [device EXCEPT !.clock = TRUE]
    <2>1. at = "idle" /\ Called("done", W) /\ SettingsCall("done", W)
      BY <1>2, PutCalls DEF SetHighAccuracyTime, Here, SettingsCall
    <2> QED BY <2>1 DEF CallStep, Wsman
  <1>3. CASE GetHostname
    <2>1. at = "idle" /\ (GiveUp \/ (Called("settings", device) /\ SettingsCall("settings", device)))
      BY <1>3, GetCalls DEF GetHostname, Running, Here, Inactive, SettingsCall
    <2> QED BY <2>1 DEF CallStep, Wsman
  <1>4. CASE PutHostname
    <2> DEFINE W == [device EXCEPT !.name = TRUE]
    <2>1. at = "idle" /\ Called("done", W) /\ SettingsCall("done", W)
      BY <1>4, PutCalls DEF PutHostname, Here, SettingsCall
    <2> QED BY <2>1 DEF CallStep, Wsman
  <1>5. CASE GetWiFi
    <2>1. at = "idle" /\ Called("capabilities", device) /\ WiFiCall("capabilities", device)
      BY <1>5, GetCalls DEF GetWiFi, Running, Here, WiFiCall
    <2> QED BY <2>1 DEF CallStep, Wsman
  <1>6. CASE GetCapabilities
    <2> DEFINE p == IF device.sync # want.sync \/ device.uefi # SyncedUefi THEN "sync" ELSE "wifi"
    <2>1. at = "idle" /\ Called(p, device) /\ WiFiCall(p, device)
      BY <1>6, GetCalls DEF GetCapabilities, Here, WiFiCall
    <2> QED BY <2>1 DEF CallStep, Wsman
  <1>7. CASE PutWiFi
    <2> DEFINE W == [device EXCEPT !.sync = want.sync, !.uefi = SyncedUefi]
    <2>1. at = "idle" /\ Called("wifi", W) /\ WiFiCall("wifi", W)
      BY <1>7, PutCalls DEF PutWiFi, Here, WiFiCall
    <2> QED BY <2>1 DEF CallStep, Wsman
  <1>8. CASE TurnOnWiFi
    <2> DEFINE W == [device EXCEPT !.wifi = TRUE]
    <2>1. at = "idle" /\ Called("done", W) /\ WiFiCall("done", W)
      BY <1>8, InvokeCalls DEF TurnOnWiFi, Here, WiFiCall
    <2> QED BY <2>1 DEF CallStep, Wsman
  <1> QED BY <1>1, <1>2, <1>3, <1>4, <1>5, <1>6, <1>7, <1>8 DEF Settings

-----------------------------------------------------------------------------
(* The types, the places and the requests. *)

FrontTypeOK ==
    /\ machine \in Machines
    /\ main \in Places
    /\ attempt \in 1..MaxAttempts /\ seen \in 0..2 /\ enforced \in BOOLEAN
    /\ secret \in Passwords \cup {Blank, Nothing}
    /\ client \in {"none", "tls", "lms", "lme"}
    /\ cmd \in Commands \cup {"none"} /\ want \in Arguments
    /\ out \in {"none", "ok", "error", "panic"}
InfoTypeOK ==
    /\ sections \in Seq(Sections)
    /\ shown \in [amt : BOOLEAN, mode : 0..NotRead, certs : BOOLEAN]
SectionInv == main = "section" => sections # <<>>
ProcessInv == FrontTypeOK /\ PlaceInv /\ AskInv
HostInv == DriverAndDevice /\ ProcessInv /\ InfoTypeOK /\ SectionInv

LEMMA Types == HostInv => TypeOK
  BY DEF HostInv, DriverAndDevice, DriverInv, ProcessInv, FrontTypeOK, InfoTypeOK, TypeOK

(* A step of the process that is no WSMAN call.                              *)
Plain == Resumes /\ UNCHANGED <<machine, device, mishaps>>

LEMMA ForgetAsk == ASSUME Forget PROVE ask' = "initialize" BY DEF Forget
LEMMA BeginAsk == ASSUME NEW a, NEW n, Begin(a, n) PROVE ask' = a BY DEF Begin

LEMMA FrontSteps ==
  ASSUME HostInv, FrontStep
  PROVE  Plain /\ ProcessInv'
  <1> USE DEF HostInv, ProcessInv
  <1>0. UNCHANGED machine /\ MaxAttempts = 4 BY DEF FrontStep, MaxAttempts
  <1>1. CASE Start
    <2>1. Plain
      BY <1>0, <1>1 DEF Start, Plain, Resumes, Here, Query, QueryTicks, Untouched, Asks
    <2>2. FrontTypeOK'
      BY <1>0, <1>1 DEF Start, Query, QueryTicks, FrontTypeOK, Places
    <2>3. PlaceInv' /\ AskInv'
      BY <1>1, BeginAsk DEF Start, Here, Query, QueryTicks, PlaceInv, AskInv,
         FrontPlaces, InfoPlaces, FeaturePlaces
    <2> QED BY <2>1, <2>2, <2>3
  <1>2. CASE CheckAccess
    <2>1. Plain
      BY <1>0, <1>2 DEF CheckAccess, Plain, Resumes, Answered, Move, Fail, Leave, Untouched
    <2>2. FrontTypeOK'
      BY <1>0, <1>2 DEF CheckAccess, Move, Fail, Leave, FrontTypeOK, Places, frontVars
    <2>3. PlaceInv' /\ AskInv'
      BY <1>2, ForgetAsk DEF CheckAccess, Answered, Move, Fail, Leave, PlaceInv, AskInv,
         FrontPlaces, InfoPlaces, FeaturePlaces
    <2> QED BY <2>1, <2>2, <2>3
  <1>3. CASE Parse
    <2>1. Plain
      BY <1>0, <1>3 DEF Parse, Plain, Resumes, Here, Query, QueryTicks, Fail, Leave, Untouched, Asks
    <2>2. FrontTypeOK'
      BY <1>0, <1>3 DEF Parse, Query, QueryTicks, Fail, Leave, FrontTypeOK, Places, frontVars, Commands
    <2>3. PlaceInv' /\ AskInv'
      BY <1>3, ForgetAsk, BeginAsk DEF Parse, Here, Query, QueryTicks, Fail, Leave, PlaceInv, AskInv,
         FrontPlaces, InfoPlaces, FeaturePlaces
    <2> QED BY <2>1, <2>2, <2>3
  <1>4. CASE AfterApplyMode
    <2>1. Plain
      BY <1>0, <1>4 DEF AfterApplyMode, Plain, Resumes, Answered, Query, QueryTicks, Fail, Leave,
         Untouched, Asks
    <2>2. seen' \in 0..2
      <3>1. main = "apply" /\ seen' \in {seen, res.value} BY <1>4 DEF AfterApplyMode, Answered
      <3>2. res.value \in 0..2 BY <3>1 DEF AskInv, DriverAndDevice, DriverInv, ReplyInv
      <3> QED BY <3>1, <3>2 DEF FrontTypeOK
    <2>3. FrontTypeOK'
      BY <1>0, <1>4, <2>2 DEF AfterApplyMode, Query, QueryTicks, Fail, Leave, FrontTypeOK, Places
    <2>4. PlaceInv' /\ AskInv'
      BY <1>4, ForgetAsk, BeginAsk DEF AfterApplyMode, Answered, Query, QueryTicks, Fail, Leave,
         PlaceInv, AskInv, FrontPlaces, InfoPlaces, FeaturePlaces
    <2> QED BY <2>1, <2>3, <2>4
  <1>5. CASE AfterApplyTls
    <2>1. Plain
      BY <1>0, <1>5 DEF AfterApplyTls, Plain, Resumes, Answered, Query, QueryTicks, Untouched, Asks
    <2>2. enforced' \in BOOLEAN BY <1>5, Zenon DEF AfterApplyTls
    <2>3. FrontTypeOK'
      BY <1>0, <1>5, <2>2 DEF AfterApplyTls, Query, QueryTicks, FrontTypeOK, Places
    <2>4. PlaceInv' /\ AskInv'
      BY <1>5, BeginAsk DEF AfterApplyTls, Answered, Query, QueryTicks,
         PlaceInv, AskInv, FrontPlaces, InfoPlaces, FeaturePlaces
    <2> QED BY <2>1, <2>3, <2>4
  <1>6. CASE MakeContext
    <2>1. Plain
      BY <1>0, <1>6 DEF MakeContext, Plain, Resumes, Answered, Move, Succeed, Fail, Leave, Untouched
    <2>2. FrontTypeOK'
      BY <1>0, <1>6 DEF MakeContext, Move, Succeed, Fail, Leave, FrontTypeOK, Places, frontVars
    <2>3. PlaceInv' /\ AskInv'
      BY <1>6, ForgetAsk DEF MakeContext, Answered, Move, Succeed, Fail, Leave,
         PlaceInv, AskInv, FrontPlaces, InfoPlaces, FeaturePlaces
    <2> QED BY <2>1, <2>2, <2>3
  <1> QED BY <1>1, <1>2, <1>3, <1>4, <1>5, <1>6 DEF FrontStep

LEMMA WantsTypes ==
  ASSUME NEW name \in Commands, NEW w \in Wants(name)
  PROVE  /\ w \in Arguments
         /\ name \in {"proxyAdd", "proxyDelete"} => w.proxy \in Proxies
  BY DEF Wants, Arguments, ProxyChanges

LEMMA ConfigureSteps ==
  ASSUME HostInv,
         \/ DispatchConfigure \/ AskPassword \/ MakeClient \/ AskSystem \/ AskSku \/ DecideKvm
         \/ DeactivateCcm \/ CheckUnprovision,
         UNCHANGED machine
  PROVE  Plain /\ ProcessInv'
  <1> USE DEF HostInv, ProcessInv
  <1>1. CASE DispatchConfigure
    <2>1. Plain
      BY <1>1 DEF DispatchConfigure, Plain, Resumes, Here, Move, Untouched
    <2>2. cmd' \in Commands /\ cmd' \notin {"none", "version", InfoCommand}
      BY <1>1 DEF DispatchConfigure, Commands, ConfigureCommands, InfoCommand
    <2>3. want' \in Arguments /\ (cmd' \in {"proxyAdd", "proxyDelete"} => want'.proxy \in Proxies)
      BY <1>1, <2>2, WantsTypes DEF DispatchConfigure
    <2>4. FrontTypeOK'
      BY <1>1, <2>2, <2>3 DEF DispatchConfigure, Move, FrontTypeOK, Places, frontVars
    <2>5. PlaceInv' /\ AskInv'
      BY <1>1, <2>3, ForgetAsk DEF DispatchConfigure, Here, Move,
         PlaceInv, AskInv, FrontPlaces, InfoPlaces, FeaturePlaces
    <2> QED BY <2>1, <2>4, <2>5
  <1>2. CASE AskPassword
    <2>1. Plain
      BY <1>2 DEF AskPassword, EnsureAMTPassword, Plain, Resumes, Here, Move, Fail, Leave, Untouched
    <2>2. FrontTypeOK'
      BY <1>2 DEF AskPassword, EnsureAMTPassword, Move, Fail, Leave, FrontTypeOK, Places, frontVars
    <2>3. PlaceInv' /\ AskInv'
      BY <1>2, ForgetAsk DEF AskPassword, EnsureAMTPassword, Here, Move, Fail, Leave,
         PlaceInv, AskInv, FrontPlaces, InfoPlaces, FeaturePlaces
    <2> QED BY <2>1, <2>2, <2>3
  <1>3. CASE MakeClient
    <2>1. Plain
      BY <1>3 DEF MakeClient, Plain, Resumes, Here, Move, Untouched
    <2>2. client' \in {"none", "tls", "lms", "lme"}
      BY <1>3 DEF MakeClient, EnsureWSMAN
    <2>3. FrontTypeOK'
      BY <1>3, <2>2 DEF MakeClient, Move, FrontTypeOK, Places, frontVars
    <2>4. PlaceInv' /\ AskInv'
      BY <1>3, ForgetAsk DEF MakeClient, Here, Move,
         PlaceInv, AskInv, FrontPlaces, InfoPlaces, FeaturePlaces
    <2> QED BY <2>1, <2>3, <2>4
  <1>4. CASE AskSystem \/ AskSku \/ DecideKvm
    <2>1. Plain
      BY <1>4 DEF AskSystem, AskSku, DecideKvm, Plain, Resumes, Here, Answered, Move, QueryTicks,
         Fail, Leave, Same, Asks
    <2>2. FrontTypeOK'
      BY <1>4 DEF AskSystem, AskSku, DecideKvm, Move, QueryTicks, Fail, Leave,
         FrontTypeOK, Places, Same, frontVars
    <2>3. PlaceInv' /\ AskInv'
      BY <1>4, ForgetAsk, BeginAsk DEF AskSystem, AskSku, DecideKvm, Here, Answered, Move, QueryTicks,
         Fail, Leave, Same, frontVars, PlaceInv, AskInv, FrontPlaces, InfoPlaces, FeaturePlaces
    <2> QED BY <2>1, <2>2, <2>3
  <1>5. CASE DeactivateCcm \/ CheckUnprovision
    <2>1. Plain
      BY <1>5 DEF DeactivateCcm, CheckUnprovision, Plain, Resumes, Running, Here, Answered, Query,
         QueryTicks, Succeed, Fail, Leave, Same, Asks
    <2>2. FrontTypeOK'
      BY <1>5 DEF DeactivateCcm, CheckUnprovision, Query, QueryTicks, Succeed, Fail, Leave,
         FrontTypeOK, Places, Same, frontVars
    <2>3. PlaceInv' /\ AskInv'
      BY <1>5, ForgetAsk, BeginAsk DEF DeactivateCcm, CheckUnprovision, Running, Here, Answered, Query,
         QueryTicks, Succeed, Fail, Leave, Same, frontVars,
         PlaceInv, AskInv, FrontPlaces, InfoPlaces, FeaturePlaces
    <2> QED BY <2>1, <2>2, <2>3
  <1> QED BY <1>1, <1>2, <1>3, <1>4, <1>5

LEMMA SectionTypes ==
  ASSUME NEW flags \in FlagSets, NEW sync \in BOOLEAN
  PROVE  Wanted(flags, sync) \in Seq(Sections)
  <1>1. BeforeHashes \in Seq(Sections) BY DEF BeforeHashes, Sections, Asks
  <1>2. UserCerts \in Seq(Sections) /\ OpState \in Seq(Sections) /\ <<"handles">> \in Seq(Sections)
    BY DEF UserCerts, OpState, Sections, Asks
  <1> HIDE DEF BeforeHashes, UserCerts, OpState
  <1>3. Wanted(flags, sync) \in {BeforeHashes \o <<"handles">> \o UserCerts,
                                BeforeHashes \o UserCerts, UserCerts, OpState}
    BY DEF Wanted, FlagSets
  <1>4. BeforeHashes \o <<"handles">> \in Seq(Sections) BY <1>1, <1>2
  <1>5. BeforeHashes \o <<"handles">> \o UserCerts \in Seq(Sections) BY <1>2, <1>4
  <1>6. BeforeHashes \o UserCerts \in Seq(Sections) BY <1>1, <1>2
  <1> QED BY <1>2, <1>3, <1>5, <1>6

LEMMA InfoSteps ==
  ASSUME HostInv, InfoStep, UNCHANGED machine
  PROVE  Plain /\ ProcessInv' /\ InfoTypeOK' /\ SectionInv'
  <1> USE DEF HostInv, ProcessInv
  <1>0. SectionInv'
    BY DEF InfoStep, DispatchInfo, InfoPassword, InfoClient, AskSection, ShowSection,
       ShowCertificates, FinishInfo, EnsureAMTPassword, Move, QueryTicks, Succeed, Fail, Leave,
       SectionInv
  <1>1. CASE DispatchInfo
    <2>0. PICK flags \in FlagSets, sync \in BOOLEAN :
            /\ want' = [want EXCEPT !.sync = sync]
            /\ sections' = Wanted(flags, sync)
            /\ \/ Move("infoSecret") /\ UNCHANGED secret
               \/ Move("infoClient") /\ secret' \in Passwords \cup {Nothing}
      BY <1>1 DEF DispatchInfo
    <2>1. Plain
      BY <1>1, <2>0 DEF DispatchInfo, Plain, Resumes, Here, Move, Untouched
    <2>2. want' \in Arguments BY <2>0 DEF FrontTypeOK, Arguments
    <2>3. FrontTypeOK'
      BY <1>1, <2>0, <2>2 DEF DispatchInfo, Move, FrontTypeOK, Places, frontVars, Commands
    <2>4. PlaceInv' /\ AskInv'
      BY <1>1, <2>0, ForgetAsk DEF DispatchInfo, Here, Move, InfoCommand,
         PlaceInv, AskInv, FrontPlaces, InfoPlaces, FeaturePlaces
    <2>5. InfoTypeOK'
      BY <1>1, <2>0, SectionTypes DEF DispatchInfo, InfoTypeOK
    <2> QED BY <1>0, <2>1, <2>3, <2>4, <2>5
  <1>2. CASE InfoPassword
    <2>1. Plain
      BY <1>2 DEF InfoPassword, EnsureAMTPassword, Plain, Resumes, Here, Move, Fail, Leave, Untouched
    <2>2. FrontTypeOK'
      BY <1>2 DEF InfoPassword, EnsureAMTPassword, Move, Fail, Leave, FrontTypeOK, Places, frontVars
    <2>3. PlaceInv' /\ AskInv'
      BY <1>2, ForgetAsk DEF InfoPassword, EnsureAMTPassword, Here, Move, Fail, Leave,
         PlaceInv, AskInv, FrontPlaces, InfoPlaces, FeaturePlaces
    <2>4. InfoTypeOK' BY <1>2 DEF InfoPassword, InfoTypeOK, infoVars
    <2> QED BY <1>0, <2>1, <2>2, <2>3, <2>4
  <1>3. CASE InfoClient
    <2>1. Plain
      BY <1>3 DEF InfoClient, Plain, Resumes, Here, Move, Untouched
    <2>2. client' \in {"none", "tls", "lms", "lme"}
      BY <1>3 DEF InfoClient, EnsureWSMAN
    <2>3. FrontTypeOK'
      BY <1>3, <2>2 DEF InfoClient, Move, FrontTypeOK, Places, frontVars
    <2>4. PlaceInv' /\ AskInv'
      BY <1>3, ForgetAsk DEF InfoClient, Here, Move,
         PlaceInv, AskInv, FrontPlaces, InfoPlaces, FeaturePlaces
    <2>5. InfoTypeOK' BY <1>3 DEF InfoClient, InfoTypeOK, infoVars
    <2> QED BY <1>0, <2>1, <2>3, <2>4, <2>5
  <1>4. CASE AskSection
    <2>0. /\ at = "idle" /\ main = "sections"
          /\ UNCHANGED <<device, mishaps, shown>> /\ Same
          /\ \/ NextSection /\ Move("sections")
             \/ \E n \in Nat : QueryTicks("section", AskOf(Section), n) /\ UNCHANGED sections
      BY <1>4, InfoTicksAssumption DEF AskSection, Here
    <2>1. sections \in Seq(Sections) /\ sections # <<>> /\ Section # "certificates"
      BY <1>4 DEF AskSection, InfoTypeOK
    <2>2. AskOf(Section) \in Asks \ {"unprovision"}
      <3>1. Section \in Sections BY <2>1 DEF Section
      <3> QED BY <2>1, <3>1 DEF AskOf, Sections, Asks
    <2>3. Plain
      BY <2>0, <2>2 DEF Plain, Resumes, Move, QueryTicks, Same
    <2>4. FrontTypeOK'
      BY <2>0 DEF Move, QueryTicks, FrontTypeOK, Places, Same, frontVars
    <2>5. ask' # "unprovision" /\ main' \in {"section", "sections"}
      BY <2>0, <2>2, ForgetAsk, BeginAsk DEF Move, QueryTicks
    <2>6. PlaceInv' /\ AskInv'
      BY <2>0, <2>5 DEF Same, frontVars,
         PlaceInv, AskInv, FrontPlaces, InfoPlaces, FeaturePlaces
    <2>7. InfoTypeOK'
      <3>1. sections' \in {sections, Tail(sections)} /\ shown' = shown BY <2>0 DEF NextSection
      <3>2. Tail(sections) \in Seq(Sections) BY <2>1
      <3> QED BY <2>1, <3>1, <3>2 DEF InfoTypeOK
    <2> QED BY <1>0, <2>3, <2>4, <2>6, <2>7
  <1>5. CASE ShowSection
    <2>1. Plain
      BY <1>5 DEF ShowSection, Plain, Resumes, Answered, Move, Same
    <2>2. FrontTypeOK'
      BY <1>5 DEF ShowSection, Move, FrontTypeOK, Places, Same, frontVars
    <2>3. PlaceInv' /\ AskInv'
      BY <1>5, ForgetAsk DEF ShowSection, Answered, Move, Same, frontVars,
         PlaceInv, AskInv, FrontPlaces, InfoPlaces, FeaturePlaces
    <2>4. shown' \in [amt : BOOLEAN, mode : 0..NotRead, certs : BOOLEAN]
      <3>1. shown' \in {shown, [shown EXCEPT !.amt = TRUE]}
              \/ (ask = "mode" /\ shown' = [shown EXCEPT !.mode = res.value])
        BY <1>5 DEF ShowSection
      <3>2. ask = "mode" => res.value \in 0..NotRead
        BY DEF DriverAndDevice, DriverInv, ReplyInv, NotRead
      <3> QED BY <3>1, <3>2 DEF InfoTypeOK
    <2>5. sections' \in Seq(Sections)
      <3>1. sections' = Tail(sections) BY <1>5 DEF ShowSection, NextSection
      <3>2. sections # <<>> BY <1>5 DEF ShowSection, Answered, SectionInv
      <3> QED BY <3>1, <3>2 DEF InfoTypeOK
    <2> QED BY <1>0, <2>1, <2>2, <2>3, <2>4, <2>5 DEF InfoTypeOK
  <1>6. CASE ShowCertificates
    <2>1. Plain
      BY <1>6 DEF ShowCertificates, Plain, Resumes, Here, Move, Same
    <2>2. FrontTypeOK'
      BY <1>6 DEF ShowCertificates, Move, FrontTypeOK, Places, Same, frontVars
    <2>3. PlaceInv' /\ AskInv'
      BY <1>6, ForgetAsk DEF ShowCertificates, Here, Move, Same, frontVars,
         PlaceInv, AskInv, FrontPlaces, InfoPlaces, FeaturePlaces
    <2>4. shown' \in {shown, [shown EXCEPT !.certs = TRUE]} /\ sections' = Tail(sections) /\ sections # <<>>
      BY <1>6 DEF ShowCertificates, NextSection
    <2>5. InfoTypeOK'
      <3>1. sections' \in Seq(Sections) BY <2>4 DEF InfoTypeOK
      <3>2. shown' \in [amt : BOOLEAN, mode : 0..NotRead, certs : BOOLEAN] BY <2>4 DEF InfoTypeOK
      <3> QED BY <3>1, <3>2 DEF InfoTypeOK
    <2> QED BY <1>0, <2>1, <2>2, <2>3, <2>5
  <1>7. CASE FinishInfo
    <2>1. Plain
      BY <1>7 DEF FinishInfo, Plain, Resumes, Here, Succeed, Fail, Leave, Same
    <2>2. FrontTypeOK'
      BY <1>7 DEF FinishInfo, Succeed, Fail, Leave, FrontTypeOK, Places, Same, frontVars
    <2>3. PlaceInv' /\ AskInv'
      BY <1>7, ForgetAsk DEF FinishInfo, Here, Succeed, Fail, Leave, Same, frontVars,
         PlaceInv, AskInv, FrontPlaces, InfoPlaces, FeaturePlaces
    <2>4. InfoTypeOK' BY <1>7 DEF FinishInfo, InfoTypeOK, infoVars
    <2> QED BY <1>0, <2>1, <2>2, <2>3, <2>4
  <1> QED BY <1>1, <1>2, <1>3, <1>4, <1>5, <1>6, <1>7 DEF InfoStep

LEMMA WsmanTypes ==
  ASSUME HostInv, NEW place, NEW W, Wsman(place, W)
  PROVE  /\ W \in Devices
         /\ place \in Places \ {"context", "apply", "unprovision", "section"}
  <1> USE DEF HostInv, ProcessInv
  <1>0. device \in Devices /\ want \in Arguments BY DEF DriverAndDevice, FrontTypeOK
  <1>1. CASE FeaturesCall(place, W)
    <2>1. AnyRedirection \in BOOLEAN BY <1>0 DEF AnyRedirection, Arguments
    <2>2. W \in Devices BY <1>0, <1>1, <2>1 DEF FeaturesCall, Devices, Arguments
    <2> QED BY <1>1, <2>2 DEF FeaturesCall, Places
  <1>2. CASE PasswordCall(place, W)
    <2>1. W \in Devices BY <1>0, <1>2 DEF PasswordCall, Devices, Arguments
    <2> QED BY <1>2, <2>1 DEF PasswordCall, Places
  <1>3. CASE ProxyCall(place, W)
    <2>1. cmd = "proxyAdd" => want.proxy \in Proxies BY DEF PlaceInv
    <2>2. W \in Devices BY <1>0, <1>3, <2>1 DEF ProxyCall, Devices
    <2> QED BY <1>3, <2>2 DEF ProxyCall, Places
  <1>4. CASE SettingsCall(place, W)
    <2>1. W \in Devices BY <1>0, <1>4 DEF SettingsCall, Devices
    <2> QED BY <1>4, <2>1 DEF SettingsCall, Places
  <1>5. CASE WiFiCall(place, W)
    <2>1. machine.uefi \in BOOLEAN /\ want.uefi \in BOOLEAN /\ want.sync \in BOOLEAN
      BY <1>0, MachinesAssumption DEF FrontTypeOK, Arguments
    <2>2. SyncedUefi \in BOOLEAN BY <2>1, Zenon DEF SyncedUefi
    <2>3. W \in Devices BY <1>0, <1>5, <2>1, <2>2 DEF WiFiCall, Devices
    <2> QED BY <1>5, <2>3 DEF WiFiCall, Places
  <1> QED BY <1>1, <1>2, <1>3, <1>4, <1>5 DEF Wsman

LEMMA WsmanPlaces ==
  ASSUME HostInv, NEW place, NEW W, Wsman(place, W), UNCHANGED <<cmd, want, seen>>,
         main' \in {place, "done"}
  PROVE  PlaceInv'
  <1> USE DEF HostInv, ProcessInv, PlaceInv, FrontPlaces, InfoPlaces, FeaturePlaces
  <1>1. CASE FeaturesCall(place, W) BY <1>1 DEF FeaturesCall
  <1>2. CASE PasswordCall(place, W) BY <1>2 DEF PasswordCall
  <1>3. CASE ProxyCall(place, W) BY <1>3 DEF ProxyCall
  <1>4. CASE SettingsCall(place, W) BY <1>4 DEF SettingsCall
  <1>5. CASE WiFiCall(place, W) BY <1>5 DEF WiFiCall
  <1> QED BY <1>1, <1>2, <1>3, <1>4, <1>5 DEF Wsman

LEMMA CallSteps ==
  ASSUME HostInv, CallStep, UNCHANGED <<machine, infoVars>>
  PROVE  HostInv' /\ Resumes
  <1> USE DEF HostInv, ProcessInv
  <1>1. CASE GiveUp
    <2>1. Resumes /\ UNCHANGED <<device, mishaps>>
      BY <1>1 DEF CallStep, GiveUp, Fail, Leave, Resumes, Same
    <2>2. DriverAndDevice' BY <2>1, ResumesDriver DEF DriverAndDevice
    <2>3. FrontTypeOK' BY <1>1 DEF GiveUp, Fail, Leave, Same, frontVars, FrontTypeOK, Places
    <2>4. PlaceInv' /\ AskInv'
      BY <1>1, ForgetAsk DEF GiveUp, Fail, Leave, Same, frontVars,
         PlaceInv, AskInv, FrontPlaces, InfoPlaces, FeaturePlaces
    <2>5. InfoTypeOK' /\ SectionInv'
      BY <1>1 DEF GiveUp, Fail, Leave, InfoTypeOK, SectionInv, infoVars
    <2> QED BY <2>1, <2>2, <2>3, <2>4, <2>5
  <1>2. ASSUME NEW place, NEW W, Wsman(place, W), Called(place, W)
        PROVE  HostInv' /\ Resumes
    <2>0. /\ Same /\ Forget /\ main' \in {place, "done"}
          /\ out' \in {out, "ok", "error", "panic"}
          /\ mishaps' \in {mishaps, mishaps \cup {"unseen"}} /\ device' \in {device, W}
      BY <1>2 DEF Called
    <2>1. W \in Devices /\ place \in Places \ {"context", "apply", "unprovision", "section"}
      BY <1>2, WsmanTypes
    <2>2. Resumes BY <2>0 DEF CallStep, Resumes, Same
    <2>3. DriverAndDevice' BY <2>0, <2>1, <2>2, ResumesDriver DEF DriverAndDevice, Mishaps
    <2>4. FrontTypeOK' BY <2>0, <2>1 DEF Same, frontVars, FrontTypeOK, Places
    <2>5. PlaceInv' BY <1>2, <2>0, WsmanPlaces DEF Same, frontVars
    <2>6. AskInv' BY <2>0, <2>1, ForgetAsk DEF AskInv
    <2>7. InfoTypeOK' /\ SectionInv' BY <2>0, <2>1 DEF InfoTypeOK, SectionInv, infoVars
    <2> QED BY <2>2, <2>3, <2>4, <2>5, <2>6, <2>7
  <1> QED BY <1>1, <1>2 DEF CallStep

(* The commands: each step is a WSMAN call or none.                          *)
LEMMA CommandCases ==
  ASSUME CommandStep
  PROVE  /\ UNCHANGED machine
         /\ \/ CallStep /\ UNCHANGED infoVars
            \/ /\ UNCHANGED infoVars
               /\ \/ DispatchConfigure \/ AskPassword \/ MakeClient \/ AskSystem \/ AskSku
                  \/ DecideKvm \/ DeactivateCcm \/ CheckUnprovision
            \/ InfoStep
  BY FeaturesCalls, PasswordCalls, ProxyCalls, SettingsCalls
  DEF CommandStep, ConfigureStep, Features, Deactivate

LEMMA PlainSteps ==
  ASSUME HostInv, Plain PROVE DriverAndDevice'
  BY ResumesDriver DEF HostInv, Plain, DriverAndDevice

LEMMA ProcessSteps ==
  ASSUME HostInv, FrontStep \/ CommandStep PROVE HostInv' /\ Resumes
  <1>1. CASE FrontStep
    <2>1. Plain /\ ProcessInv' BY <1>1, FrontSteps
    <2>2. DriverAndDevice' BY <2>1, PlainSteps
    <2>3. InfoTypeOK' BY <1>1 DEF FrontStep, HostInv, InfoTypeOK, infoVars
    <2>4. SectionInv'
      BY <1>1 DEF FrontStep, Start, CheckAccess, Parse, AfterApplyMode, AfterApplyTls, MakeContext,
         Query, QueryTicks, Move, Succeed, Fail, Leave, SectionInv
    <2> QED BY <2>1, <2>2, <2>3, <2>4 DEF HostInv, Plain
  <1>2. CASE CommandStep
    <2>1. UNCHANGED machine BY <1>2, CommandCases
    <2>2. CASE CallStep /\ UNCHANGED infoVars BY <2>1, <2>2, CallSteps
    <2>3. CASE /\ UNCHANGED infoVars
               /\ \/ DispatchConfigure \/ AskPassword \/ MakeClient \/ AskSystem \/ AskSku
                  \/ DecideKvm \/ DeactivateCcm \/ CheckUnprovision
      <3>1. Plain /\ ProcessInv' BY <2>1, <2>3, ConfigureSteps
      <3>2. DriverAndDevice' BY <3>1, PlainSteps
      <3>3. InfoTypeOK' BY <2>3 DEF HostInv, InfoTypeOK, infoVars
      <3>4. SectionInv'
        BY <2>3 DEF DispatchConfigure, AskPassword, EnsureAMTPassword, MakeClient, AskSystem, AskSku,
           DecideKvm, DeactivateCcm, CheckUnprovision, Query, QueryTicks, Move, Succeed, Fail, Leave,
           SectionInv
      <3> QED BY <3>1, <3>2, <3>3, <3>4 DEF HostInv, Plain
    <2>4. CASE InfoStep
      <3>1. Plain /\ ProcessInv' /\ InfoTypeOK' /\ SectionInv' BY <2>1, <2>4, InfoSteps
      <3>2. DriverAndDevice' BY <3>1, PlainSteps
      <3> QED BY <3>1, <3>2 DEF HostInv, Plain
    <2> QED BY <1>2, <2>2, <2>3, <2>4, CommandCases
  <1> QED BY <1>1, <1>2

-----------------------------------------------------------------------------
(* The inductive invariant. *)

LEMMA HostInit0 == Init => HostInv
  <1> SUFFICES ASSUME Init PROVE HostInv OBVIOUS
  <1>1. DriverAndDevice
    <2>1. NoReply \in Replies /\ NoReply.ask = "initialize" /\ NoResult \in [ok : BOOLEAN, value : Nat]
          /\ NoResult.value = 0
      BY HashesAssumption DEF NoReply, Reply, Replies, Asks, NoResult, Result
    <2>2. HostTypeOK
      BY <2>1, HashesAssumption DEF Init, HostInit, IdleCall, HostTypeOK, DriverTypeOK, Asks
    <2>3. WireInv BY DEF Init, HostInit, IdleCall, WireInv
    <2>4. ReplyInv BY <2>1 DEF Init, HostInit, IdleCall, ReplyInv, ReplyOK
    <2> QED BY <2>2, <2>3, <2>4, SettingsAssumption
        DEF Init, DriverAndDevice, DriverInv, Mishaps
  <1>2. Defaults \in Arguments
    BY DEF Defaults, Arguments, NewPasswords, Consents
  <1>3. FrontTypeOK
    <2>1. /\ machine \in Machines /\ main = "start" /\ attempt = 1 /\ seen = 0 /\ enforced = FALSE
          /\ secret = Nothing /\ client = "none" /\ cmd = "none" /\ want = Defaults /\ out = "none"
      BY DEF Init
    <2>2. "start" \in Places BY DEF Places
    <2>3. attempt \in 1..MaxAttempts /\ seen \in 0..2 BY <2>1 DEF MaxAttempts
    <2>4. main \in Places /\ want \in Arguments BY <1>2, <2>1, <2>2
    <2>5. enforced \in BOOLEAN /\ secret \in Passwords \cup {Blank, Nothing} BY <2>1
    <2>6. /\ client \in {"none", "tls", "lms", "lme"} /\ cmd \in Commands \cup {"none"}
          /\ out \in {"none", "ok", "error", "panic"}
      BY <2>1
    <2> QED BY <2>1, <2>3, <2>4, <2>5, <2>6 DEF FrontTypeOK
  <1>4. PlaceInv /\ AskInv /\ SectionInv
    BY DEF Init, HostInit, IdleCall, PlaceInv, AskInv, SectionInv, FrontPlaces, InfoPlaces, FeaturePlaces
  <1>5. InfoTypeOK BY DEF Init, InfoTypeOK, NothingShown, NotRead
  <1> QED BY <1>1, <1>3, <1>4, <1>5 DEF HostInv, ProcessInv

LEMMA HostOperations ==
  ASSUME HostInv, HostOperation PROVE HostInv'
  <1>1. DriverAndDevice' BY HostDriver DEF HostInv, HostOperation
  <1>2. FrontTypeOK' /\ PlaceInv' /\ InfoTypeOK' /\ SectionInv'
    BY DEF HostInv, ProcessInv, HostOperation, FrontTypeOK, PlaceInv, InfoTypeOK, SectionInv,
       processVars, infoVars
  <1>3. ask' = ask \/ (ask \in {"handles", "hash"} /\ ask' = "hash")
    BY DEF HostOperation, HostStep, Open, Send, Receive, AskVersionAgain, AskHash, Ask,
       OperationFails, OperationReturns, Return
  <1>4. AskInv'
    BY <1>3 DEF HostInv, ProcessInv, HostOperation, processVars, AskInv
  <1> QED BY <1>1, <1>2, <1>4 DEF HostInv, ProcessInv

LEMMA HostNext ==
  ASSUME HostInv, [Next]_vars PROVE HostInv'
  <1>1. CASE HostOperation BY <1>1, HostOperations
  <1>2. CASE FrontStep \/ CommandStep BY <1>2, ProcessSteps
  <1>3. CASE ModeChanges
    <2>1. PICK m \in 0..2 : device' = [device EXCEPT !.mode = m] BY <1>3 DEF ModeChanges
    <2>2. device' \in Devices /\ mishaps' \subseteq Mishaps
      BY <1>3, <2>1 DEF ModeChanges, HostInv, DriverAndDevice, Devices, Mishaps
    <2>3. UNCHANGED <<machine, driverVars, callVars, processVars, infoVars>> BY <1>3 DEF ModeChanges
    <2>4. DriverInv'
      BY <2>3 DEF HostInv, DriverAndDevice, DriverInv, HostTypeOK, DriverTypeOK, WireInv, ReplyInv,
         ReplyOK, driverVars, callVars
    <2>5. FrontTypeOK' /\ PlaceInv' /\ AskInv' /\ InfoTypeOK' /\ SectionInv'
      BY <2>3 DEF HostInv, ProcessInv, FrontTypeOK, PlaceInv, AskInv, InfoTypeOK, SectionInv,
         processVars, infoVars, callVars
    <2> QED BY <2>2, <2>4, <2>5 DEF HostInv, ProcessInv, DriverAndDevice
  <1>4. CASE UNCHANGED vars
    <2>1. UNCHANGED <<machine, device, mishaps, fd, wire, at, ask, part, got, ticks, res, main, attempt,
                      seen, enforced, secret, client, cmd, want, out, sections, shown>>
      BY <1>4 DEF vars, driverVars, callVars, processVars, infoVars
    <2>2. DriverAndDevice'
      BY <2>1 DEF HostInv, DriverAndDevice, DriverInv, HostTypeOK, DriverTypeOK, WireInv, ReplyInv, ReplyOK
    <2>3. FrontTypeOK' /\ PlaceInv' /\ AskInv' /\ InfoTypeOK' /\ SectionInv'
      BY <2>1 DEF HostInv, ProcessInv, FrontTypeOK, PlaceInv, AskInv, InfoTypeOK, SectionInv
    <2> QED BY <2>2, <2>3 DEF HostInv, ProcessInv
  <1> QED BY <1>1, <1>2, <1>3, <1>4 DEF Next, Terminated

THEOREM HostInvariant == Spec => []HostInv
  <1>1. HostInv /\ [Next]_vars => HostInv' BY HostNext
  <1> QED BY HostInit0, <1>1, PTL DEF Spec

(* Types are right in every state of every call.                             *)
THEOREM TypeCorrect == Spec => []TypeOK
  BY HostInvariant, Types, PTL

(* Every reply an operation takes is the answer to its own request.          *)
THEOREM RepliesAreOwn == Spec => []OwnReply
  <1>1. HostInv => OwnReply
    BY DEF HostInv, DriverAndDevice, DriverInv, WireInv, OwnReply
  <1> QED BY HostInvariant, <1>1, PTL

-----------------------------------------------------------------------------
(* The call is bounded.                                                     *)

(* How far the process is from its end: every place leads to places further  *)
(* down, the attempts of AfterApply and the sections of amtinfo counted.     *)
Left ==
    CASE main = "done" -> 0
      [] main \in {"consent", "wifi", "realm", "match", "time", "settings", "unprovision"} -> 1
      [] main \in {"optin", "sync"} -> 2
      [] main \in {"listener", "capabilities"} -> 3
      [] main = "kvm" -> 4
      [] main = "sku" -> 5
      [] main = "version" -> 6
      [] main = "system" -> 7
      [] main = "redirection" -> 8
      [] main = "run" -> 9
      [] main = "client" -> 10
      [] main = "secret" -> 11
      [] main = "section" -> 2 * Len(sections)
      [] main = "sections" -> 2 * Len(sections) + 1
      [] main = "infoClient" -> 2 * Len(sections) + 2
      [] main = "infoSecret" -> 2 * Len(sections) + 3
      [] main = "dispatch" -> 32
      [] main = "context" -> 33
      [] main = "enforced" -> 34
      [] main = "apply" -> 39 - attempt
      [] main = "parse" -> 39
      [] main = "access" -> 40
      [] main = "start" -> 41

(* How far the operation of the driver is from its end: the requests still   *)
(* to be made, and where the one that is out is.                             *)
HashesLeft ==
    CASE ask = "handles" -> Hashes + 1
      [] ask = "hash" -> Hashes - part
      [] OTHER -> 0
Phase ==
    CASE at = "open" -> 5
      [] at = "send" -> 4
      [] at = "receive" -> 3
      [] at \in {"answered", "failed"} -> 2
      [] at = "back" -> 1
      [] at = "idle" -> 0
Requests == ticks + HashesLeft
CallLeft == 6 * Requests + Phase

(* Whether the control mode may still change under the process.              *)
Chance == IF "changed" \in mishaps THEN 0 ELSE 1

LeftInv == Left \in Nat /\ CallLeft \in Nat /\ Chance \in Nat

Nearer ==
    \/ Left' < Left
    \/ Left' = Left /\ CallLeft' < CallLeft
    \/ Left' = Left /\ CallLeft' = CallLeft /\ Chance' < Chance

LEMMA LeftFacts ==
    ASSUME HostInv
    PROVE  Left \in Nat /\ (main # "done" => Left > 0)
  <1>1. main \in Places /\ attempt \in 1..4 /\ sections \in Seq(Sections)
    BY DEF HostInv, ProcessInv, FrontTypeOK, InfoTypeOK, MaxAttempts
  <1>2. Len(sections) \in Nat BY <1>1
  <1>3. main = "section" => Len(sections) > 0
    BY <1>1 DEF HostInv, SectionInv
  <1>4. CASE main = "section"
    <2>1. Left = 2 * Len(sections) BY <1>4 DEF Left
    <2> QED BY <1>2, <1>3, <1>4, <2>1
  <1>5. CASE main \in {"sections", "infoClient", "infoSecret"}
    <2>1. \E k \in 1..3 : Left = 2 * Len(sections) + k BY <1>5 DEF Left
    <2> QED BY <1>2, <1>5, <2>1
  <1>6. CASE main = "apply" BY <1>1, <1>6 DEF Left
  <1>7. CASE main = "done" BY <1>7 DEF Left
  <1>8. CASE main \in {"consent", "wifi", "realm", "match", "time", "settings", "unprovision",
                       "optin", "sync", "listener", "capabilities", "kvm", "sku", "version", "system"}
    <2>1. Left \in 1..7 BY <1>8 DEF Left
    <2> QED BY <2>1
  <1>9. CASE main \in {"redirection", "run", "client", "secret"}
    <2>1. Left \in 8..11 BY <1>9 DEF Left
    <2> QED BY <2>1
  <1>10. CASE main \in {"dispatch", "context", "enforced", "parse", "access", "start"}
    <2>1. Left \in {32, 33, 34, 39, 40, 41} BY <1>10 DEF Left
    <2> QED BY <2>1
  <1> QED BY <1>1, <1>4, <1>5, <1>6, <1>7, <1>8, <1>9, <1>10 DEF Places

LEMMA CallLeftFacts ==
    ASSUME HostInv
    PROVE  CallLeft \in Nat /\ ticks \in Nat /\ Requests \in Nat /\ Phase \in 0..5
  <1>1. /\ at \in {"idle", "open", "send", "receive", "answered", "failed", "back"}
        /\ part \in 0..Hashes /\ ticks \in Nat
    BY DEF HostInv, DriverAndDevice, DriverInv, HostTypeOK, DriverTypeOK
  <1>2. Requests \in Nat BY <1>1, HashesAssumption DEF HashesLeft, Requests
  <1>3. Phase \in 0..5 BY <1>1 DEF Phase
  <1> QED BY <1>1, <1>2, <1>3 DEF CallLeft

LEMMA LeftIsNatural == HostInv => LeftInv
  BY LeftFacts, CallLeftFacts DEF LeftInv, Chance

LEMMA LessCall ==
    ASSUME NEW a \in Nat, NEW b \in Nat, NEW p \in 0..5, NEW q \in 0..5,
           b < a \/ (b <= a /\ q < p)
    PROVE  6 * b + q < 6 * a + p
  OBVIOUS
LEMMA LessSum ==
    ASSUME NEW t \in Nat, NEW a \in Nat, NEW b \in Nat, b < a
    PROVE  t + b \in Nat /\ t + b < t + a
  OBVIOUS

LEMMA HostNearer ==
    ASSUME HostInv, HostOperation
    PROVE  Left' = Left /\ CallLeft' < CallLeft
  <1>1. Left' = Left
    BY DEF HostOperation, processVars, infoVars, Left
  <1>2. /\ part \in 0..Hashes /\ ticks \in Nat /\ Requests \in Nat /\ Phase \in 0..5
        /\ at \in {"idle", "open", "send", "receive", "answered", "failed", "back"}
    BY CallLeftFacts DEF HostInv, DriverAndDevice, DriverInv, HostTypeOK, DriverTypeOK
  <1>3. ASSUME UNCHANGED <<ask, part, ticks>>, Phase' \in 0..5, Phase' < Phase
        PROVE  CallLeft' < CallLeft
    <2>1. Requests' = Requests BY <1>3 DEF Requests, HashesLeft
    <2>2. Requests' \in Nat /\ Requests' <= Requests BY <1>2, <2>1
    <2>3. 6 * Requests' + Phase' < 6 * Requests + Phase BY <1>2, <1>3, <2>2, LessCall, Zenon
    <2> QED BY <2>3 DEF CallLeft
  <1>4. ASSUME at' = "send", Requests' \in Nat, Requests' < Requests
        PROVE  CallLeft' < CallLeft
    <2>1. Phase' \in 0..5 BY <1>4 DEF Phase
    <2>2. 6 * Requests' + Phase' < 6 * Requests + Phase BY <1>2, <1>4, <2>1, LessCall, Zenon
    <2> QED BY <2>2 DEF CallLeft
  <1>5. CASE Open /\ UNCHANGED <<ticks, res>>
    <2>1. at = "open" /\ at' \in {"answered", "send", "failed"} BY <1>5 DEF Open
    <2>2. Phase' \in 0..5 /\ Phase' < Phase BY <2>1 DEF Phase
    <2> QED BY <1>1, <1>3, <1>5, <2>2 DEF Open
  <1>6. CASE Send /\ UNCHANGED <<ticks, res>>
    <2>1. at = "send" /\ at' \in {"receive", "failed"} BY <1>6 DEF Send
    <2>2. Phase' \in 0..5 /\ Phase' < Phase BY <2>1 DEF Phase
    <2> QED BY <1>1, <1>3, <1>6, <2>2 DEF Send
  <1>7. CASE Receive /\ UNCHANGED <<ticks, res>>
    <2>1. at = "receive" /\ at' \in {"answered", "failed"} BY <1>7 DEF Receive
    <2>2. Phase' \in 0..5 /\ Phase' < Phase BY <2>1 DEF Phase
    <2> QED BY <1>1, <1>3, <1>7, <2>2 DEF Receive
  <1>8. CASE AskVersionAgain
    <2>1. /\ at = "failed" /\ at' = "send" /\ ticks > 0 /\ ticks' = ticks - 1
          /\ UNCHANGED <<ask, part>>
      BY <1>8 DEF AskVersionAgain
    <2>2. HashesLeft' = HashesLeft /\ HashesLeft \in Nat
      BY <1>2, <2>1, HashesAssumption DEF HashesLeft
    <2>3. Requests' \in Nat /\ Requests' < Requests BY <1>2, <2>1, <2>2 DEF Requests
    <2> QED BY <1>1, <1>4, <2>1, <2>3
  <1>9. CASE AskHash
    <2>1. /\ at = "answered" /\ at' = "send" /\ ticks' = ticks /\ ask' = "hash" /\ part' = part + 1
          /\ (ask = "handles" /\ got.value > 0) \/ (ask = "hash" /\ part < Hashes)
      BY <1>9 DEF AskHash, Ask
    <2>2. HashesLeft' = Hashes - (part + 1) BY <2>1 DEF HashesLeft
    <2>3. HashesLeft' \in Nat /\ HashesLeft \in Nat /\ HashesLeft' < HashesLeft
      <3>1. CASE ask = "hash"
        <4>1. HashesLeft = Hashes - part /\ part < Hashes BY <2>1, <3>1 DEF HashesLeft
        <4> QED BY <1>2, <2>2, <4>1, HashesAssumption
      <3>2. CASE ask = "handles"
        <4>1. HashesLeft = Hashes + 1 BY <3>2 DEF HashesLeft
        <4>2. got.value > 0 BY <2>1, <3>2
        <4>3. part = 0 /\ got.ask = "handles"
          BY <2>1, <3>2 DEF HostInv, DriverAndDevice, DriverInv, WireInv
        <4>4. got.value \in {0, Hashes}
          BY <4>3 DEF HostInv, DriverAndDevice, DriverInv, ReplyInv, ReplyOK
        <4> QED BY <2>2, <4>1, <4>2, <4>3, <4>4, HashesAssumption
      <3> QED BY <2>1, <3>1, <3>2
    <2>4. Requests' \in Nat /\ Requests' < Requests
      <3>1. Requests = ticks + HashesLeft /\ Requests' = ticks + HashesLeft' BY <2>1 DEF Requests
      <3>2. ticks + HashesLeft' \in Nat /\ ticks + HashesLeft' < ticks + HashesLeft
        BY <1>2, <2>3, LessSum, Zenon
      <3> QED BY <3>1, <3>2
    <2> QED BY <1>1, <1>4, <2>1, <2>4
  <1>10. CASE OperationFails \/ OperationReturns
    <2>1. at \in {"answered", "failed"} /\ at' = "back" /\ ticks' = 0 /\ UNCHANGED <<ask, part>>
      BY <1>10 DEF OperationFails, OperationReturns, Return
    <2>2. HashesLeft' = HashesLeft /\ HashesLeft \in Nat
      BY <1>2, <2>1, HashesAssumption DEF HashesLeft
    <2>3. Requests' \in Nat /\ Requests' <= Requests BY <1>2, <2>1, <2>2 DEF Requests
    <2>4. Phase' \in 0..5 /\ Phase' < Phase BY <2>1 DEF Phase
    <2>5. 6 * Requests' + Phase' < 6 * Requests + Phase BY <1>2, <2>3, <2>4, LessCall, Zenon
    <2> QED BY <1>1, <2>5 DEF CallLeft
  <1> QED BY <1>1, <1>5, <1>6, <1>7, <1>8, <1>9, <1>10 DEF HostOperation, HostStep

(* Which way the steps of the process lead.                                  *)
LEMMA DoneIsNearest ==
    ASSUME HostInv, main # "done", main' = "done" PROVE Left' < Left
  BY LeftFacts DEF Left

LEMMA FrontNearer ==
    ASSUME HostInv, FrontStep PROVE Left' < Left
  <1>1. attempt \in 1..4 BY DEF HostInv, ProcessInv, FrontTypeOK, MaxAttempts
  <1>2. main \in {"start", "access", "parse", "apply", "enforced", "context"}
    BY DEF FrontStep, Start, CheckAccess, Parse, AfterApplyMode, AfterApplyTls, MakeContext, Here, Answered
  <1>3. CASE main' = "done" BY <1>2, <1>3, DoneIsNearest
  <1>4. CASE main' # "done"
    <2>1. \/ main = "start" /\ main' = "access"
          \/ main = "access" /\ main' = "parse"
          \/ main = "parse" /\ main' \in {"apply", "context"} /\ attempt' = attempt
          \/ main = "apply" /\ main' = "enforced"
          \/ main = "apply" /\ main' = "apply" /\ attempt' = attempt + 1
          \/ main = "enforced" /\ main' = "context"
          \/ main = "context" /\ main' = "dispatch"
      BY <1>4 DEF FrontStep, Start, CheckAccess, Parse, AfterApplyMode, AfterApplyTls, MakeContext,
         Here, Answered, Query, QueryTicks, Move, Succeed, Fail, Leave, frontVars
    <2> QED BY <1>1, <2>1 DEF Left
  <1> QED BY <1>3, <1>4

LEMMA CallNearer ==
    ASSUME HostInv, CallStep, main # "done" PROVE Left' < Left
  <1>1. CASE GiveUp
    <2>1. main' = "done" BY <1>1 DEF GiveUp, Fail, Leave
    <2> QED BY <2>1, DoneIsNearest
  <1>2. ASSUME NEW place, NEW W, Wsman(place, W), Called(place, W) PROVE Left' < Left
    <2>1. main' \in {"done", place} BY <1>2 DEF Called
    <2>2. CASE main' = "done" BY <2>2, DoneIsNearest
    <2>3. CASE main' = place /\ place # "done"
      <3>1. CASE FeaturesCall(place, W) BY <2>3, <3>1 DEF FeaturesCall, Left
      <3>2. CASE PasswordCall(place, W) BY <2>3, <3>2 DEF PasswordCall, Left
      <3>3. CASE ProxyCall(place, W) BY <2>3, <3>3 DEF ProxyCall, Left
      <3>4. CASE SettingsCall(place, W) BY <2>3, <3>4 DEF SettingsCall, Left
      <3>5. CASE WiFiCall(place, W) BY <2>3, <3>5 DEF WiFiCall, Left
      <3> QED BY <1>2, <3>1, <3>2, <3>3, <3>4, <3>5 DEF Wsman
    <2> QED BY <2>1, <2>2, <2>3
  <1> QED BY <1>1, <1>2 DEF CallStep

LEMMA ConfigureNearer ==
    ASSUME HostInv,
           \/ DispatchConfigure \/ AskPassword \/ MakeClient \/ AskSystem \/ AskSku \/ DecideKvm
           \/ DeactivateCcm \/ CheckUnprovision
    PROVE  Left' < Left
  <1>1. main # "done"
    BY DEF DispatchConfigure, AskPassword, MakeClient, AskSystem, AskSku, DecideKvm, DeactivateCcm,
       CheckUnprovision, Running, Here, Answered
  <1>2. CASE main' = "done" BY <1>1, <1>2, DoneIsNearest
  <1>3. CASE main' # "done"
    <2>1. \/ main = "dispatch" /\ main' = "secret"
          \/ main = "secret" /\ main' = "client"
          \/ main = "client" /\ main' = "run"
          \/ main = "system" /\ main' = "version"
          \/ main = "version" /\ main' = "sku"
          \/ main = "sku" /\ main' \in {"listener", "kvm"}
          \/ main = "run" /\ main' = "unprovision"
      BY <1>3 DEF DispatchConfigure, AskPassword, MakeClient, AskSystem, AskSku, DecideKvm, DeactivateCcm,
         CheckUnprovision, EnsureAMTPassword, Running, Here, Answered, Query, QueryTicks, Move,
         Succeed, Fail, Leave
    <2> QED BY <2>1 DEF Left
  <1> QED BY <1>2, <1>3

LEMMA WantedLength ==
    ASSUME NEW flags \in FlagSets, NEW sync \in BOOLEAN
    PROVE  Len(Wanted(flags, sync)) \in 0..14
  <1> DEFINE H == <<"handles">>
  <1>1. /\ BeforeHashes \in Seq(Sections) /\ Len(BeforeHashes) = 11
        /\ UserCerts \in Seq(Sections) /\ Len(UserCerts) = 2
        /\ OpState \in Seq(Sections) /\ Len(OpState) = 2
        /\ H \in Seq(Sections) /\ Len(H) = 1
    BY DEF BeforeHashes, UserCerts, OpState, Sections, Asks
  <1>2. \/ Wanted(flags, sync) = BeforeHashes \o H \o UserCerts
        \/ Wanted(flags, sync) = BeforeHashes \o UserCerts
        \/ Wanted(flags, sync) = UserCerts
        \/ Wanted(flags, sync) = OpState
    BY DEF Wanted, FlagSets
  <1> HIDE DEF H, BeforeHashes, UserCerts, OpState
  <1>3. \A u, v \in Seq(Sections) : u \o v \in Seq(Sections) /\ Len(u \o v) = Len(u) + Len(v)
    OBVIOUS
  <1>4. /\ BeforeHashes \o H \in Seq(Sections)
        /\ Len(BeforeHashes \o H) = Len(BeforeHashes) + Len(H)
    BY <1>1, <1>3, Zenon
  <1>5. Len(BeforeHashes \o H \o UserCerts) = Len(BeforeHashes \o H) + Len(UserCerts)
    BY <1>1, <1>3, <1>4, Zenon
  <1>6. Len(BeforeHashes \o UserCerts) = Len(BeforeHashes) + Len(UserCerts)
    BY <1>1, <1>3, Zenon
  <1>7. Len(BeforeHashes \o H) = 12 BY <1>1, <1>4
  <1>8. Len(BeforeHashes \o H \o UserCerts) = 14 BY <1>1, <1>5, <1>7
  <1>9. Len(BeforeHashes \o UserCerts) = 13 BY <1>1, <1>6
  <1>10. Len(Wanted(flags, sync)) \in {14, 13, 2} BY <1>1, <1>2, <1>8, <1>9, Zenon
  <1> QED BY <1>10

LEMMA InfoNearer ==
    ASSUME HostInv, InfoStep PROVE Left' < Left
  <1>1. sections \in Seq(Sections) /\ Len(sections) \in Nat
    BY DEF HostInv, InfoTypeOK
  <1>2. CASE DispatchInfo
    <2>1. PICK flags \in FlagSets, sync \in BOOLEAN :
             main = "dispatch" /\ main' \in {"infoSecret", "infoClient"} /\ sections' = Wanted(flags, sync)
      BY <1>2 DEF DispatchInfo, Here, Move
    <2>2. Len(sections') \in 0..14 BY <2>1, WantedLength
    <2>3. Left = 32 BY <2>1 DEF Left
    <2>4. \E k \in 2..3 : Left' = 2 * Len(sections') + k BY <2>1 DEF Left
    <2>5. PICK k \in 2..3 : Left' = 2 * Len(sections') + k BY <2>4
    <2>6. \A n \in 0..14 : 2 * n + k < 32 OBVIOUS
    <2>7. 2 * Len(sections') + k < 32 BY <2>2, <2>6, Zenon
    <2> QED BY <2>3, <2>5, <2>7
  <1>3. CASE InfoPassword \/ InfoClient
    <2>1. /\ UNCHANGED sections
          /\ \/ main = "infoSecret" /\ main' \in {"infoClient", "done"}
             \/ main = "infoClient" /\ main' = "sections"
      BY <1>3 DEF InfoPassword, InfoClient, EnsureAMTPassword, Here, Move, Fail, Leave, infoVars
    <2> QED BY <1>1, <2>1 DEF Left
  <1>4. CASE AskSection
    <2>1. /\ main = "sections" /\ sections # <<>>
          /\ \/ sections' = Tail(sections) /\ main' = "sections"
             \/ sections' = sections /\ main' = "section"
      BY <1>4 DEF AskSection, Here, NextSection, Move, QueryTicks
    <2>2. Len(Tail(sections)) = Len(sections) - 1 BY <1>1, <2>1
    <2> QED BY <1>1, <2>1, <2>2 DEF Left
  <1>5. CASE ShowSection \/ ShowCertificates
    <2>1. /\ main \in {"section", "sections"} /\ sections # <<>>
          /\ sections' = Tail(sections) /\ main' = "sections"
      BY <1>5 DEF ShowSection, ShowCertificates, Here, Answered, NextSection, Move, HostInv, SectionInv
    <2>2. Len(Tail(sections)) = Len(sections) - 1 BY <1>1, <2>1
    <2> QED BY <1>1, <2>1, <2>2 DEF Left
  <1>6. CASE FinishInfo
    <2>1. main = "sections" /\ main' = "done"
      BY <1>6 DEF FinishInfo, Here, Succeed, Fail, Leave
    <2> QED BY <2>1, DoneIsNearest
  <1> QED BY <1>2, <1>3, <1>4, <1>5, <1>6 DEF InfoStep

LEMMA CommandNearer ==
    ASSUME HostInv, CommandStep PROVE Left' < Left
  <1>1. CASE CallStep
    <2>1. CASE ConfigureStep
      <3>1. main # "done"
        BY <2>1 DEF ConfigureStep, DispatchConfigure, AskPassword, MakeClient,
           Features, GetRedirection, SetRedirection, AskSystem, AskSku, DecideKvm, SetKvm, PutRedirection,
           GetOptIn, PutOptIn, GetRealm, UpdatePassword, SetMebx,
           Proxy, ProxyInactive, ListProxies, AddProxy, FindProxy, DeleteProxy,
           Settings, GetLowAccuracyTime, SetHighAccuracyTime, GetHostname, PutHostname,
           GetWiFi, GetCapabilities, PutWiFi, TurnOnWiFi,
           Deactivate, DeactivateCcm, CheckUnprovision, DeactivateAcm, Running, Here, Answered
      <3> QED BY <1>1, <3>1, CallNearer
    <2>2. CASE InfoStep BY <2>2, InfoNearer
    <2> QED BY <2>1, <2>2 DEF CommandStep
  <1> QED BY <1>1, CommandCases, ConfigureNearer, InfoNearer

LEMMA StepNearer ==
    ASSUME HostInv, [Next]_vars, vars' # vars PROVE Nearer
  <1>1. CASE HostOperation BY <1>1, HostNearer DEF Nearer
  <1>2. CASE FrontStep BY <1>2, FrontNearer DEF Nearer
  <1>3. CASE CommandStep BY <1>3, CommandNearer DEF Nearer
  <1>4. CASE ModeChanges
    <2>1. Left' = Left /\ CallLeft' = CallLeft
      BY <1>4 DEF ModeChanges, processVars, infoVars, callVars, Left, CallLeft, Requests, HashesLeft, Phase
    <2>2. Chance = 1 /\ Chance' = 0 BY <1>4 DEF ModeChanges, Chance
    <2> QED BY <2>1, <2>2 DEF Nearer
  <1> QED BY <1>1, <1>2, <1>3, <1>4 DEF Next, Terminated

(* The call is bounded on every platform and device, for every number of     *)
(* certificate hashes and of ticks a version is waited for: each step brings *)
(* it nearer to its end, whichever requests fail or are given up.            *)
THEOREM CallIsBounded == Spec => []LeftInv /\ [][Nearer]_vars
  <1>1. HostInv /\ [Next]_vars => [Nearer]_vars BY StepNearer
  <1> QED BY HostInvariant, LeftIsNatural, <1>1, PTL DEF Spec
=============================================================================
