------------------------- MODULE OrchestratorProofs -------------------------
(***************************************************************************)
(* What Orchestrator promises, for every profile, device and bound.        *)
(***************************************************************************)
EXTENDS Orchestrator, SequenceTheorems, TLAPS

\* Before ExecuteProfile looks at the device.
Before == {"load", "login", "fetch", "start"}

(* The control mode read when the run began bounds the device's from below,  *)
(* and after step 1 the device is as the profile wants it.                   *)
ModeInv ==
    /\ cached <= mode
    /\ at \in Before => cached = 0
    /\ at = "exec" /\ step = 0 => cached # 0
    /\ at \in {"align", "rotate", "prompt"} => cached # 0
    /\ step > 1 => mode # 0
    /\ at \in {"exec", "rotate", "prompt", "ok"} /\ step > 0 =>
          (profile.target = "acm" => mode = 2 \/ 0 \in refused)

(* Where the process is in the profile.                                      *)
StepInv ==
    /\ at \in Before => step = 0
    /\ at = "align" => step = 0
    /\ at = "activate" => step = 1
    /\ at = "ok" => step = Len(Steps(profile)) + 1

(* The steps before the current one are in effect, refused or cleared, and   *)
(* no other but perhaps the current one is in effect.                        *)
AppliedInv ==
    /\ \A i \in 1..(step - 1) : i \in applied \cup refused \/ Cleared(i)
    /\ \A i \in applied : i <= step
    /\ \A i \in applied : StillHeld(i, wifi)

(* While the user is asked the count is behind the attempt's, and once an    *)
(* answer has changed the password it stays the profile's.                   *)
PasswordInv ==
    /\ at \in {"rotate", "prompt"} => profile.admin
    /\ at = "ok" /\ profile.admin => pw = Admin
    /\ ~Misleading =>
        /\ asked <= 3 * (refusals + 1)
        /\ at = "rotate" => asked <= 3 * refusals /\ tries = 1
        /\ at = "prompt" => asked < 3 * refusals + tries
        /\ asked > 3 * refusals /\ at \notin {"prompt", "error"} => profile.admin /\ pw = Admin

IInv == TypeOK /\ ModeInv /\ StepInv /\ AppliedInv /\ PasswordInv

-----------------------------------------------------------------------------
(* What the steps of a profile are. *)

Commands ==
    {<<name, 0>> : name \in {"mebx", "amtfeatures", "wired", "wifisync", "purge", "tls"}}
    \cup {<<"wireless", i>> : i \in 1..MaxWifi} \cup {<<"proxy", i>> : i \in 1..MaxProxies}

(* No step is the probe of the password, and a number is a profile's. *)
LEMMA CommandFacts ==
    ASSUME NEW c \in Commands
    PROVE  c # Probe /\ (c[1] = "wireless" => c[2] \in 0..MaxWifi)
  BY BoundsAssumption DEF Commands, Probe, Command

(* A step that is wanted or not is a sequence of at most one command. *)
LEMMA OnlyIfSeq ==
    ASSUME NEW S, NEW c \in S, NEW wanted
    PROVE  OnlyIf(wanted, c) \in Seq(S)
  BY DEF OnlyIf

(* A profile asks for a sequence of at least one of these commands. *)
LEMMA StepsFacts ==
    ASSUME NEW p \in Profiles
    PROVE  /\ Steps(p) \in Seq(Commands)
           /\ Len(Steps(p)) \in Nat /\ Len(Steps(p)) > 0
  <1>1. /\ Command("mebx", 0) \in Commands /\ Command("wired", 0) \in Commands
        /\ Command("tls", 0) \in Commands /\ Command("amtfeatures", 0) \in Commands
        /\ Command("wifisync", 0) \in Commands /\ Command("purge", 0) \in Commands
    BY DEF Commands, Command
  <1>2. p.wifi \in Nat /\ p.wifi <= MaxWifi /\ p.proxies \in Nat /\ p.proxies <= MaxProxies
    BY BoundsAssumption DEF Profiles
  <1>3. MebxStep(p) \in Seq(Commands) BY <1>1, OnlyIfSeq DEF MebxStep
  <1>4. FeaturesStep \in Seq(Commands) /\ Len(FeaturesStep) = 1 BY <1>1 DEF FeaturesStep
  <1>5. WiredStep(p) \in Seq(Commands) BY <1>1, OnlyIfSeq DEF WiredStep
  <1>6. WifiSyncStep \in Seq(Commands) BY <1>1 DEF WifiSyncStep
  <1>7. WirelessSteps(p) \in Seq(Commands)
    <2> DEFINE w == [i \in 1..p.wifi |-> Command("wireless", i)]
    <2>1. \A i \in 1..p.wifi : i \in 1..MaxWifi BY <1>2, BoundsAssumption
    <2>2. \A i \in 1..p.wifi : Command("wireless", i) \in Commands
      BY <2>1 DEF Commands, Command
    <2>3. w \in [1..p.wifi -> Commands] BY <2>2, Zenon
    <2>4. w \in Seq(Commands) BY <1>2, <2>3, SeqDef, Zenon
    <2> HIDE DEF w
    <2>5. <<Command("purge", 0)>> \in Seq(Commands) BY <1>1
    <2>6. <<Command("purge", 0)>> \o w \in Seq(Commands) BY <2>4, <2>5
    <2> QED BY <2>6, Zenon DEF WirelessSteps, w
  <1>8. TlsStep(p) \in Seq(Commands) BY <1>1, OnlyIfSeq DEF TlsStep
  <1>9. ProxySteps(p) \in Seq(Commands)
    <2>1. \A i \in 1..p.proxies : i \in 1..MaxProxies BY <1>2, BoundsAssumption
    <2>2. \A i \in 1..p.proxies : Command("proxy", i) \in Commands
      BY <2>1 DEF Commands, Command
    <2>3. ProxySteps(p) \in [1..p.proxies -> Commands] BY <2>2, Zenon DEF ProxySteps
    <2> QED BY <1>2, <2>3, SeqDef, Zenon
  <1>10. QED
    <2> DEFINE A == MebxStep(p) \o FeaturesStep
               B == A \o WiredStep(p)
               C == B \o WifiSyncStep
               D == C \o WirelessSteps(p)
               E == D \o TlsStep(p)
               F == E \o ProxySteps(p)
    <2>1. A \in Seq(Commands) /\ Len(A) > 0 BY <1>3, <1>4
    <2> HIDE DEF A
    <2>2. B \in Seq(Commands) /\ Len(B) > 0 BY <2>1, <1>5
    <2> HIDE DEF B
    <2>3. C \in Seq(Commands) /\ Len(C) > 0 BY <2>2, <1>6
    <2> HIDE DEF C
    <2>4. D \in Seq(Commands) /\ Len(D) > 0 BY <2>3, <1>7
    <2> HIDE DEF D
    <2>5. E \in Seq(Commands) /\ Len(E) > 0 BY <2>4, <1>8
    <2> HIDE DEF E
    <2>6. F \in Seq(Commands) /\ Len(F) > 0 /\ Len(F) \in Nat BY <2>5, <1>9
    <2>7. F = Steps(p) BY DEF F, E, D, C, B, A, Steps
    <2> QED BY <2>6, <2>7

-----------------------------------------------------------------------------
(* The children. *)

(* What a child did, or was refused, changes. *)
LEMMA EffectFacts ==
    ASSUME TypeOK, at = "exec", NEW done \in BOOLEAN, Effect(Op, done)
    PROVE  /\ UNCHANGED <<mode, pw, refusals>> /\ wifi' \subseteq 0..MaxWifi
           /\ applied' \subseteq DOMAIN Steps(profile)
           /\ \A i \in applied' : i \in applied \/ i = step
           /\ \A i \in applied :
                 \/ i \in applied'
                 \/ /\ Steps(profile)[i][1] = "wireless" /\ step # 0
                    /\ Op[1] \in {"purge", "wireless"}
           /\ done /\ step # 0 => step \in applied'
           /\ (\A i \in applied : StillHeld(i, wifi)) => \A i \in applied' : StillHeld(i, wifi')
  <1>1. Steps(profile) \in Seq(Commands) /\ Len(Steps(profile)) \in Nat
    BY StepsFacts DEF TypeOK
  <1>2. step \in Nat /\ step <= Len(Steps(profile)) BY <1>1 DEF TypeOK
  <1>3. CASE step = 0
    <2>1. Op[1] = "amtpassword" BY <1>3 DEF Op, Probe, Command
    <2>2. applied' = applied /\ wifi' = wifi /\ UNCHANGED <<mode, pw, refusals>>
      BY <1>3, <2>1 DEF Effect
    <2> QED BY <1>3, <2>2 DEF TypeOK
  <1>4. CASE step # 0
    <2>1. step \in DOMAIN Steps(profile) BY <1>1, <1>2, <1>4
    <2>2. Op = Steps(profile)[step] BY <1>4 DEF Op
    <2>3. Op \in Commands BY <1>1, <2>1, <2>2
    <2>4. Op[1] = "wireless" => Op[2] \in 0..MaxWifi BY <2>3, CommandFacts
    <2>5. CASE Op[1] \notin {"purge", "wireless"}
      <3>1. applied' = applied \cup {i \in {step} \ {0} : done} /\ wifi' = wifi
            /\ UNCHANGED <<mode, pw, refusals>>
        BY <2>5 DEF Effect
      <3>2. StillHeld(step, wifi) BY <2>2, <2>5 DEF StillHeld
      <3> QED BY <1>4, <2>1, <3>1, <3>2 DEF TypeOK
    <2>6. CASE Op[1] \in {"purge", "wireless"}
      <3>1. PICK left \in SUBSET wifi :
              /\ Op[1] = "purge" => done = (left = {})
              /\ wifi' = IF Op[1] = "wireless" /\ done THEN left \cup {Op[2]} ELSE left
              /\ applied' = {i \in applied : StillHeld(i, left)} \cup {i \in {step} : done}
        BY <2>6 DEF Effect
      <3>2. UNCHANGED <<mode, pw, refusals>> BY <2>6 DEF Effect
      <3>3. wifi' \subseteq 0..MaxWifi /\ left \subseteq wifi' BY <2>4, <3>1 DEF TypeOK
      <3>4. applied' \subseteq DOMAIN Steps(profile) BY <2>1, <3>1 DEF TypeOK
      <3>5. \A i \in applied :
               i \in applied' \/ (Steps(profile)[i][1] = "wireless" /\ Op[1] \in {"purge", "wireless"})
        BY <2>6, <3>1 DEF StillHeld
      <3>6. done => StillHeld(step, wifi') BY <2>2, <3>1 DEF StillHeld
      <3>7. \A i \in applied : StillHeld(i, left) => StillHeld(i, wifi') BY <3>3 DEF StillHeld
      <3>8. \A i \in applied' : StillHeld(i, wifi') BY <3>1, <3>6, <3>7
      <3> QED BY <1>4, <3>1, <3>2, <3>3, <3>4, <3>5, <3>8
    <2> QED BY <2>5, <2>6
  <1> QED BY <1>3, <1>4

(* What a child may change, by how it ends. *)
LEMMA ChildFacts ==
    ASSUME TypeOK, at = "exec", NEW outcome, Child(Op, outcome)
    PROVE  /\ UNCHANGED <<mode, pw, refusals>> /\ wifi' \subseteq 0..MaxWifi
           /\ applied' \subseteq DOMAIN Steps(profile)
           /\ refused' \subseteq 0..Len(Steps(profile)) /\ refused \subseteq refused'
           /\ \A i \in applied' : i \in applied \/ i = step
           /\ \A i \in applied :
                 \/ i \in applied'
                 \/ /\ Steps(profile)[i][1] = "wireless" /\ step # 0
                    /\ Op[1] \in {"purge", "wireless"}
           /\ (\A i \in applied : StillHeld(i, wifi)) => \A i \in applied' : StillHeld(i, wifi')
           /\ outcome = "auth" /\ profile.admin => pw # Admin
           /\ outcome = "ok" => /\ mode # 0
                                /\ step # 0 => step \in applied' \cup refused'
                                /\ profile.admin => pw = Admin
  <1>0. step \in 0..Len(Steps(profile))
    <2>1. Len(Steps(profile)) \in Nat BY StepsFacts DEF TypeOK
    <2> QED BY <2>1 DEF TypeOK
  <1>1. CASE UNCHANGED device /\ outcome # "ok" /\ (outcome = "auth" => \E p \in Given : p # pw)
    BY <1>1 DEF device, TypeOK, Given
  <1>2. ASSUME NEW done \in BOOLEAN, mode # 0, pw \in Given, Effect(Op, done), outcome # "auth",
               \/ refused' = refused \cup {i \in {step} \ {0} : ~done}
               \/ refused' = refused /\ outcome # "ok"
        PROVE  /\ UNCHANGED <<mode, pw, refusals>> /\ wifi' \subseteq 0..MaxWifi
               /\ applied' \subseteq DOMAIN Steps(profile)
               /\ refused' \subseteq 0..Len(Steps(profile)) /\ refused \subseteq refused'
               /\ \A i \in applied' : i \in applied \/ i = step
               /\ \A i \in applied :
                     \/ i \in applied'
                     \/ /\ Steps(profile)[i][1] = "wireless" /\ step # 0
                        /\ Op[1] \in {"purge", "wireless"}
               /\ (\A i \in applied : StillHeld(i, wifi)) => \A i \in applied' : StillHeld(i, wifi')
               /\ outcome = "ok" => /\ mode # 0
                                    /\ step # 0 => step \in applied' \cup refused'
                                    /\ profile.admin => pw = Admin
    <2>1. refused' \subseteq 0..Len(Steps(profile)) /\ refused \subseteq refused'
      BY <1>0, <1>2 DEF TypeOK
    <2>2. outcome = "ok" /\ step # 0 => step \in applied' \cup refused'
      BY <1>2, EffectFacts
    <2>3. profile.admin => pw = Admin BY <1>2 DEF Given
    <2> QED BY <1>2, <2>1, <2>2, <2>3, EffectFacts
  <1>3. \/ UNCHANGED device /\ outcome # "ok" /\ (outcome = "auth" => \E p \in Given : p # pw)
        \/ /\ mode # 0 /\ pw \in Given /\ outcome # "auth"
           /\ \E done \in BOOLEAN :
                /\ Effect(Op, done)
                /\ \/ refused' = refused \cup {i \in {step} \ {0} : ~done}
                   \/ refused' = refused /\ outcome # "ok"
    BY DEF Child
  <1> QED BY <1>1, <1>2, <1>3

(* Getting the profile changes nothing but where the process is. *)
LEMMA GetProfileFacts ==
    ASSUME TypeOK, GetProfile
    PROVE  /\ UNCHANGED <<profile, current, cached, step, asked>>
           /\ UNCHANGED <<mode, pw, applied, wifi, refused, refusals>>
           /\ tries' \in 0..3
           /\ at \in Before /\ at' \in Before \cup {"error"}
  BY DEF GetProfile, LoadProfile, Authenticate, FetchProfile, Keep, device, Before, TypeOK

(* What a change of the password may change. *)
LEMMA ChangeFacts ==
    ASSUME TypeOK, NEW old, NEW outcome, ChangePassword(old, outcome)
    PROVE  /\ UNCHANGED <<mode, applied, wifi, refused>>
           /\ pw' = pw \/ pw' = Admin
           /\ pw' \in Passwords \cup {Unset}
           /\ refusals' \in 0..MaxRefusals
           /\ refusals' = refusals \/ refusals' = refusals + 1
           /\ outcome = "ok" => (pw' = Admin /\ refusals' = refusals) \/ refusals' = refusals + 1
  BY AdminAssumption, BoundsAssumption DEF ChangePassword, TypeOK

(* A profile that a later step cleared stays cleared, and one that is lost in *)
(* the current step is cleared by it.                                        *)
LEMMA StaysCleared ==
    ASSUME TypeOK, profile' = profile, step' = step \/ step' = step + 1, NEW i \in Nat, Cleared(i)
    PROVE  Cleared(i)'
  <1>1. step \in Nat
    <2>1. Len(Steps(profile)) \in Nat BY StepsFacts DEF TypeOK
    <2> QED BY <2>1 DEF TypeOK
  <1>2. PICK j \in (i + 1)..step : j \in DOMAIN Steps(profile)
                                 /\ Steps(profile)[j][1] \in {"purge", "wireless"}
    BY DEF Cleared
  <1>3. j \in (i + 1)..step' BY <1>1, <1>2
  <1> QED BY <1>2, <1>3 DEF Cleared

LEMMA LostIsCleared ==
    ASSUME TypeOK, at = "exec", profile' = profile, step' = step \/ step' = step + 1,
           NEW i \in 1..(step - 1), Steps(profile)[i][1] = "wireless",
           step # 0, Op[1] \in {"purge", "wireless"}
    PROVE  Cleared(i)'
  <1>1. step \in Nat /\ step <= Len(Steps(profile)) /\ Len(Steps(profile)) \in Nat
        /\ DOMAIN Steps(profile) = 1..Len(Steps(profile))
    <2>1. Len(Steps(profile)) \in Nat BY StepsFacts DEF TypeOK
    <2>2. DOMAIN Steps(profile) = 1..Len(Steps(profile)) BY StepsFacts DEF TypeOK
    <2> QED BY <2>1, <2>2 DEF TypeOK
  <1>2. step \in (i + 1)..step' /\ step \in DOMAIN Steps(profile) BY <1>1
  <1>3. Steps(profile)[step][1] \in {"purge", "wireless"} BY DEF Op
  <1> QED BY <1>2, <1>3 DEF Cleared

-----------------------------------------------------------------------------
(* Where a step leads. *)

LEMMA NextStepFacts ==
    ASSUME TypeOK, step <= Len(Steps(profile)), NextStep
    PROVE  /\ step' = step + 1 /\ step' \in Nat /\ step' <= Len(Steps(profile)) + 1
           /\ tries' = 0
           /\ step = 0 => at' = "activate"
           /\ step # 0 /\ step = Len(Steps(profile)) => at' = "ok"
           /\ step # 0 /\ step # Len(Steps(profile)) =>
                 at' = "exec" /\ step' <= Len(Steps(profile))
  <1>1. Len(Steps(profile)) \in Nat /\ Len(Steps(profile)) > 0 BY StepsFacts DEF TypeOK
  <1> QED BY <1>1 DEF NextStep, TypeOK

(* How a step ends: the next one, the fallback or the end of the run. *)
LEMMA ExecuteFacts ==
    ASSUME TypeOK, Execute
    PROVE  \/ Child(Op, "ok") /\ NextStep
           \/ /\ UNCHANGED step
              /\ \/ at' = "error" /\ tries' \in 0..3
                    /\ (UNCHANGED device \/ Child(Op, "auth") \/ Child(Op, "other"))
                 \/ /\ at' \in {"rotate", "prompt"} /\ tries' = 1
                    /\ cached # 0 /\ profile.admin
                    /\ \/ Child(Op, "auth")
                       \/ Misleading /\ Child(Op, "other")
  <1>2. CASE ~Rejected /\ Child(Op, "ok") /\ NextStep
    BY <1>2
  <1>3. ASSUME NEW outcome \in {"auth", "other"}, Child(Op, outcome),
               at' = IF ~MayRotate(outcome) THEN "error"
                     ELSE IF current # Unset THEN "rotate" ELSE "prompt",
               tries' = 1, UNCHANGED step
        PROVE  /\ UNCHANGED step
               /\ \/ at' = "error" /\ tries' \in 0..3
                     /\ (Child(Op, "auth") \/ Child(Op, "other"))
                  \/ /\ at' \in {"rotate", "prompt"} /\ tries' = 1
                     /\ cached # 0 /\ profile.admin
                     /\ Child(Op, "auth") \/ (Misleading /\ Child(Op, "other"))
    <2>1. CASE ~MayRotate(outcome) BY <1>3, <2>1
    <2>2. CASE MayRotate(outcome) BY <1>3, <2>2 DEF MayRotate
    <2> QED BY <2>1, <2>2
  <1>4. CASE Rejected /\ at' = "error" /\ UNCHANGED <<step, tries, device>>
    BY <1>4 DEF TypeOK
  <1> QED BY <1>2, <1>3, <1>4 DEF Execute

-----------------------------------------------------------------------------
(* The invariant. *)

LEMMA InitIInv == Init => IInv
  <1> SUFFICES ASSUME Init PROVE IInv OBVIOUS
  <1>1. Len(Steps(profile)) \in Nat /\ Len(Steps(profile)) > 0 BY StepsFacts DEF Init
  <1>2. TypeOK BY <1>1, BoundsAssumption DEF Init, TypeOK, MaxAsked
  <1>3. ModeInv /\ StepInv BY DEF Init, ModeInv, StepInv, Before
  <1>4. AppliedInv BY DEF Init, AppliedInv
  <1>5. PasswordInv BY DEF Init, PasswordInv
  <1> QED BY <1>2, <1>3, <1>4, <1>5 DEF IInv

LEMMA TypeStep == IInv /\ [Next]_vars => TypeOK'
  <1> SUFFICES ASSUME IInv, [Next]_vars PROVE TypeOK' OBVIOUS
  <1> USE DEF IInv
  <1>1. Len(Steps(profile)) \in Nat /\ Len(Steps(profile)) > 0 BY StepsFacts DEF TypeOK
  <1>2. step \in Nat /\ step <= Len(Steps(profile)) + 1 BY <1>1 DEF TypeOK
  <1>3. CASE Start BY <1>1, <1>3 DEF Start, TypeOK, StepInv, Before, device
  <1>4. CASE AlignPassword
    <2>1. step = 0 /\ step <= Len(Steps(profile)) BY <1>1, <1>4 DEF AlignPassword, StepInv
    <2>2. CASE ChangePassword(current, "ok") /\ NextStep
      <3>1. UNCHANGED <<profile, current, cached, asked>> BY <1>4 DEF AlignPassword
      <3>2. /\ UNCHANGED <<mode, applied, wifi, refused>> /\ pw' \in Passwords \cup {Unset}
            /\ refusals' \in 0..MaxRefusals
        BY <2>2, ChangeFacts
      <3>3. step' = 1 /\ at' = "activate" /\ tries' = 0
        BY <2>1, <2>2, NextStepFacts
      <3> QED BY <1>1, <3>1, <3>2, <3>3 DEF TypeOK
    <2>3. ASSUME NEW outcome \in {"auth", "other"}, ChangePassword(current, outcome),
                 at' = "exec", UNCHANGED <<step, tries>>
          PROVE  TypeOK'
      <3>1. UNCHANGED <<profile, current, cached, asked>> BY <1>4 DEF AlignPassword
      <3>2. /\ UNCHANGED <<mode, applied, wifi, refused>> /\ pw' \in Passwords \cup {Unset}
            /\ refusals' \in 0..MaxRefusals
        BY <2>3, ChangeFacts
      <3> QED BY <1>1, <2>1, <2>3, <3>1, <3>2 DEF TypeOK
    <2> QED BY <1>4, <2>2, <2>3 DEF AlignPassword
  <1>5. CASE Activate
    <2>1. step = 1 BY <1>5 DEF Activate, StepInv
    <2>2. mode' \in 0..2 /\ pw' \in Passwords \cup {Unset}
      BY <1>5, AdminAssumption DEF Activate, ChildActivates, Target, Given, TypeOK
    <2>3. at' \in {"exec", "error"} BY <1>5 DEF Activate
    <2>4. refused' \subseteq 0..Len(Steps(profile))
      <3>1. refused' = refused \/ \E ok \in BOOLEAN : refused' = refused \cup {i \in {0} : ok /\ mode # Target}
        BY <1>5 DEF Activate, ChildActivates
      <3>2. refused' \subseteq refused \cup {0} BY <3>1
      <3>3. refused \subseteq 0..Len(Steps(profile)) /\ 0 \in 0..Len(Steps(profile)) BY <1>1 DEF TypeOK
      <3> QED BY <3>2, <3>3
    <2> QED BY <1>1, <1>5, <2>1, <2>2, <2>3, <2>4 DEF Activate, TypeOK
  <1>6. CASE Execute
    <2>1. at = "exec" /\ UNCHANGED <<profile, current, cached, asked>> BY <1>6 DEF Execute
    <2>2. step <= Len(Steps(profile)) BY <2>1 DEF TypeOK
    <2>3. CASE Child(Op, "ok") /\ NextStep
      BY <1>1, <1>2, <2>1, <2>2, <2>3, ChildFacts, NextStepFacts DEF TypeOK
    <2>4. CASE UNCHANGED step /\ at' \in {"error", "rotate", "prompt"}
               /\ tries' \in 0..3
               /\ (UNCHANGED device \/ Child(Op, "auth") \/ Child(Op, "other"))
      <3>1. /\ UNCHANGED <<mode, pw, refusals>> /\ refused' \subseteq 0..Len(Steps(profile))
            /\ applied' \subseteq DOMAIN Steps(profile) /\ wifi' \subseteq 0..MaxWifi
        BY <2>1, <2>4, ChildFacts DEF TypeOK, device
      <3> QED BY <1>2, <2>1, <2>2, <2>4, <3>1 DEF TypeOK
    <2> QED BY <1>6, <2>3, <2>4, ExecuteFacts
  <1>7. CASE Rotate
    <2>1. UNCHANGED <<profile, current, cached, step, tries, asked>> /\ at = "rotate"
      BY <1>7 DEF Rotate
    <2>2. at' \in {"exec", "prompt"} BY <1>7 DEF Rotate, TypeOK
    <2>3. /\ UNCHANGED <<mode, applied, wifi, refused>> /\ pw' \in Passwords \cup {Unset}
          /\ refusals' \in 0..MaxRefusals
      BY <1>7, ChangeFacts DEF Rotate
    <2>4. step <= Len(Steps(profile)) BY <2>1 DEF TypeOK
    <2> QED BY <1>1, <1>2, <2>1, <2>2, <2>3, <2>4 DEF TypeOK
  <1>8. CASE Prompt
    <2>1. asked' \in 0..MaxAsked BY BoundsAssumption, <1>8 DEF Prompt, TypeOK, MaxAsked
    <2>2. at' \in {"prompt", "exec", "error"} /\ tries' \in 0..3
      BY <1>8 DEF Prompt, TypeOK, MaxTries
    <2>3. pw' \in Passwords \cup {Unset} /\ refusals' \in 0..MaxRefusals
      BY <1>8, ChangeFacts DEF Prompt, TypeOK
    <2> QED BY <1>8, <2>1, <2>2, <2>3 DEF Prompt, TypeOK
  <1>9. CASE UNCHANGED vars BY <1>9 DEF vars, poVars, device, TypeOK
  <1>10. CASE GetProfile BY <1>1, <1>2, <1>10, GetProfileFacts DEF Before, TypeOK
  <1> QED BY <1>3, <1>4, <1>5, <1>6, <1>7, <1>8, <1>9, <1>10 DEF Next, ExecuteProfile, Done

LEMMA StepInvStep == IInv /\ [Next]_vars => StepInv'
  <1> SUFFICES ASSUME IInv, [Next]_vars PROVE StepInv' OBVIOUS
  <1> USE DEF IInv
  <1>1. Len(Steps(profile)) \in Nat /\ Len(Steps(profile)) > 0 BY StepsFacts DEF TypeOK
  <1>2. step \in Nat /\ step <= Len(Steps(profile)) + 1 BY <1>1 DEF TypeOK
  <1>3. CASE Start BY <1>3 DEF Start, StepInv, Before
  <1>4. CASE AlignPassword
    <2>1. step = 0 /\ UNCHANGED profile /\ at = "align" BY <1>4 DEF AlignPassword, StepInv
    <2>2. step <= Len(Steps(profile)) BY <1>1, <2>1
    <2>3. \/ step' = 1 /\ at' = "activate"
          \/ step' = step /\ at' = "exec"
      BY <1>4, <2>1, <2>2, NextStepFacts DEF AlignPassword
    <2> QED BY <2>1, <2>3 DEF StepInv, Before
  <1>5. CASE Activate BY <1>5 DEF Activate, StepInv, Before
  <1>6. CASE Execute
    <2>1. at = "exec" /\ UNCHANGED profile BY <1>6 DEF Execute
    <2>2. step <= Len(Steps(profile)) BY <2>1 DEF TypeOK
    <2>3. CASE Child(Op, "ok") /\ NextStep
      <3>1. /\ step' = step + 1 /\ at' \in {"activate", "ok", "exec"}
            /\ at' = "activate" => step = 0
            /\ at' = "ok" => step = Len(Steps(profile))
        BY <2>2, <2>3, NextStepFacts
      <3> QED BY <1>2, <2>1, <3>1 DEF StepInv, Before
    <2>4. CASE UNCHANGED step /\ at' \in {"error", "rotate", "prompt"}
      BY <2>4 DEF StepInv, Before
    <2> QED BY <1>6, <2>3, <2>4, ExecuteFacts
  <1>7. CASE Rotate BY <1>7 DEF Rotate, StepInv, Before
  <1>8. CASE Prompt BY <1>8 DEF Prompt, StepInv, Before
  <1>9. CASE UNCHANGED vars BY <1>9 DEF vars, poVars, device, StepInv
  <1>10. CASE GetProfile BY <1>10, GetProfileFacts DEF Before, StepInv
  <1> QED BY <1>3, <1>4, <1>5, <1>6, <1>7, <1>8, <1>9, <1>10 DEF Next, ExecuteProfile, Done

(* A step that touches no profile, no step and no setting of the device.     *)
LEMMA Undisturbed ==
    ASSUME IInv, UNCHANGED <<profile, step, applied, wifi>>, refused \subseteq refused'
    PROVE  AppliedInv'
  <1>1. step \in Nat
    <2>1. Len(Steps(profile)) \in Nat BY StepsFacts DEF IInv, TypeOK
    <2> QED BY <2>1 DEF IInv, TypeOK
  <1>2. \A i \in 1..(step' - 1) : i \in applied' \cup refused' \/ Cleared(i)'
    <2> SUFFICES ASSUME NEW i \in 1..(step - 1) PROVE i \in applied' \cup refused' \/ Cleared(i)'
      OBVIOUS
    <2>1. i \in applied \cup refused \/ Cleared(i) BY DEF IInv, AppliedInv
    <2>2. Cleared(i) => Cleared(i)' BY StaysCleared DEF IInv
    <2> QED BY <2>1, <2>2
  <1>3. \A i \in applied' : i <= step' BY DEF IInv, AppliedInv
  <1>4. \A i \in applied' : StillHeld(i, wifi)' BY DEF IInv, AppliedInv, StillHeld
  <1> QED BY <1>2, <1>3, <1>4 DEF AppliedInv

LEMMA AppliedStep == IInv /\ [Next]_vars => AppliedInv'
  <1> SUFFICES ASSUME IInv, [Next]_vars PROVE AppliedInv' OBVIOUS
  <1> USE DEF IInv
  <1>1. Len(Steps(profile)) \in Nat /\ Len(Steps(profile)) > 0
        /\ DOMAIN Steps(profile) = 1..Len(Steps(profile))
    BY StepsFacts DEF TypeOK
  <1>2. step \in Nat /\ step <= Len(Steps(profile)) + 1 BY <1>1 DEF TypeOK
  <1>3. ASSUME step = 0, applied' = applied, step' \in {0, 1} PROVE AppliedInv'
    <2>1. \A i \in applied : FALSE
      <3>1. \A i \in applied : i \in 1..Len(Steps(profile)) /\ i <= 0
        BY <1>1, <1>3 DEF TypeOK, AppliedInv
      <3>2. \A i \in 1..Len(Steps(profile)) : ~(i <= 0) BY <1>1
      <3> QED BY <3>1, <3>2, Zenon
    <2>2. \A n \in {0, 1} : \A i \in 1..(n - 1) : FALSE OBVIOUS
    <2> QED BY <1>3, <2>1, <2>2 DEF AppliedInv
  <1>4. CASE Start
    BY <1>3, <1>4 DEF Start, StepInv, Before, device
  <1>5. CASE AlignPassword
    <2>1. step = 0 /\ step <= Len(Steps(profile)) BY <1>1, <1>5 DEF AlignPassword, StepInv
    <2>2. applied' = applied BY <1>5, ChangeFacts DEF AlignPassword
    <2>3. step' \in {0, 1} BY <1>5, <2>1, NextStepFacts DEF AlignPassword
    <2> QED BY <1>3, <2>1, <2>2, <2>3
  <1>6. CASE Activate
    <2>1. refused \subseteq refused' BY <1>6 DEF Activate, ChildActivates
    <2> QED BY <1>6, <2>1, Undisturbed DEF Activate
  <1>7. CASE Execute
    <2>1. at = "exec" /\ UNCHANGED profile /\ step <= Len(Steps(profile))
      BY <1>7 DEF Execute, TypeOK
    <2>2. CASE UNCHANGED <<device, step>> BY <2>1, <2>2, Undisturbed DEF device
    <2>3. ASSUME NEW outcome, Child(Op, outcome),
                 \/ step' = step /\ outcome # "ok"
                 \/ step' = step + 1 /\ outcome = "ok"
          PROVE  AppliedInv'
      <3>1. /\ applied' \subseteq DOMAIN Steps(profile) /\ refused \subseteq refused'
            /\ \A i \in applied' : i \in applied \/ i = step
            /\ \A i \in applied :
                  \/ i \in applied'
                  \/ /\ Steps(profile)[i][1] = "wireless" /\ step # 0
                     /\ Op[1] \in {"purge", "wireless"}
            /\ \A i \in applied' : StillHeld(i, wifi')
            /\ outcome = "ok" /\ step # 0 => step \in applied' \cup refused'
        BY <2>1, <2>3, ChildFacts DEF AppliedInv
      <3>2. ASSUME NEW i \in 1..(step' - 1) PROVE i \in applied' \cup refused' \/ Cleared(i)'
        <4>1. CASE i = step
          <5>1. outcome = "ok" /\ step # 0 BY <1>2, <2>3, <3>2, <4>1
          <5> QED BY <3>1, <4>1, <5>1
        <4>2. CASE i # step
          <5>1. i \in 1..(step - 1) BY <1>2, <2>3, <4>2
          <5>2. i \in applied \cup refused \/ Cleared(i) BY <5>1 DEF AppliedInv
          <5>3. Cleared(i) => Cleared(i)' BY <2>1, <2>3, StaysCleared
          <5>4. i \in applied /\ i \notin applied' => Cleared(i)'
            BY <2>1, <2>3, <3>1, <5>1, LostIsCleared
          <5> QED BY <3>1, <5>2, <5>3, <5>4
        <4> QED BY <4>1, <4>2
      <3>3. \A i \in applied' : i <= step'
        BY <1>1, <1>2, <2>3, <3>1 DEF AppliedInv
      <3>4. \A i \in applied' : StillHeld(i, wifi)' BY <2>1, <3>1 DEF StillHeld
      <3> QED BY <3>2, <3>3, <3>4 DEF AppliedInv
    <2>4. CASE Child(Op, "ok") /\ NextStep
      <3>1. step' = step + 1 BY <2>4 DEF NextStep
      <3> QED BY <2>3, <2>4, <3>1
    <2>5. CASE UNCHANGED step /\ Child(Op, "auth") BY <2>3, <2>5
    <2>6. CASE UNCHANGED step /\ Child(Op, "other") BY <2>3, <2>6
    <2> QED BY <1>7, <2>2, <2>4, <2>5, <2>6, ExecuteFacts
  <1>8. CASE Rotate
    <2>1. UNCHANGED <<profile, step, applied, wifi, refused>> BY <1>8, ChangeFacts DEF Rotate
    <2> QED BY <2>1, Undisturbed
  <1>9. CASE Prompt
    <2>1. UNCHANGED <<profile, step, applied, wifi, refused>> BY <1>9 DEF Prompt
    <2> QED BY <2>1, Undisturbed
  <1>10. CASE UNCHANGED vars BY <1>10, Undisturbed DEF vars, poVars, device
  <1>11. CASE GetProfile BY <1>11, GetProfileFacts, Undisturbed
  <1> QED BY <1>4, <1>5, <1>6, <1>7, <1>8, <1>9, <1>10, <1>11 DEF Next, ExecuteProfile, Done

LEMMA ModeStep == IInv /\ [Next]_vars => ModeInv'
  <1> SUFFICES ASSUME IInv, [Next]_vars PROVE ModeInv' OBVIOUS
  <1> USE DEF IInv
  <1>1. Len(Steps(profile)) \in Nat /\ Len(Steps(profile)) > 0 BY StepsFacts DEF TypeOK
  <1>2. step \in Nat /\ mode \in 0..2 /\ cached \in 0..2 BY <1>1 DEF TypeOK
  <1>3. CASE Start
    BY <1>2, <1>3 DEF Start, ModeInv, StepInv, Before, device
  <1>4. CASE AlignPassword
    <2>1. step = 0 /\ cached # 0 BY <1>4 DEF AlignPassword, ModeInv, StepInv
    <2>2. step <= Len(Steps(profile)) BY <1>1, <2>1
    <2>3. mode' = mode /\ UNCHANGED <<profile, cached>> BY <1>4, ChangeFacts DEF AlignPassword
    <2>4. \/ step' = 1 /\ at' = "activate"
          \/ step' = 0 /\ at' = "exec"
      BY <1>4, <2>1, <2>2, NextStepFacts DEF AlignPassword
    <2> QED BY <2>1, <2>3, <2>4 DEF ModeInv, Before
  <1>5. CASE Activate
    <2>1. step = 1 /\ UNCHANGED <<profile, cached, step>> BY <1>5 DEF Activate, StepInv
    <2>2. at' \in {"exec", "error"} BY <1>5 DEF Activate
    <2>3. cached <= mode' BY <1>2, <1>5 DEF Activate, ChildActivates, Target, ModeInv
    <2>4. at' = "exec" /\ profile.target = "acm" => mode' = 2 \/ 0 \in refused'
      BY <1>2, <1>5 DEF Activate, ChildActivates, Target, ModeInv
    <2> QED BY <2>1, <2>2, <2>3, <2>4 DEF ModeInv, Before
  <1>6. CASE Execute
    <2>1. at = "exec" /\ UNCHANGED <<profile, cached>> BY <1>6 DEF Execute
    <2>2. step <= Len(Steps(profile)) BY <2>1 DEF TypeOK
    <2>3. CASE Child(Op, "ok") /\ NextStep
      <3>1. mode' = mode /\ mode # 0 /\ refused \subseteq refused' BY <2>1, <2>3, ChildFacts
      <3>2. step' = step + 1 /\ at' \in {"activate", "ok", "exec"}
            /\ (step = 0 => at' = "activate")
        BY <2>2, <2>3, NextStepFacts
      <3> QED BY <1>2, <2>1, <3>1, <3>2 DEF ModeInv, Before
    <2>4. CASE UNCHANGED step /\ at' = "error"
               /\ (UNCHANGED device \/ Child(Op, "auth") \/ Child(Op, "other"))
      <3>1. mode' = mode BY <2>1, <2>4, ChildFacts DEF device
      <3> QED BY <2>1, <2>4, <3>1 DEF ModeInv, Before
    <2>5. CASE UNCHANGED step /\ at' \in {"rotate", "prompt"} /\ cached # 0
               /\ (Child(Op, "auth") \/ Child(Op, "other"))
      <3>1. mode' = mode /\ refused \subseteq refused' BY <2>1, <2>5, ChildFacts
      <3> QED BY <2>1, <2>5, <3>1 DEF ModeInv, Before
    <2> QED BY <1>6, <2>3, <2>4, <2>5, ExecuteFacts
  <1>7. CASE Rotate
    <2>1. UNCHANGED <<profile, cached, step, mode, refused>> /\ at' \in {"exec", "prompt"} /\ at = "rotate"
      BY <1>7, ChangeFacts DEF Rotate
    <2> QED BY <2>1 DEF ModeInv, Before
  <1>8. CASE Prompt
    <2>1. UNCHANGED <<profile, cached, step, mode, refused>> /\ at' \in {"exec", "prompt", "error"}
          /\ at = "prompt"
      BY <1>8 DEF Prompt
    <2> QED BY <2>1 DEF ModeInv, Before
  <1>9. CASE UNCHANGED vars BY <1>9 DEF vars, poVars, device, ModeInv
  <1>10. CASE GetProfile BY <1>1, <1>2, <1>10, GetProfileFacts DEF Before, ModeInv
  <1> QED BY <1>3, <1>4, <1>5, <1>6, <1>7, <1>8, <1>9, <1>10 DEF Next, ExecuteProfile, Done

LEMMA PasswordStep == IInv /\ [Next]_vars => PasswordInv'
  <1> SUFFICES ASSUME IInv, [Next]_vars PROVE PasswordInv' OBVIOUS
  <1> USE DEF IInv
  <1>1. Len(Steps(profile)) \in Nat /\ Len(Steps(profile)) > 0 BY StepsFacts DEF TypeOK
  <1>2. step \in Nat /\ asked \in Nat /\ tries \in 0..3 /\ refusals \in Nat
    BY <1>1, BoundsAssumption DEF TypeOK, MaxAsked
  <1>3. CASE Start
    <2>1. UNCHANGED <<profile, asked, pw, refusals>> /\ at = "start"
          /\ at' \notin {"rotate", "prompt", "ok"}
      BY <1>3 DEF Start, device
    <2> QED BY <2>1 DEF PasswordInv
  <1>4. CASE AlignPassword
    <2>1. at = "align" /\ step = 0 /\ UNCHANGED <<profile, asked>> BY <1>4 DEF AlignPassword, StepInv
    <2>2. step <= Len(Steps(profile)) BY <1>1, <2>1
    <2>3. (pw' = pw \/ pw' = Admin) /\ (refusals' = refusals \/ refusals' = refusals + 1)
      BY <1>4, ChangeFacts DEF AlignPassword
    <2>4. at' \in {"activate", "exec"} BY <1>4, <2>1, <2>2, NextStepFacts DEF AlignPassword
    <2> QED BY <1>2, <2>1, <2>3, <2>4 DEF PasswordInv
  <1>5. CASE Activate
    <2>1. at = "activate" /\ UNCHANGED <<profile, asked, refusals>> /\ at' \in {"exec", "error"}
      BY <1>5 DEF Activate
    <2>2. pw' = pw \/ (profile.admin => pw' = Admin)
      BY <1>5 DEF Activate, ChildActivates, Given
    <2> QED BY <2>1, <2>2 DEF PasswordInv
  <1>6. CASE Execute
    <2>1. at = "exec" /\ UNCHANGED <<profile, cached, asked>> BY <1>6 DEF Execute
    <2>2. step <= Len(Steps(profile)) BY <2>1 DEF TypeOK
    <2>6. UNCHANGED <<pw, refusals>>
      <3>1. CASE UNCHANGED device BY <3>1 DEF device
      <3>2. CASE Child(Op, "ok") \/ Child(Op, "auth") \/ Child(Op, "other") BY <2>1, <3>2, ChildFacts
      <3> QED BY <1>6, <3>1, <3>2, ExecuteFacts
    <2>3. CASE Child(Op, "ok") /\ NextStep
      <3>1. profile.admin => pw' = Admin BY <2>1, <2>3, ChildFacts
      <3>2. at' \in {"activate", "ok", "exec"} BY <2>2, <2>3, NextStepFacts
      <3> QED BY <2>1, <2>6, <3>1, <3>2 DEF PasswordInv
    <2>4. CASE at' = "error"
      BY <2>1, <2>4, <2>6 DEF PasswordInv
    <2>5. CASE /\ at' \in {"rotate", "prompt"} /\ tries' = 1 /\ profile.admin
               /\ Child(Op, "auth") \/ (Misleading /\ Child(Op, "other"))
      <3>1. ~Misleading => pw # Admin BY <2>1, <2>5, ChildFacts
      <3>2. ~Misleading => asked <= 3 * refusals BY <1>2, <2>1, <3>1 DEF PasswordInv
      <3> QED BY <1>2, <2>1, <2>5, <2>6, <3>2 DEF PasswordInv
    <2> QED BY <1>6, <2>3, <2>4, <2>5, ExecuteFacts
  <1>7. CASE Rotate
    <2>1. at = "rotate" /\ UNCHANGED <<profile, asked, tries>> /\ at' \in {"exec", "prompt"}
      BY <1>7 DEF Rotate
    <2>2. ~Misleading => asked <= 3 * refusals /\ tries = 1 BY <2>1 DEF PasswordInv
    <2>3. refusals' = refusals \/ refusals' = refusals + 1 BY <1>7, ChangeFacts DEF Rotate
    <2>4. profile.admin BY <2>1 DEF PasswordInv
    <2> QED BY <1>2, <2>1, <2>2, <2>3, <2>4 DEF PasswordInv
  <1>8. CASE Prompt
    <2>1. at = "prompt" /\ UNCHANGED profile /\ profile.admin BY <1>8 DEF Prompt, PasswordInv
    <2>2. ~Misleading => asked' <= asked + 1 /\ asked' <= 3 * refusals + tries /\ asked' \in Nat
      BY <1>2, <1>8 DEF Prompt, PasswordInv
    <2>3. \/ at' = "prompt" /\ tries' = tries + 1 /\ refusals' = refusals
          \/ at' = "error" /\ refusals' = refusals
          \/ at' = "exec" /\ ((pw' = Admin /\ refusals' = refusals) \/ refusals' = refusals + 1)
      BY <1>8 DEF Prompt, ChangePassword
    <2> QED BY <1>2, <2>1, <2>2, <2>3 DEF PasswordInv
  <1>9. CASE UNCHANGED vars BY <1>9 DEF vars, poVars, device, PasswordInv
  <1>10. CASE GetProfile BY <1>10, GetProfileFacts DEF Before, PasswordInv
  <1> QED BY <1>3, <1>4, <1>5, <1>6, <1>7, <1>8, <1>9, <1>10 DEF Next, ExecuteProfile, Done

LEMMA Invariant == Spec => []IInv
  <1>1. IInv /\ [Next]_vars => IInv'
    BY TypeStep, ModeStep, StepInvStep, AppliedStep, PasswordStep DEF IInv
  <1> QED BY InitIInv, <1>1, PTL DEF Spec

-----------------------------------------------------------------------------
(* When errors are what they seem the run is bounded. *)

(* What is left of the run: the steps of the profile, the refusals without   *)
(* an error of a change of the password and, within a step, the fallback,    *)
(* which is over when the device has the profile's password.                 *)
ProfileLeft ==
    IF at \in {"ok", "error"} THEN 0
    ELSE IF at \in Before THEN Len(Steps(profile)) + 2 ELSE Len(Steps(profile)) + 1 - step
StepsLeft == ProfileLeft + (MaxRefusals - refusals)
Within ==
    CASE at = "load" -> 5
      [] at = "login" -> IF tries = 0 THEN 4 ELSE 3
      [] at = "fetch" -> 2
      [] at = "start" -> 1
      [] at \in {"align", "activate"} -> 7
      [] at = "exec" -> IF pw = Admin THEN 0 ELSE 6
      [] at = "rotate" -> 5
      [] at = "prompt" -> 4 - tries
      [] OTHER -> 0
Remaining == 8 * StepsLeft + Within
RemainingInv == StepsLeft \in Nat /\ Within \in 0..7

LEMMA RemainingFacts ==
    ASSUME IInv
    PROVE  /\ ProfileLeft \in Nat /\ (at \notin {"ok", "error"} => ProfileLeft > 0)
           /\ refusals \in Nat /\ MaxRefusals - refusals \in Nat /\ StepsLeft \in Nat
           /\ Within \in 0..7
  <1>1. Len(Steps(profile)) \in Nat /\ Len(Steps(profile)) > 0 BY StepsFacts DEF IInv, TypeOK
  <1>2. step \in Nat /\ step <= Len(Steps(profile)) + 1 /\ tries \in 0..3 BY <1>1 DEF IInv, TypeOK
  <1>3. at \in {"align", "activate", "exec", "rotate", "prompt"} => step <= Len(Steps(profile))
    BY <1>1 DEF IInv, TypeOK, StepInv
  <1>4. /\ at \in {"load", "login", "fetch", "start", "align", "exec", "rotate", "prompt", "activate", "ok", "error"}
    BY DEF IInv, TypeOK
  <1>5. ProfileLeft \in Nat /\ (at \notin {"ok", "error"} => ProfileLeft > 0)
    BY <1>1, <1>2, <1>3, <1>4 DEF ProfileLeft, Before
  <1>7. refusals \in Nat /\ MaxRefusals - refusals \in Nat BY BoundsAssumption DEF IInv, TypeOK
  <1>6. Within \in 0..7 BY <1>2, <1>4 DEF Within
  <1> QED BY <1>5, <1>6, <1>7 DEF StepsLeft

\* A step of the profile fewer is worth more than anything within one.
LEMMA LessLeft ==
    ASSUME NEW m \in Nat, NEW n \in Nat, NEW a \in 0..7, NEW b \in 0..7,
           m < n \/ (m = n /\ a < b)
    PROVE  8 * m + a < 8 * n + b
  <1>1. CASE m < n
    <2>1. m + 1 <= n BY <1>1
    <2> QED BY <2>1
  <1>2. CASE m = n /\ a < b BY <1>2
  <1> QED BY <1>1, <1>2

\* A refused change counts as much as a step.
LEMMA SumFacts ==
    ASSUME NEW p \in Int, NEW q \in Int, NEW m \in Int, NEW r \in Int, NEW s \in Int
    PROVE  /\ s = r => (q < p => q + (m - s) < p + (m - r)) /\ (q = p => q + (m - s) = p + (m - r))
           /\ s = r + 1 /\ q <= p => q + (m - s) < p + (m - r)
  OBVIOUS

LEMMA RemainingStep ==
    ASSUME ~Misleading, IInv, [Next]_vars, vars' # vars
    PROVE  StepsLeft' < StepsLeft \/ (StepsLeft' = StepsLeft /\ Within' < Within)
  <1> USE DEF IInv
  <1>1. Len(Steps(profile)) \in Nat /\ Len(Steps(profile)) > 0 BY StepsFacts DEF TypeOK
  <1>2. step \in Nat /\ tries \in 0..3 BY <1>1 DEF TypeOK
  <1>3. /\ ProfileLeft \in Nat /\ (at \notin {"ok", "error"} => ProfileLeft > 0)
        /\ refusals \in Nat /\ MaxRefusals \in Nat
    BY RemainingFacts, BoundsAssumption
  \* It is enough to look at the profile, and at the refusals when they count.
  <1>0. ASSUME refusals' = refusals, ProfileLeft' \in Int,
               ProfileLeft' < ProfileLeft \/ (ProfileLeft' = ProfileLeft /\ Within' < Within)
        PROVE  StepsLeft' < StepsLeft \/ (StepsLeft' = StepsLeft /\ Within' < Within)
    <2>1. refusals' \in Int /\ refusals \in Int /\ MaxRefusals \in Int /\ ProfileLeft \in Int
      BY <1>0, <1>3
    <2>2. /\ ProfileLeft' < ProfileLeft => StepsLeft' < StepsLeft
          /\ ProfileLeft' = ProfileLeft => StepsLeft' = StepsLeft
      BY <1>0, <2>1, SumFacts, Zenon DEF StepsLeft
    <2> QED BY <1>0, <2>2
  <1>00. ASSUME refusals' = refusals + 1, ProfileLeft' \in Int, ProfileLeft' <= ProfileLeft
         PROVE  StepsLeft' < StepsLeft
    <2>1. refusals' \in Int /\ refusals \in Int /\ MaxRefusals \in Int /\ ProfileLeft \in Int
      BY <1>00, <1>3
    <2> QED BY <1>00, <2>1, SumFacts, Zenon DEF StepsLeft
  <1>4. ASSUME at \notin {"ok", "error"}, at' \in {"ok", "error"}, refusals' = refusals
        PROVE  StepsLeft' < StepsLeft
    <2>1. ProfileLeft' = 0 BY <1>4 DEF ProfileLeft
    <2> QED BY <1>3, <1>4, <2>1 DEF StepsLeft
  <1>5. CASE GetProfile
    <2>1. /\ profile' = profile /\ refusals' = refusals
          /\ at \in Before /\ at' \in Before \cup {"error"}
      BY <1>5, GetProfileFacts
    <2>2. CASE at' = "error" BY <1>4, <2>1, <2>2 DEF Before
    <2>3. CASE at' # "error"
      <3>1. ProfileLeft' = ProfileLeft BY <2>1, <2>3 DEF ProfileLeft, Before
      <3>2. \/ at = "load" /\ at' \in {"start", "login", "fetch"}
            \/ at = "login" /\ at' = "fetch"
            \/ at = "login" /\ tries = 0 /\ tries' = 1 /\ at' = at
            \/ at = "fetch" /\ at' = "start"
        BY <1>5, <2>3 DEF GetProfile, LoadProfile, Authenticate, FetchProfile
      <3>3. Within' < Within BY <1>2, <3>2 DEF Within
      <3> QED BY <1>0, <1>3, <2>1, <3>1, <3>3
    <2> QED BY <2>2, <2>3
  <1>6. CASE Start
    <2>1. at = "start" /\ profile' = profile /\ step = 0 /\ refusals' = refusals
      BY <1>6 DEF Start, StepInv, Before, device
    <2>2. \/ at' = "error"
          \/ at' \in {"align", "exec"} /\ step' = 0
          \/ at' = "activate" /\ step' = 1
      BY <1>6, <2>1 DEF Start
    <2>3. CASE at' = "error" BY <1>4, <2>1, <2>3
    <2>4. CASE at' # "error"
      <3>1. ProfileLeft' < ProfileLeft /\ ProfileLeft' \in Int
        BY <1>1, <2>1, <2>2, <2>4 DEF ProfileLeft, Before
      <3> QED BY <1>0, <2>1, <3>1
    <2> QED BY <2>3, <2>4
  <1>7. CASE AlignPassword
    <2>1. at = "align" /\ step = 0 /\ profile' = profile BY <1>7 DEF AlignPassword, StepInv
    <2>2. \/ step' = 1 /\ at' = "activate"
          \/ step' = step /\ at' = "exec"
      BY <1>1, <1>7, <2>1, NextStepFacts DEF AlignPassword
    <2>3. refusals' = refusals \/ refusals' = refusals + 1 BY <1>7, ChangeFacts DEF AlignPassword
    <2>4. CASE step' = 1 /\ at' = "activate"
      <3>1. ProfileLeft' = ProfileLeft - 1 BY <1>1, <2>1, <2>4 DEF ProfileLeft, Before
      <3> QED BY <1>0, <1>00, <1>3, <2>3, <3>1
    <2>5. CASE step' = step /\ at' = "exec"
      <3>1. ProfileLeft' = ProfileLeft BY <1>1, <2>1, <2>5 DEF ProfileLeft, Before
      <3>2. Within' < Within BY <2>1, <2>5 DEF Within
      <3> QED BY <1>0, <1>00, <1>3, <2>3, <3>1, <3>2
    <2> QED BY <2>2, <2>4, <2>5
  <1>8. CASE Activate
    <2>1. /\ at = "activate" /\ UNCHANGED <<profile, step, refusals>> /\ at' \in {"exec", "error"}
      BY <1>8 DEF Activate
    <2>2. CASE at' = "exec"
      <3>1. ProfileLeft' = ProfileLeft BY <2>1, <2>2 DEF ProfileLeft, Before
      <3>2. Within' < Within BY <2>1, <2>2 DEF Within
      <3> QED BY <1>0, <1>3, <2>1, <3>1, <3>2
    <2> QED BY <1>4, <2>1, <2>2
  <1>9. CASE Execute
    <2>1. at = "exec" /\ profile' = profile BY <1>9 DEF Execute
    <2>2. step <= Len(Steps(profile)) BY <2>1 DEF TypeOK
    <2>6. UNCHANGED <<pw, refusals>>
      <3>1. CASE UNCHANGED device BY <3>1 DEF device
      <3>2. CASE Child(Op, "ok") \/ Child(Op, "auth") \/ Child(Op, "other") BY <2>1, <3>2, ChildFacts
      <3> QED BY <1>9, <3>1, <3>2, ExecuteFacts
    <2>3. CASE Child(Op, "ok") /\ NextStep
      <3>1. step' = step + 1 /\ at' \in {"activate", "ok", "exec"} BY <2>2, <2>3, NextStepFacts
      <3>2. CASE at' = "ok" BY <1>4, <2>1, <2>6, <3>2
      <3>3. CASE at' # "ok"
        <4>1. ProfileLeft' = ProfileLeft - 1
          BY <1>1, <1>2, <2>1, <2>2, <3>1, <3>3 DEF ProfileLeft, Before
        <4> QED BY <1>0, <1>3, <2>6, <4>1
      <3> QED BY <3>2, <3>3
    <2>4. CASE at' = "error" BY <1>4, <2>1, <2>4, <2>6
    <2>5. CASE /\ UNCHANGED step /\ at' \in {"rotate", "prompt"} /\ tries' = 1 /\ profile.admin
               /\ Child(Op, "auth")
      <3>1. pw # Admin BY <2>1, <2>5, ChildFacts
      <3>2. ProfileLeft' = ProfileLeft BY <2>1, <2>5 DEF ProfileLeft, Before
      <3>3. Within' < Within BY <2>1, <2>5, <3>1 DEF Within
      <3> QED BY <1>0, <1>3, <2>6, <3>2, <3>3
    <2> QED BY <1>9, <2>3, <2>4, <2>5, ExecuteFacts
  <1>10. CASE Rotate
    <2>1. at = "rotate" /\ UNCHANGED <<profile, step, tries>> /\ tries = 1 BY <1>10 DEF Rotate, PasswordInv
    <2>2. \/ refusals' = refusals /\ (at' = "prompt" \/ (at' = "exec" /\ pw' = Admin))
          \/ refusals' = refusals + 1 /\ at' = "exec"
      BY <1>10 DEF Rotate, ChangePassword
    <2>3. ProfileLeft' = ProfileLeft BY <2>1, <2>2 DEF ProfileLeft, Before
    <2>4. refusals' = refusals => Within' < Within BY <1>3, <2>1, <2>2 DEF Within
    <2> QED BY <1>0, <1>00, <1>3, <2>2, <2>3, <2>4
  <1>11. CASE Prompt
    <2>1. at = "prompt" /\ UNCHANGED <<profile, step>> /\ tries \in 0..3
      BY <1>2, <1>11 DEF Prompt
    <2>2. \/ at' = "prompt" /\ tries' = tries + 1 /\ tries < 3 /\ refusals' = refusals
          \/ at' = "error" /\ refusals' = refusals
          \/ at' = "exec" /\ pw' = Admin /\ refusals' = refusals
          \/ at' = "exec" /\ refusals' = refusals + 1
      BY <1>11 DEF Prompt, ChangePassword, MaxTries
    <2>3. CASE at' = "error" /\ refusals' = refusals BY <1>4, <2>1, <2>3
    <2>4. CASE at' \in {"prompt", "exec"}
      <3>1. ProfileLeft' = ProfileLeft BY <2>1, <2>4 DEF ProfileLeft, Before
      <3>2. CASE at' = "prompt" /\ tries' = tries + 1 /\ tries < 3 /\ refusals' = refusals
        <4>1. Within' < Within BY <2>1, <3>2 DEF Within
        <4> QED BY <1>0, <1>3, <3>1, <3>2, <4>1
      <3>3. CASE at' = "exec" /\ pw' = Admin /\ refusals' = refusals
        <4>1. tries < 4 BY <2>1
        <4>2. Within' < Within BY <2>1, <3>3, <4>1 DEF Within
        <4> QED BY <1>0, <1>3, <3>1, <3>3, <4>2
      <3>4. CASE at' = "exec" /\ refusals' = refusals + 1 BY <1>00, <1>3, <3>1, <3>4
      <3> QED BY <2>2, <2>4, <3>2, <3>3, <3>4
    <2> QED BY <2>2, <2>3, <2>4
  <1> QED BY <1>5, <1>6, <1>7, <1>8, <1>9, <1>10, <1>11 DEF Next, ExecuteProfile, Done

-----------------------------------------------------------------------------
(* The theorems. *)

(* Every variable of the orchestrator and of the device has its type, for    *)
(* every profile; the wireless profiles on the device are among those the    *)
(* profile can name.                                                         *)
THEOREM TypeCorrect == Spec => []TypeOK
  <1>1. IInv => TypeOK BY DEF IInv
  <1> QED BY Invariant, <1>1, PTL

(* When ExecuteProfile reports success, every step is in effect but for the  *)
(* steps the device refused without an error and the wireless profiles that  *)
(* a later step cleared, the device holds the wireless profiles in effect,   *)
(* is in the mode asked for unless the activation was refused, and has the   *)
(* profile's password.                                                       *)
THEOREM SuccessIsConfigured == Spec => []SuccessMeansConfigured
  <1>1. IInv => SuccessMeansConfigured
    <2> SUFFICES ASSUME IInv, at = "ok" PROVE SuccessMeansConfigured
      BY DEF SuccessMeansConfigured
    <2>1. Len(Steps(profile)) \in Nat /\ Len(Steps(profile)) > 0
          /\ DOMAIN Steps(profile) = 1..Len(Steps(profile))
      BY StepsFacts DEF IInv, TypeOK
    <2>2. step = Len(Steps(profile)) + 1 BY DEF IInv, StepInv
    <2>3. \A i \in DOMAIN Steps(profile) : i \in applied \cup refused \/ Cleared(i)
      <3>1. \A i \in 1..(step - 1) : i \in applied \cup refused \/ Cleared(i)
        BY DEF IInv, AppliedInv
      <3>2. step - 1 = Len(Steps(profile)) BY <2>1, <2>2
      <3> QED BY <2>1, <3>1, <3>2
    <2>4. mode # 0 /\ (profile.target = "acm" => mode = 2 \/ 0 \in refused)
      BY <2>1, <2>2 DEF IInv, ModeInv
    <2>5. profile.admin => pw = Admin BY DEF IInv, PasswordInv
    <2>6. \A i \in applied : StillHeld(i, wifi) BY DEF IInv, AppliedInv
    <2> QED BY <2>3, <2>4, <2>5, <2>6 DEF SuccessMeansConfigured
  <1> QED BY Invariant, <1>1, PTL

(* Nothing of a later step is in effect while an earlier one failed, however *)
(* the children fail.                                                        *)
THEOREM FirstErrorStops == Spec => []StopsAtFirstError
  <1>1. IInv => StopsAtFirstError
    <2> SUFFICES ASSUME IInv, NEW j \in applied, NEW i \in 1..j
                 PROVE  i \in applied \cup refused \/ Cleared(i)
      BY DEF StopsAtFirstError
    <2>1. Len(Steps(profile)) \in Nat /\ DOMAIN Steps(profile) = 1..Len(Steps(profile))
      BY StepsFacts DEF IInv, TypeOK
    <2>2. j \in Nat /\ i \in Nat /\ step \in Nat BY <2>1 DEF IInv, TypeOK
    <2>3. j <= step BY DEF IInv, AppliedInv
    <2>4. i = j \/ i \in 1..(step - 1) BY <2>2, <2>3
    <2> QED BY <2>4 DEF IInv, AppliedInv
  <1> QED BY Invariant, <1>1, PTL

(* The password of a device in pre-provisioning is never rotated or asked    *)
(* for, although the control mode is the one read when the run began.        *)
THEOREM NeverRotatesUnprovisioned == Spec => []NoRotationUnprovisioned
  <1>1. IInv => NoRotationUnprovisioned
    BY DEF IInv, TypeOK, ModeInv, NoRotationUnprovisioned
  <1> QED BY Invariant, <1>1, PTL

(* When errors are what they seem the user is asked at most three times in   *)
(* the whole run, and three times more for every change of the password the  *)
(* device refused without an error.                                          *)
THEOREM AsksThreeTimes == Spec => []AskedThreeTimes
  <1>1. IInv => AskedThreeTimes BY DEF IInv, PasswordInv, AskedThreeTimes
  <1> QED BY Invariant, <1>1, PTL

(* When errors are what they seem, and for every bound on the changes of the *)
(* password the device refuses without an error, ExecuteProfile is bounded:  *)
(* each step of the process uses up a part of what is left of the run,       *)
(* however the children fail and whatever the user answers, so that the      *)
(* retry after a change (orchestrator.go:172, :218) repeats no more often    *)
(* than such a refusal.                                                      *)
THEOREM RunIsBounded ==
    ASSUME ~Misleading
    PROVE  Spec => [](Remaining \in Nat) /\ [][Remaining' < Remaining]_vars
  <1>1. IInv => RemainingInv BY RemainingFacts DEF RemainingInv
  <1>2. RemainingInv => Remaining \in Nat BY DEF RemainingInv, Remaining
  <1>3. ASSUME IInv, RemainingInv, RemainingInv', [Next]_vars, vars' # vars
        PROVE  Remaining' < Remaining
    <2>1. StepsLeft' < StepsLeft \/ (StepsLeft' = StepsLeft /\ Within' < Within) BY <1>3, RemainingStep
    <2>2. StepsLeft \in Nat /\ Within \in 0..7 BY <1>3 DEF RemainingInv
    <2>3. StepsLeft' \in Nat /\ Within' \in 0..7 BY <1>3 DEF RemainingInv
    <2>4. 8 * StepsLeft' + Within' < 8 * StepsLeft + Within BY <2>1, <2>2, <2>3, LessLeft, Zenon
    <2> QED BY <2>4 DEF Remaining
  <1>4. IInv /\ RemainingInv /\ RemainingInv' /\ [Next]_vars => [Remaining' < Remaining]_vars
    BY <1>3
  <1> QED BY <1>1, <1>2, <1>4, Invariant, PTL DEF Spec
=============================================================================
