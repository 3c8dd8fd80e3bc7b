---------------------------- MODULE Orchestrator ----------------------------
(***************************************************************************)
(* The profile orchestrator, internal/orchestrator/orchestrator.go:        *)
(* ExecuteProfile brings the device to what a profile asks for, one rpc    *)
(* process per step, in a fixed order, and stops at the first error.  A    *)
(* step that fails to authenticate is retried after the password of the    *)
(* device was changed to the profile's, with the password the caller gave  *)
(* or with one the user is asked for.                                      *)
(*                                                                         *)
(* The device and the child processes are outside this component: a child  *)
(* succeeds, fails because of the password it was given, or fails          *)
(* otherwise, perhaps with a part of its effect.  The orchestrator tells   *)
(* the second from the third by the words of the error text (Misleading:   *)
(* the text of another error may hold "auth").  A child does not look at   *)
(* the return values in the device's replies, so that it may also succeed  *)
(* although the device refused what it was asked for (refused, refusals).  *)
(***************************************************************************)
EXTENDS Naturals, Sequences, FiniteSets

CONSTANTS Passwords,     \* what a password can be
          Admin,         \* the profile's AdminPassword
          MaxWifi,       \* bound: wireless profiles in a profile
          MaxProxies,    \* bound: proxies in a profile
          MaxRefusals,   \* bound: steps, and changes of the password, refused
                         \* without an error
          Misleading

ASSUME AdminAssumption == Admin \in Passwords
ASSUME BoundsAssumption == MaxWifi \in Nat /\ MaxProxies \in Nat /\ MaxRefusals \in Nat
ASSUME MisleadingAssumption == Misleading \in BOOLEAN

Unset == "unset"
ASSUME UnsetAssumption == Unset \notin Passwords

VARIABLES
    profile,    \* what the profile asks for
    current,    \* po.currentPassword
    cached,     \* po.currentControlMode: the mode when ExecuteProfile began
    at,         \* where the process is
    step,       \* the step it executes, 0 for the verification of the password
    tries,      \* attempt, in the prompt loop; logins that failed before
    asked       \* how often the user was asked (history)

VARIABLES
    mode,       \* the device's control mode: 0 none, 1 CCM, 2 ACM
    pw,         \* its admin password
    applied,    \* the steps of the profile in effect on it, by number
    wifi,       \* the wireless profiles it holds, 0 being an older one
    refused,    \* the steps it refused without an error, 0 the activation (history)
    refusals    \* the changes of the password it refused without an error

poVars == <<profile, current, cached, at, step, tries, asked>>
device == <<mode, pw, applied, wifi, refused, refusals>>
vars == <<poVars, device>>

Profiles ==
    [target : {"none", "ccm", "acm", "other"},  \* ControlMode
     admin : BOOLEAN,                           \* AdminPassword is given
     mebx : BOOLEAN, wired : BOOLEAN, tls : BOOLEAN,
     wifi : 0..MaxWifi, proxies : 0..MaxProxies,
     badWifi : 0..MaxWifi]                      \* a profile with unknown methods, or 0

-----------------------------------------------------------------------------
(* The steps a profile asks for, in order. *)

Command(name, i) == <<name, i>>
OnlyIf(wanted, c) == IF wanted THEN <<c>> ELSE <<>>

MebxStep(p) == OnlyIf(p.mebx /\ p.target = "acm", Command("mebx", 0))
\* Always, so that features are also disabled.
FeaturesStep == <<Command("amtfeatures", 0)>>
WiredStep(p) == OnlyIf(p.wired, Command("wired", 0))
WifiSyncStep == <<Command("wifisync", 0)>>
WirelessSteps(p) == <<Command("purge", 0)>> \o [i \in 1..p.wifi |-> Command("wireless", i)]
TlsStep(p) == OnlyIf(p.tls, Command("tls", 0))
ProxySteps(p) == [i \in 1..p.proxies |-> Command("proxy", i)]

Steps(p) ==
    MebxStep(p) \o FeaturesStep \o WiredStep(p) \o WifiSyncStep
    \o WirelessSteps(p) \o TlsStep(p) \o ProxySteps(p)

\* The password probe changes the password to the value it should have.
Probe == Command("amtpassword", 0)
Op == IF step = 0 THEN Probe ELSE Steps(profile)[step]

\* Bound: the count of prompts stops here.
MaxAsked == 3 * (MaxRefusals + 1) + 1

TypeOK ==
    /\ profile \in Profiles /\ current \in Passwords \cup {Unset}
    /\ cached \in 0..2
    /\ at \in {"load", "login", "fetch", "start", "align", "exec", "rotate", "prompt", "activate",
               "ok", "error"}
    /\ step \in 0..Len(Steps(profile)) + 1
    /\ at \in {"exec", "rotate", "prompt"} => step <= Len(Steps(profile))
    /\ tries \in 0..3 /\ asked \in 0..MaxAsked
    /\ mode \in 0..2 /\ pw \in Passwords \cup {Unset}
    /\ applied \subseteq DOMAIN Steps(profile) /\ wifi \subseteq 0..MaxWifi
    /\ refused \subseteq 0..Len(Steps(profile)) /\ refusals \in 0..MaxRefusals

Init ==
    /\ profile \in Profiles /\ current \in Passwords \cup {Unset}
    /\ profile.badWifi <= profile.wifi
    /\ cached = 0 /\ at = "load" /\ step = 0
    /\ tries = 0 /\ asked = 0
    /\ mode \in 0..2
    /\ pw \in (IF mode = 0 THEN {Unset} ELSE Passwords)
    /\ applied = {} /\ wifi = {0} /\ refused = {} /\ refusals = 0

-----------------------------------------------------------------------------
(* The child processes. *)

\* --password of every step; without it the child asks the user.
Given == IF profile.admin THEN {Admin} ELSE Passwords

\* Step i did not apply a profile, or one that is still there.
StillHeld(i, left) == Steps(profile)[i][1] = "wireless" => Steps(profile)[i][2] \in left

(* What a child did on the device, done or refused.  A purge and every        *)
(* wireless step clear the profiles the device holds, those of the steps      *)
(* before it too; some may be left, and then the purge is not done.           *)
Effect(c, done) ==
    /\ IF c[1] \in {"purge", "wireless"}
       THEN \E left \in SUBSET wifi :
              /\ c[1] = "purge" => done = (left = {})
              /\ wifi' = IF c[1] = "wireless" /\ done THEN left \cup {c[2]} ELSE left
              /\ applied' = {i \in applied : StillHeld(i, left)} \cup {i \in {step} : done}
       ELSE /\ applied' = applied \cup {i \in {step} \ {0} : done}
            /\ UNCHANGED wifi
    /\ UNCHANGED <<mode, pw, refusals>>

\* The probe, done or refused, leaves the password it was given.
Child(c, outcome) ==
    \/ outcome = "ok" /\ mode # 0 /\ pw \in Given
       /\ \E done \in BOOLEAN :
            /\ Effect(c, done)
            /\ done \/ Cardinality(refused) < MaxRefusals
            /\ refused' = refused \cup {i \in {step} \ {0} : ~done}
    \/ outcome = "auth" /\ (\E p \in Given : p # pw) /\ UNCHANGED device
    \/ outcome = "other" /\ UNCHANGED device
    \/ outcome = "other" /\ mode # 0 /\ pw \in Given
       /\ (\E done \in BOOLEAN : Effect(c, done)) /\ UNCHANGED refused

\* "configure amtpassword --password old --newamtpassword Admin"; the return
\* value of SetAdminAclEntryEx is not looked at.
ChangePassword(old, outcome) ==
    /\ \/ outcome \in {"ok", "other"} /\ mode # 0 /\ pw = old /\ pw' = Admin /\ UNCHANGED refusals
       \/ outcome = "ok" /\ mode # 0 /\ pw = old /\ UNCHANGED pw
          /\ refusals < MaxRefusals /\ refusals' = refusals + 1
       \/ outcome = "auth" /\ pw # old /\ UNCHANGED <<pw, refusals>>
       \/ outcome = "other" /\ UNCHANGED <<pw, refusals>>
    /\ UNCHANGED <<mode, applied, wifi, refused>>

(* "activate --local": from pre-provisioning, or from CCM to ACM with the    *)
(* device's password.  On an error the device may have been activated, and   *)
(* on success it may be as it was (Activation has the details).              *)
Target == IF profile.target = "acm" THEN 2 ELSE 1
ChildActivates(ok) ==
    \/ mode = 0 /\ mode' = Target /\ pw' \in Given /\ UNCHANGED refused
    \/ mode = 1 /\ Target = 2 /\ pw \in Given /\ mode' = 2 /\ UNCHANGED <<pw, refused>>
    \/ refused' = refused \cup {i \in {0} : ok /\ mode # Target} /\ UNCHANGED <<mode, pw>>

-----------------------------------------------------------------------------
(* Where the profile comes from: activate with a file, or with a URL.        *)

Keep == UNCHANGED <<profile, current, cached, step, asked, device>>

\* In clear or encrypted; what cannot be read or decrypted is an error.
LoadProfile ==
    /\ at = "load" /\ at' \in {"start", "error"} /\ UNCHANGED tries
    /\ Keep

\* Only without a token, with a user and a password.  Each endpoint is tried once.
Authenticate ==
    /\ \/ at = "load" /\ at' = "login" /\ UNCHANGED tries
       \/ at = "login" /\ at' \in {"fetch", "error"} /\ tries' = 0
       \/ at = "login" /\ tries = 0 /\ tries' = 1 /\ UNCHANGED at
    /\ Keep

\* A reply that is no profile may still be taken for one that asks for nothing.
FetchProfile ==
    /\ \/ at = "load" /\ at' = "fetch"
       \/ at = "fetch" /\ at' \in {"start", "error"}
    /\ UNCHANGED tries /\ Keep

GetProfile == LoadProfile \/ Authenticate \/ FetchProfile

-----------------------------------------------------------------------------
(* ExecuteProfile. *)

\* Mutant: the last step is left out.
NextStep_Skips ==
    /\ step' = step + 1
    /\ at' = IF step = 0 THEN "activate"
             ELSE IF step >= Len(Steps(profile)) - 1 THEN "ok" ELSE "exec"
    /\ tries' = 0

NextStep ==
    /\ step' = step + 1
    /\ at' = IF step = 0 THEN "activate"
             ELSE IF step = Len(Steps(profile)) THEN "ok" ELSE "exec"
    /\ tries' = 0

\* Initialize and GetControlMode, which reads a reply with a bad status as 0;
\* then verifyAndAlignAMTPassword if it applies.
Start ==
    /\ at = "start"
    /\ \/ at' = "error" /\ UNCHANGED <<cached, step>>
       \/ /\ cached' \in {mode, 0}
          /\ IF cached' # 0 /\ profile.admin
             THEN at' = (IF current # Unset THEN "align" ELSE "exec") /\ UNCHANGED step
             ELSE at' = "activate" /\ step' = 1
    /\ UNCHANGED <<profile, current, tries, asked, device>>

\* The direct rotation of verifyAndAlignAMTPassword; the probe if it fails.
AlignPassword ==
    /\ at = "align"
    /\ \/ ChangePassword(current, "ok") /\ NextStep
       \/ \E outcome \in {"auth", "other"} :
            ChangePassword(current, outcome) /\ at' = "exec" /\ UNCHANGED <<step, tries>>
    /\ UNCHANGED <<profile, current, cached, asked>>

\* Step 1, without fallback.
Activate ==
    /\ at = "activate"
    /\ \/ /\ ~(profile.target = "acm" /\ cached = 1) /\ (cached # 0 \/ profile.target = "none")
          /\ at' = "exec" /\ UNCHANGED <<mode, pw, refused>>
       \/ /\ cached = 0 /\ profile.target = "other"
          /\ at' = "error" /\ UNCHANGED <<mode, pw, refused>>
       \/ /\ \/ profile.target = "acm" /\ cached < 2
             \/ profile.target = "ccm" /\ cached = 0
          /\ \E ok \in BOOLEAN :
                ChildActivates(ok) /\ at' = IF ok THEN "exec" ELSE "error"
    /\ UNCHANGED <<profile, current, cached, step, tries, asked, applied, wifi, refusals>>

\* Mutant: the fallback also runs on a device in pre-provisioning.
MayRotate_Always(outcome) ==
    /\ profile.admin
    /\ outcome = "auth" \/ (Misleading /\ outcome = "other")

\* Mutant: the text of the error is not looked at.
MayRotate_AnyError(outcome) == cached # 0 /\ profile.admin

\* executeWithPasswordFallback goes on after an error of the command.
MayRotate(outcome) ==
    /\ cached # 0 /\ profile.admin
    /\ outcome = "auth" \/ (Misleading /\ outcome = "other")

\* executeWirelessProfile rejects a profile before it calls the child.
Rejected == Op[1] = "wireless" /\ Op[2] = profile.badWifi

\* Mutant: an error of a step does not end the profile.
Execute_GoesOn ==
    /\ at = "exec"
    /\ \/ ~Rejected /\ Child(Op, "ok") /\ NextStep
       \/ ~Rejected /\ Child(Op, "auth") /\ MayRotate("auth")
            /\ at' = (IF current # Unset THEN "rotate" ELSE "prompt")
            /\ tries' = 1 /\ UNCHANGED step
       \/ ~Rejected /\ Child(Op, "other") /\ NextStep
       \/ Rejected /\ NextStep /\ UNCHANGED device
    /\ UNCHANGED <<profile, current, cached, asked>>

Execute ==
    /\ at = "exec"
    /\ \/ ~Rejected /\ Child(Op, "ok") /\ NextStep
       \/ \E outcome \in {"auth", "other"} :
            /\ ~Rejected /\ Child(Op, outcome)
            /\ at' = IF ~MayRotate(outcome) THEN "error"
                     ELSE IF current # Unset THEN "rotate" ELSE "prompt"
            /\ tries' = 1
            /\ UNCHANGED step
       \/ Rejected /\ at' = "error" /\ UNCHANGED <<step, tries, device>>
    /\ UNCHANGED <<profile, current, cached, asked>>

\* The non-interactive change: retry, or ask the user.
Rotate ==
    /\ at = "rotate"
    /\ \E outcome \in {"ok", "auth", "other"} :
        /\ ChangePassword(current, outcome)
        /\ at' = IF outcome = "ok" THEN "exec" ELSE "prompt"
    /\ UNCHANGED <<profile, current, cached, step, tries, asked>>

\* Mutant: the last attempt asks again.
MaxTries_Four == 4
MaxTries == 3

(* The prompt loop: an empty password or one the device rejects is asked for *)
(* again, up to three times; after a change the command is retried.          *)
Prompt ==
    /\ at = "prompt"
    /\ asked' = IF asked < MaxAsked THEN asked + 1 ELSE asked
    /\ \/ tries < MaxTries /\ at' = "prompt" /\ tries' = tries + 1 /\ UNCHANGED <<pw, refusals>>
       \/ at' = "error" /\ UNCHANGED <<tries, pw, refusals>>
       \/ \E p \in Passwords :
            \/ ChangePassword(p, "ok") /\ at' = "exec" /\ UNCHANGED tries
            \/ \E outcome \in {"auth", "other"} :
                /\ ChangePassword(p, outcome)
                /\ IF tries < MaxTries /\ (outcome = "auth" \/ Misleading)
                   THEN at' = "prompt" /\ tries' = tries + 1
                   ELSE at' = "error" /\ UNCHANGED tries
    /\ UNCHANGED <<profile, current, cached, step, mode, applied, wifi, refused>>

Done == at \in {"ok", "error"} /\ UNCHANGED vars

ExecuteProfile == Start \/ AlignPassword \/ Activate \/ Execute \/ Rotate \/ Prompt
Next == GetProfile \/ ExecuteProfile \/ Done

Spec == Init /\ [][Next]_vars
(* One sequential process; its children end, the user answers and every HTTP *)
(* request has a timeout (ProfileFetcher.Timeout, 30 seconds if not given).  *)
FairSpec == Spec /\ WF_vars(GetProfile \/ ExecuteProfile)

-----------------------------------------------------------------------------
(* Properties. *)

\* A wireless step whose profile a later step cleared.
Cleared(i) ==
    /\ Steps(profile)[i][1] = "wireless"
    /\ \E j \in (i + 1)..step : j \in DOMAIN Steps(profile)
                                 /\ Steps(profile)[j][1] \in {"purge", "wireless"}

(* When ExecuteProfile reports success every step the profile asks for is in *)
(* effect, but for those the device refused without an error and those of    *)
(* wireless profiles before the last (see HoldsAllWireless); the device      *)
(* holds the profiles in effect, is activated, in ACM if the profile asks    *)
(* for ACM and the activation was not refused, and has the profile's         *)
(* password, in spite of the retries, of refused changes of the password,    *)
(* of a misread control mode and of what the device was like before.         *)
SuccessMeansConfigured ==
    at = "ok" =>
        /\ \A i \in DOMAIN Steps(profile) : i \in applied \cup refused \/ Cleared(i)
        /\ \A i \in applied : StillHeld(i, wifi)
        /\ mode # 0 /\ (profile.target = "acm" => mode = 2 \/ 0 \in refused)
        /\ profile.admin => pw = Admin

(* It stops at the first error: nothing of a later step is in effect while   *)
(* an earlier one failed; one that is not in effect was refused without an   *)
(* error or is a wireless profile cleared by a later step.                   *)
StopsAtFirstError ==
    \A j \in applied : \A i \in 1..j : i \in applied \cup refused \/ Cleared(i)

(* "Do not prompt/rotate when device is in pre-provisioning (control mode    *)
(* 0)" (orchestrator.go:142).                                                *)
NoRotationUnprovisioned == at \in {"align", "rotate", "prompt"} => mode # 0

(* When only a wrong password makes a child report an authentication error,  *)
(* the user is asked at most three times in the whole run, and three times   *)
(* more for every change of the password that was reported and not made: no  *)
(* later step asks again, and no retry follows a retry, without one.         *)
AskedThreeTimes == ~Misleading => asked <= 3 * (refusals + 1)

(* The process ends: the retry after a change of the password does not       *)
(* repeat for ever when errors are what they seem and the device does not    *)
(* for ever refuse the change without an error.                              *)
Ends == ~Misleading => at = "load" ~> at \in {"ok", "error"}

-----------------------------------------------------------------------------
(* A property the program does not have. *)

(* "Always purge existing Wi-Fi profiles before applying new ones"           *)
(* (orchestrator.go:421), and then apply each: on success the device holds   *)
(* all wireless profiles of the profile.                                     *)
HoldsAllWireless == at = "ok" => 1..profile.wifi \subseteq wifi
=============================================================================
